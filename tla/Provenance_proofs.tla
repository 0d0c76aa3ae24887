------------------------- MODULE Provenance_proofs -------------------------
(***************************************************************************)
(* Proofs about Provenance, for any names, libraries and files of the      *)
(* authority, any limit and any number of runs and changes. The invariants *)
(* are layers: Typed first, then Distinct, Authentic and Complete, each    *)
(* inductive given Typed.                                                  *)
(***************************************************************************)
EXTENDS Provenance, FiniteSetTheorems, TLAPS

USE DEF authority, progress, counters

-----------------------------------------------------------------------------
(***************************************************************************)
(* The steps by what they do to the run: they end it, go on to the next    *)
(* artifact, or take the one in hand a step further.                       *)
(***************************************************************************)

\* The run is over; in the middle of a write a file in hand may be changed.
Over ==
  /\ pc # "idle"
  /\ \E how \in {"OK", "FAILED", "none"} : Stop(how)
  /\ UNCHANGED <<index, chain, library, seen, fresh, disturbed, runs, changes>>
  /\ \/ corpus' = corpus
     \/ \E n \in name : \E left \in {Torn, CorpusOf(n)} :
          pc = "write" /\ corpus' = [corpus EXCEPT ![n] = left]

\* An artifact without a corpus file of its own: a stale or uncontrolled one
\* is not taken up, the other two are put down again.
Passed ==
  /\ Continue
  /\ UNCHANGED <<index, chain, library, corpus, seen, fresh, status, disturbed,
                 runs, changes>>
  /\ \/ \E n \in Name : /\ Stale(n) \/ Uncontrolled(n)
                        /\ pc = "next" /\ n \in todo /\ todo' = todo \ {n}
     \/ /\ NotFound \/ Duplicate
        /\ pc \in {"lookup", "identity"} /\ todo' = todo

LEMMA StepKinds ==
  ASSUME [Next]_vars
  PROVE  \/ UNCHANGED vars \/ Publish \/ Deliver \/ Begin \/ Over \/ Passed
         \/ Lookup \/ Verify \/ Admit
         \/ \E n \in Name : ReadHeader(n) \/ Write(n)
<1>1. ASSUME NEW n \in Name,
             Malformed(n) \/ SizeDiffers(n) \/ WriteFails(n)
      PROVE  Over
  BY <1>1 DEF Malformed, SizeDiffers, WriteFails, Current, FailClosed, Over
<1>2. ASSUME Unusable \/ End \/ LookupFails \/ VerifyFails \/ Conflict
      PROVE  Over
  BY <1>2 DEF Unusable, End, LookupFails, VerifyFails, Conflict, FailClosed,
              Over
<1>3. ASSUME Crash PROVE Over
  BY <1>3 DEF Crash, Over
<1>4. ASSUME NEW n \in Name, Stale(n) \/ Uncontrolled(n)
      PROVE  Passed
  BY <1>4 DEF Stale, Uncontrolled, Current, Passed
<1>5. ASSUME NotFound \/ Duplicate
      PROVE  Passed
  BY <1>5 DEF NotFound, Duplicate, Passed
<1> QED BY <1>1, <1>2, <1>3, <1>4, <1>5 DEF Next, Step, Resolve

-----------------------------------------------------------------------------
(***************************************************************************)
(* Types. A name in hand comes with a whole header, and is neither to come *)
(* nor done; each fresh corpus file has an identity that was seen.         *)
(***************************************************************************)

Header ==
  /\ header = [wellFormed |-> TRUE, root |-> header.root,
               revision |-> header.revision, previous |-> header.previous,
               sha |-> header.sha, approved |-> header.approved]
  /\ header.sha \in Nat

Typed ==
  /\ ProvenanceTypeOK
  /\ DOMAIN corpus = Name
  /\ name = {} => header = Unread
  /\ name # {} => Header /\ \E n \in Name : name = {n}
  /\ fresh \subseteq Name /\ todo \cap fresh = {}
  /\ IsFiniteSet(seen) /\ IsFiniteSet(fresh)
  /\ pc = "write" => Cardinality(fresh) < Cardinality(seen)
  /\ pc = "idle" => todo = {}

LEMMA NoneInHand == Cardinality({}) = 0 /\ IsFiniteSet({})
BY FS_EmptySet

LEMMA Cardinalities ==
  ASSUME Typed
  PROVE  Cardinality(seen) \in Nat /\ Cardinality(fresh) \in Nat
BY FS_CardinalityType DEF Typed

LEMMA TypedInit ==
  ASSUME Init
  PROVE  Typed
<1>1. /\ corpus = [n \in Name |-> Missing] /\ pc = "idle"
      /\ todo = {} /\ name = {} /\ header = Unread /\ seen = {} /\ fresh = {}
      /\ status = "none" /\ disturbed = FALSE /\ runs = 0 /\ changes = 0
      /\ index \in Indexes /\ chain \in Chains /\ library \in Libraries
  BY DEF Init
<1>2. runs \in 0..MaxRuns /\ changes \in 0..MaxChanges /\ 0 <= SeenMax
  BY <1>1, ProvenanceAssumption
<1>3. header.wellFormed = FALSE
  BY <1>1 DEF Unread
<1>4. Cardinality(name) <= 1 /\ Cardinality(seen) <= SeenMax
      /\ Cardinality(fresh) <= Cardinality(seen)
  BY <1>1, <1>2, NoneInHand
<1>5. \A n \in Name : corpus[n] \in {Missing, Torn}
  BY <1>1
<1>6. ProvenanceTypeOK
  BY <1>1, <1>2, <1>3, <1>4, <1>5 DEF ProvenanceTypeOK
<1> QED BY <1>1, <1>6, NoneInHand DEF Typed

\* The run stops or goes on to the next artifact.
LEMMA TypedPutDown ==
  ASSUME Typed, PutDown, pc' \in {"idle", "next"}, pc' = "idle" => todo' = {},
         todo' \subseteq todo,
         UNCHANGED <<index, chain, library, seen, disturbed, runs, changes>>,
         status' \in {"none", "OK", "FAILED"},
         DOMAIN corpus' = Name,
         \A n \in Name :
           corpus'[n] \in {Missing, Torn} \/ corpus'[n].sha \in Nat,
         fresh' \subseteq Name, todo' \cap fresh' = {}, IsFiniteSet(fresh'),
         Cardinality(fresh') <= Cardinality(seen)
  PROVE  Typed'
<1>1. name' = {} /\ header' = Unread /\ header'.wellFormed = FALSE
  BY DEF PutDown, Unread
<1>2. artifacts' = artifacts
  BY DEF artifacts
<1>3. ProvenanceTypeOK'
  BY <1>1, <1>2, NoneInHand DEF Typed, ProvenanceTypeOK
<1> QED BY <1>1, <1>3 DEF Typed

\* The corpus file of the name in hand is changed, and no other.
LEMMA CorpusType ==
  ASSUME Typed, NEW n \in name, NEW left \in {Torn, CorpusOf(n)},
         corpus' = [corpus EXCEPT ![n] = left]
  PROVE  /\ n \in Name /\ DOMAIN corpus' = Name
         /\ corpus'[n] = left
         /\ \A m \in Name \ {n} : corpus'[m] = corpus[m]
         /\ \A m \in fresh : corpus'[m] = corpus[m]
         /\ \A m \in Name :
              corpus'[m] \in {Missing, Torn} \/ corpus'[m].sha \in Nat
<1>1. n \in Name /\ DOMAIN corpus = Name /\ header.sha \in Nat
      /\ n \notin fresh /\ fresh \subseteq Name
  BY DEF Typed, ProvenanceTypeOK, Header
<1>2. CorpusOf(n).sha = header.sha
  BY DEF CorpusOf
<1>3. /\ DOMAIN corpus' = Name /\ corpus'[n] = left
      /\ \A m \in Name \ {n} : corpus'[m] = corpus[m]
  BY <1>1
<1>4. \A m \in Name : corpus[m] \in {Missing, Torn} \/ corpus[m].sha \in Nat
  BY DEF Typed, ProvenanceTypeOK
<1> QED BY <1>1, <1>2, <1>3, <1>4

LEMMA TypedOver ==
  ASSUME Typed, Over
  PROVE  Typed'
<1>1. /\ PutDown /\ pc' = "idle" /\ todo' = {} /\ fresh' = fresh
      /\ status' \in {"none", "OK", "FAILED"}
      /\ UNCHANGED <<index, chain, library, seen, disturbed, runs, changes>>
  BY DEF Over, Stop
<1>2. /\ DOMAIN corpus' = Name
      /\ \A n \in Name :
           corpus'[n] \in {Missing, Torn} \/ corpus'[n].sha \in Nat
  BY CorpusType DEF Over, Typed, ProvenanceTypeOK
<1>3. /\ fresh \subseteq Name /\ IsFiniteSet(fresh)
      /\ Cardinality(fresh) <= Cardinality(seen)
  BY DEF Typed, ProvenanceTypeOK
<1> QED BY <1>1, <1>2, <1>3, TypedPutDown

LEMMA TypedPassed ==
  ASSUME Typed, Passed
  PROVE  Typed'
<1>1. /\ PutDown /\ pc' = "next" /\ todo' \subseteq todo
      /\ UNCHANGED <<index, chain, library, corpus, seen, fresh, status,
                     disturbed, runs, changes>>
  BY DEF Passed, Continue
<1>2. /\ DOMAIN corpus = Name
      /\ \A n \in Name : corpus[n] \in {Missing, Torn} \/ corpus[n].sha \in Nat
      /\ status \in {"none", "OK", "FAILED"}
      /\ fresh \subseteq Name /\ todo \cap fresh = {} /\ IsFiniteSet(fresh)
      /\ Cardinality(fresh) <= Cardinality(seen)
  BY DEF Typed, ProvenanceTypeOK
<1>3. todo' \cap fresh' = {}
  BY <1>1, <1>2
<1> QED BY <1>1, <1>2, <1>3, TypedPutDown

LEMMA SourceHeader ==
  ASSUME Typed, NEW n, ReadHeader(n)
  PROVE  header' \in [wellFormed : {TRUE}, root : Nat, revision : Nat,
                      previous : Nat, sha : Nat, approved : BOOLEAN]
<1>1. /\ SourceOf(n) \in DOMAIN library.sources
      /\ library.sources[SourceOf(n)].header.wellFormed
      /\ header' = library.sources[SourceOf(n)].header
  BY DEF ReadHeader, Current, sources
<1>2. library \in Libraries
  BY DEF Typed, ProvenanceTypeOK
<1> QED BY <1>1, <1>2, FileAssumption

LEMMA TypedReadHeader ==
  ASSUME Typed, NEW n \in Name, ReadHeader(n)
  PROVE  Typed'
<1>1. /\ UNCHANGED <<index, chain, library, corpus, seen, fresh, status,
                     disturbed, runs, changes>>
      /\ todo' = todo \ {n} /\ name' = {n} /\ pc' = "lookup"
      /\ n \in todo
  BY DEF ReadHeader, Current
<1>2. Header' /\ header'.wellFormed = TRUE
  BY SourceHeader DEF Header
<1>3. n \notin fresh /\ Cardinality(name') <= 1 /\ artifacts' = artifacts
  BY <1>1, FS_Singleton DEF Typed, artifacts
<1>4. ProvenanceTypeOK'
  BY <1>1, <1>2, <1>3 DEF Typed, ProvenanceTypeOK
<1> QED BY <1>1, <1>2, <1>4 DEF Typed

\* The artifact in hand goes a step further; only Lookup changes its header.
LEMMA TypedLookup ==
  ASSUME Typed, Lookup \/ Verify
  PROVE  Typed'
<1>1. /\ UNCHANGED <<index, chain, library, corpus, todo, name, seen, fresh,
                     status, disturbed, runs, changes>>
      /\ pc \in {"lookup", "verify"} /\ pc' \in {"verify", "identity"}
  BY DEF Lookup, Verify
<1>2. name # {} /\ Header
  BY <1>1 DEF Typed, ProvenanceTypeOK
<1>3. Header' /\ header'.wellFormed = TRUE
  <2>1. CASE Verify
    BY <1>2, <2>1 DEF Verify, Header
  <2>2. CASE Lookup
    <3> DEFINE p == index.records[CHOOSE i \in Claims : TRUE].previous
               a == header.root
               b == header.revision
               c == header.previous
               d == header.sha
               e == header.approved
    <3>1. header' = [header EXCEPT !.previous = p]
      BY <2>2 DEF Lookup, Adopted
    <3>2. header = [wellFormed |-> TRUE, root |-> a, revision |-> b,
                    previous |-> c, sha |-> d, approved |-> e] /\ d \in Nat
      BY <1>2 DEF Header
    <3> HIDE DEF p, a, b, c, d, e
    <3>3. header' = [wellFormed |-> TRUE, root |-> a, revision |-> b,
                     previous |-> p, sha |-> d, approved |-> e]
      BY <3>1, <3>2
    <3> QED BY <3>2, <3>3 DEF Header
  <2> QED BY <2>1, <2>2
<1>4. ProvenanceTypeOK'
  BY <1>1, <1>2, <1>3 DEF Typed, ProvenanceTypeOK, artifacts
<1> QED BY <1>1, <1>2, <1>3, <1>4 DEF Typed

LEMMA TypedAdmit ==
  ASSUME Typed, Admit
  PROVE  Typed'
<1>1. /\ UNCHANGED <<index, chain, library, corpus, todo, name, header, fresh,
                     status, disturbed, runs, changes>>
      /\ pc = "identity" /\ pc' = "write"
      /\ seen' = seen \cup {Identity} /\ Cardinality(seen) < SeenMax
  BY DEF Admit
<1>2. Identity \notin seen
  BY DEF Admit, Known, SameIdentity, Identity
<1>3. /\ IsFiniteSet(seen') /\ Cardinality(seen') = Cardinality(seen) + 1
  BY <1>1, <1>2, FS_AddElement DEF Typed
<1>4. /\ Cardinality(seen') <= SeenMax
      /\ Cardinality(fresh) < Cardinality(seen')
  BY <1>1, <1>3, Cardinalities, ProvenanceAssumption DEF Typed, ProvenanceTypeOK
<1>5. Cardinality(fresh) <= Cardinality(seen')
  BY <1>3, <1>4, Cardinalities
<1>6. ProvenanceTypeOK'
  BY <1>1, <1>4, <1>5 DEF Typed, ProvenanceTypeOK, artifacts
<1> QED BY <1>1, <1>3, <1>4, <1>6 DEF Typed, Header

LEMMA TypedWrite ==
  ASSUME Typed, NEW n \in Name, Write(n)
  PROVE  Typed'
<1>1. /\ PutDown /\ pc = "write" /\ pc' = "next" /\ n \in name
      /\ corpus' = [corpus EXCEPT ![n] = CorpusOf(n)]
      /\ fresh' = fresh \cup {n}
      /\ UNCHANGED <<index, chain, library, todo, seen, status, disturbed,
                     runs, changes>>
  BY DEF Write, Continue
<1>2. /\ DOMAIN corpus' = Name
      /\ \A m \in Name :
           corpus'[m] \in {Missing, Torn} \/ corpus'[m].sha \in Nat
  BY <1>1, CorpusType
<1>3. /\ fresh' \subseteq Name /\ todo' \cap fresh' = {}
      /\ status \in {"none", "OK", "FAILED"}
  BY <1>1 DEF Typed, ProvenanceTypeOK
<1>4. n \notin fresh
  BY <1>1 DEF Typed, ProvenanceTypeOK
<1>5. IsFiniteSet(fresh') /\ Cardinality(fresh') = Cardinality(fresh) + 1
  BY <1>1, <1>4, FS_AddElement DEF Typed
<1>6. Cardinality(fresh') <= Cardinality(seen)
  BY <1>1, <1>5, Cardinalities DEF Typed
<1> QED BY <1>1, <1>2, <1>3, <1>5, <1>6, TypedPutDown

LEMMA TypedStep ==
  ASSUME Typed, [Next]_vars
  PROVE  Typed'
<1>1. CASE UNCHANGED vars
  BY <1>1 DEF vars, Typed, ProvenanceTypeOK, Header, artifacts
<1>2. CASE Publish
  <2>1. /\ UNCHANGED <<library, corpus, pc, todo, name, header, seen, fresh,
                       status, runs>>
        /\ index' \in Indexes /\ chain' \in Chains /\ disturbed' = TRUE
        /\ changes' \in 0..MaxChanges
    BY <1>2, ProvenanceAssumption DEF Publish, Typed, ProvenanceTypeOK
  <2>2. ProvenanceTypeOK'
    BY <2>1 DEF Typed, ProvenanceTypeOK, artifacts
  <2> QED BY <2>1, <2>2 DEF Typed, Header
<1>3. CASE Deliver
  <2>1. /\ UNCHANGED <<index, chain, corpus, pc, todo, name, header, seen,
                       fresh, status, disturbed, runs, changes>>
        /\ library' \in Libraries /\ pc = "idle"
    BY <1>3 DEF Deliver
  <2>2. ProvenanceTypeOK'
    BY <2>1 DEF Typed, ProvenanceTypeOK
  <2> QED BY <2>1, <2>2 DEF Typed, Header
<1>4. CASE Begin
  <2>1. /\ UNCHANGED <<index, chain, library, corpus, name, header, changes>>
        /\ pc = "idle" /\ pc' = "next" /\ todo' = DOMAIN artifacts
        /\ seen' = {} /\ fresh' = {} /\ status' = "none" /\ disturbed' = FALSE
    BY <1>4 DEF Begin
  <2>2. runs' \in 0..MaxRuns /\ 0 <= SeenMax
    BY <1>4, ProvenanceAssumption DEF Begin, Typed, ProvenanceTypeOK
  <2>3. name = {} /\ header = Unread
    BY <2>1 DEF Typed, ProvenanceTypeOK
  <2>4. /\ Cardinality(name') <= 1 /\ Cardinality(seen') <= SeenMax
        /\ Cardinality(fresh') <= Cardinality(seen')
    BY <2>1, <2>2, <2>3, NoneInHand
  <2>5. todo' = DOMAIN artifacts' /\ name' = {} /\ header'.wellFormed = FALSE
    BY <2>1, <2>3 DEF artifacts, Unread
  <2>6. ProvenanceTypeOK'
    BY <2>1, <2>2, <2>4, <2>5 DEF Typed, ProvenanceTypeOK
  <2> QED BY <2>1, <2>3, <2>6, NoneInHand DEF Typed
<1>5. CASE Over
  BY <1>5, TypedOver
<1>6. CASE Passed
  BY <1>6, TypedPassed
<1>7. CASE Lookup \/ Verify
  BY <1>7, TypedLookup
<1>8. CASE Admit
  BY <1>8, TypedAdmit
<1>9. CASE \E n \in Name : ReadHeader(n) \/ Write(n)
  BY <1>9, TypedReadHeader, TypedWrite
<1> QED BY <1>1, <1>2, <1>3, <1>4, <1>5, <1>6, <1>7, <1>8, <1>9, StepKinds

LEMMA AlwaysTyped == Spec => []Typed
<1> QED BY TypedInit, TypedStep, PTL DEF Spec

\* The type invariant of the stage.
THEOREM TypeCorrect == Spec => []ProvenanceTypeOK
<1>1. Typed => ProvenanceTypeOK
  BY DEF Typed
<1> QED BY <1>1, AlwaysTyped, PTL

-----------------------------------------------------------------------------
(***************************************************************************)
(* One corpus file for each identity. What is fresh has been seen, and     *)
(* what is about to be written has no fresh corpus file yet.               *)
(***************************************************************************)

Distinct ==
  /\ OneCorpusPerIdentity
  /\ \A n \in fresh : \E s \in seen : SameIdentity(s, corpus[n])
  /\ pc = "write" => /\ Identity \in seen
                     /\ \A n \in fresh : ~SameIdentity(corpus[n], header)

\* The corpus files a run has made stay as they are until the next run.
LEMMA FreshKept ==
  ASSUME Typed, Over \/ Passed \/ Lookup \/ Verify \/ Admit
                  \/ \E n \in Name : ReadHeader(n) \/ Write(n)
  PROVE  \A m \in fresh : m \in fresh' /\ corpus'[m] = corpus[m]
<1>1. CASE Over
  BY <1>1, CorpusType DEF Over
<1>2. CASE Passed \/ Lookup \/ Verify \/ Admit \/ \E n \in Name : ReadHeader(n)
  BY <1>2 DEF Passed, Lookup, Verify, Admit, ReadHeader
<1>3. ASSUME NEW n \in Name, Write(n)
      PROVE  \A m \in fresh : m \in fresh' /\ corpus'[m] = corpus[m]
  <2>1. corpus' = [corpus EXCEPT ![n] = CorpusOf(n)] /\ n \in name
        /\ fresh' = fresh \cup {n}
    BY <1>3 DEF Write
  <2> QED BY <2>1, CorpusType
<1> QED BY <1>1, <1>2, <1>3

\* Nothing new is fresh, nothing new is about to be written.
LEMMA DistinctKept ==
  ASSUME Distinct, fresh' = fresh, seen' = seen,
         \A m \in fresh : corpus'[m] = corpus[m],
         pc' = "write" => pc = "write" /\ header' = header
  PROVE  Distinct'
<1>1. OneCorpusPerIdentity'
  BY DEF Distinct, OneCorpusPerIdentity, SameIdentity
<1>2. \A n \in fresh' : \E s \in seen' : SameIdentity(s, corpus'[n])
  BY DEF Distinct, SameIdentity
<1>3. ASSUME pc' = "write"
      PROVE  /\ Identity' \in seen'
             /\ \A n \in fresh' : ~SameIdentity(corpus'[n], header')
  BY <1>3 DEF Distinct, SameIdentity, Identity
<1> QED BY <1>1, <1>2, <1>3 DEF Distinct, SameIdentity

LEMMA DistinctStep ==
  ASSUME Typed, Distinct, [Next]_vars
  PROVE  Distinct'
<1>1. CASE UNCHANGED vars \/ Publish \/ Deliver
  <2>1. UNCHANGED <<corpus, pc, header, seen, fresh>>
    BY <1>1 DEF vars, Publish, Deliver
  <2> QED BY <2>1, DistinctKept
<1>2. CASE Begin
  <2>1. fresh' = {} /\ pc' = "next"
    BY <1>2 DEF Begin
  <2> QED BY <2>1 DEF Distinct, OneCorpusPerIdentity
<1>3. CASE Over \/ Passed \/ Lookup \/ Verify \/ \E n \in Name : ReadHeader(n)
  <2>1. fresh' = fresh /\ seen' = seen /\ pc' # "write"
    BY <1>3 DEF Over, Stop, Passed, Continue, Lookup, Verify, ReadHeader
  <2>2. \A m \in fresh : corpus'[m] = corpus[m]
    BY <1>3, FreshKept
  <2> QED BY <2>1, <2>2, DistinctKept
<1>4. CASE Admit
  <2>1. /\ UNCHANGED <<corpus, header, fresh>>
        /\ seen' = seen \cup {Identity} /\ Known = {}
    BY <1>4 DEF Admit
  <2>2. \A n \in fresh : ~SameIdentity(corpus[n], header)
    BY <2>1 DEF Distinct, Known, SameIdentity
  <2>3. OneCorpusPerIdentity'
    BY <2>1 DEF Distinct, OneCorpusPerIdentity, SameIdentity
  <2>4. Identity' \in seen'
    BY <2>1 DEF Identity
  <2>5. /\ \A n \in fresh' : \E s \in seen' : SameIdentity(s, corpus'[n])
        /\ \A n \in fresh' : ~SameIdentity(corpus'[n], header')
    BY <2>1, <2>2 DEF Distinct, SameIdentity
  <2> QED BY <2>3, <2>4, <2>5 DEF Distinct, SameIdentity
<1>5. ASSUME NEW n \in Name, Write(n)
      PROVE  Distinct'
  <2>1. /\ corpus' = [corpus EXCEPT ![n] = CorpusOf(n)] /\ n \in name
        /\ fresh' = fresh \cup {n} /\ seen' = seen
        /\ pc = "write" /\ pc' = "next"
    BY <1>5 DEF Write, Continue
  <2>2. corpus'[n] = CorpusOf(n)
        /\ \A m \in fresh : corpus'[m] = corpus[m]
    BY <2>1, CorpusType
  <2>3. corpus'[n].root = header.root /\ corpus'[n].revision = header.revision
    BY <2>2 DEF CorpusOf
  <2>4. OneCorpusPerIdentity'
    BY <2>1, <2>2, <2>3 DEF Distinct, OneCorpusPerIdentity, SameIdentity
  <2>5. \A m \in fresh' : \E s \in seen' : SameIdentity(s, corpus'[m])
    BY <2>1, <2>2, <2>3 DEF Distinct, SameIdentity, Identity
  <2> QED BY <2>1, <2>4, <2>5 DEF Distinct, SameIdentity
<1> QED BY <1>1, <1>2, <1>3, <1>4, <1>5, StepKinds

\* No two corpus files of a run have one identity, whatever the authority
\* registers while the run is under way.
THEOREM IdentitiesAreDistinct == Spec => []OneCorpusPerIdentity
<1>1. Init => Distinct
  BY DEF Init, Distinct, OneCorpusPerIdentity
<1>2. Distinct => OneCorpusPerIdentity
  BY DEF Distinct
<1> QED BY <1>1, <1>2, DistinctStep, AlwaysTyped, PTL DEF Spec

-----------------------------------------------------------------------------
(***************************************************************************)
(* The authority. The header in hand is what the index said of it when it  *)
(* was read, and then what the chainlog said.                              *)
(***************************************************************************)

Indexed(x, h) ==
  \E i \in 1..Len(x.records) :
    /\ x.records[i].root = h.root /\ x.records[i].revision = h.revision
    /\ x.records[i].previous = h.previous /\ x.records[i].sha = h.sha
    /\ x.records[i].approved
    /\ \A j \in 1..Len(x.records) : SameIdentity(x.records[j], h) => j = i

Chained(c, h) ==
  \E i \in 1..Len(c) :
    /\ c[i].root = h.root /\ c[i].revision = h.revision
    /\ c[i].previous = h.previous /\ c[i].sha = h.sha
    /\ \A j \in 1..Len(c) : SameIdentity(c[j], h) => j = i

Authentic ==
  /\ DOMAIN consulted = {"index", "chain"}
  /\ pc \in {"verify", "identity", "write"} => Indexed(consulted.index, header)
  /\ pc \in {"identity", "write"} => Chained(consulted.chain, header)

\* A set of positions with one element has just this one.
LEMMA OnePosition ==
  ASSUME NEW n \in Nat, NEW S \in SUBSET (1..n), Cardinality(S) = 1
  PROVE  \E i \in 1..n : S = {i}
<1>1. IsFiniteSet(1..n)
  BY FS_Interval
<1>2. IsFiniteSet(S)
  BY <1>1, FS_Subset
<1>3. PICK i : S = {i}
  BY <1>2, FS_Singleton
<1> QED BY <1>3

LEMMA LookupIndexes ==
  ASSUME Typed, Lookup
  PROVE  Indexed(index, header') /\ SameIdentity(header', header)
<1>1. Len(index.records) \in Nat
  BY FileAssumption DEF Typed, ProvenanceTypeOK
<1>2. header' = Adopted /\ Cardinality(Claims) = 1
  BY DEF Lookup, Authorized
<1>3. \A i \in Claims :
        index.records[i].sha = header.sha /\ index.records[i].approved
  BY DEF Lookup, Authorized
<1>4. PICK k \in 1..Len(index.records) : Claims = {k}
  BY <1>1, <1>2, OnePosition DEF Claims
<1>5. (CHOOSE i \in Claims : TRUE) = k
  BY <1>4
<1>6. header' = [header EXCEPT !.previous = index.records[k].previous]
  BY <1>2, <1>5 DEF Adopted
<1>7. Header
  BY DEF Typed, ProvenanceTypeOK, Lookup
<1>8. /\ header'.root = header.root /\ header'.revision = header.revision
      /\ header'.sha = header.sha
      /\ header'.previous = index.records[k].previous
  <2>1. {"root", "revision", "sha", "previous"} \subseteq DOMAIN header
    BY <1>7 DEF Header
  <2> QED BY <1>6, <2>1
<1>9. /\ index.records[k].root = header.root
      /\ index.records[k].revision = header.revision
      /\ \A j \in 1..Len(index.records) :
           SameIdentity(index.records[j], header) => j = k
  BY <1>4 DEF Claims, SameIdentity
<1> QED BY <1>3, <1>4, <1>8, <1>9 DEF Indexed, SameIdentity

LEMMA VerifyChains ==
  ASSUME Typed, Verify
  PROVE  Chained(chain, header)
<1>1. Len(chain) \in Nat
  BY FileAssumption DEF Typed, ProvenanceTypeOK
<1>2. /\ Cardinality(Entries) = 1
      /\ \A i \in Entries :
           chain[i].previous = header.previous /\ chain[i].sha = header.sha
  BY DEF Verify, Registered
<1>3. PICK k \in 1..Len(chain) : Entries = {k}
  BY <1>1, <1>2, OnePosition DEF Entries
<1> QED BY <1>2, <1>3 DEF Chained, Entries, SameIdentity

LEMMA AuthenticStep ==
  ASSUME Typed, Authentic, [Next]_vars
  PROVE  Authentic'
<1>1. CASE UNCHANGED vars \/ Publish \/ Deliver \/ Begin \/ Admit
  <2>1. /\ consulted' = consulted /\ header' = header
        /\ \/ pc' = pc \/ pc' = "next"
           \/ pc = "identity" /\ pc' = "write"
    BY <1>1 DEF vars, Publish, Deliver, Begin, Admit
  <2> QED BY <2>1 DEF Authentic
<1>2. CASE Over \/ Passed
  <2>1. consulted' = Unconsulted /\ pc' \in {"idle", "next"}
    BY <1>2 DEF Over, Stop, Passed, Continue, PutDown
  <2> QED BY <2>1 DEF Authentic, Unconsulted
<1>3. CASE Lookup
  <2>1. consulted' = [consulted EXCEPT !.index = index] /\ pc' = "verify"
    BY <1>3 DEF Lookup
  <2>2. consulted'.index = index /\ DOMAIN consulted' = {"index", "chain"}
    BY <2>1 DEF Authentic
  <2> QED BY <1>3, <2>1, <2>2, LookupIndexes DEF Authentic
<1>4. CASE Verify
  <2>1. /\ consulted' = [consulted EXCEPT !.chain = chain]
        /\ pc = "verify" /\ pc' = "identity" /\ header' = header
    BY <1>4 DEF Verify
  <2>2. /\ consulted'.chain = chain /\ consulted'.index = consulted.index
        /\ DOMAIN consulted' = {"index", "chain"}
    BY <2>1 DEF Authentic
  <2> QED BY <1>4, <2>1, <2>2, VerifyChains DEF Authentic
<1>5. CASE \E n \in Name : ReadHeader(n)
  BY <1>5 DEF ReadHeader, Authentic
<1>6. CASE \E n \in Name : Write(n)
  <2>1. consulted' = Unconsulted /\ pc' = "next"
    BY <1>6 DEF Write, Continue, PutDown
  <2> QED BY <2>1 DEF Authentic, Unconsulted
<1> QED BY <1>1, <1>2, <1>3, <1>4, <1>5, <1>6, StepKinds

\* What a run writes or confirms is what the index and the chainlog agreed on
\* when they were read for it, though they are read one after the other.
THEOREM WrittenIsVouched == Spec => CorpusIsVouched
<1>1. Init => Authentic
  BY DEF Init, Authentic, Unconsulted
<1>2. Spec => []Authentic
  BY <1>1, AuthenticStep, AlwaysTyped, PTL DEF Spec
<1>3. ASSUME Typed, Authentic, [Next]_vars, NEW n \in fresh' \ fresh
      PROVE  Vouched(corpus'[n], consulted)
  <2>1. PICK m \in Name : Write(m)
    BY <1>3, StepKinds DEF vars, Publish, Deliver, Begin, Over, Passed, Lookup,
       Verify, Admit, ReadHeader
  <2>2. /\ n = m /\ m \in name /\ pc = "write"
        /\ corpus' = [corpus EXCEPT ![m] = CorpusOf(m)]
    BY <1>3, <2>1 DEF Write
  <2>3. corpus'[n] = CorpusOf(n)
    BY <1>3, <2>2, CorpusType
  <2>4. /\ corpus'[n].root = header.root
        /\ corpus'[n].revision = header.revision
        /\ corpus'[n].previous = header.previous
        /\ corpus'[n].sha = header.sha
    BY <2>3 DEF CorpusOf
  <2>5. Indexed(consulted.index, header) /\ Chained(consulted.chain, header)
    BY <1>3, <2>2 DEF Authentic
  <2> DEFINE c == corpus'[n]
  <2>6. Indexed(consulted.index, c)
    BY <2>4, <2>5 DEF Indexed, SameIdentity
  <2>7. Chained(consulted.chain, c)
    BY <2>4, <2>5 DEF Chained, SameIdentity
  <2> HIDE DEF c
  <2>8. Vouched(c, consulted)
    BY <2>6, <2>7 DEF Vouched, Indexed, Chained
  <2> QED BY <2>8 DEF c
<1>4. ASSUME Typed, Authentic, [Next]_vars
      PROVE  \A n \in fresh' \ fresh : Vouched(corpus'[n], consulted)
  BY <1>3, <1>4
<1> QED BY <1>2, <1>4, AlwaysTyped, PTL DEF Spec, CorpusIsVouched

-----------------------------------------------------------------------------
(***************************************************************************)
(* A good run is complete. While the authority keeps still, each artifact  *)
(* that was dealt with is covered; each identity seen has a corpus file of *)
(* this run, save for the one that is about to be written.                 *)
(***************************************************************************)

AsDelivered ==
  \A m \in fresh : /\ corpus[m].text = artifacts[m].text
                   /\ corpus[m].raw = sources[SourceOf(m)].text

SeenIsFresh ==
  \A s \in seen : \/ \E m \in fresh : SameIdentity(corpus[m], s)
                  \/ pc = "write" /\ SameIdentity(s, header)

HeldIsOfSource ==
  \A n \in name : /\ SourceOf(n) \in DOMAIN sources
                  /\ SameIdentity(header, sources[SourceOf(n)].header)

Dealt(n) == n \in DOMAIN artifacts /\ n \notin todo /\ n \notin name

DealtIsCovered ==
  \A n : Dealt(n) /\ SourceOf(n) \in DOMAIN sources => Covered(n)

Complete ==
  pc # "idle" => /\ AsDelivered /\ SeenIsFresh /\ HeldIsOfSource
                 /\ ~disturbed => DealtIsCovered

\* Nothing that is covered is uncovered in the course of the run.
LEMMA CoveredStays ==
  ASSUME UNCHANGED <<index, library>>,
         \A m \in fresh : m \in fresh' /\ corpus'[m] = corpus[m],
         NEW n, Covered(n)
  PROVE  Covered(n)'
<1>1. sources' = sources /\ artifacts' = artifacts
  BY DEF sources, artifacts
<1>2. SourceOf(n)' = SourceOf(n)
  BY <1>1 DEF SourceOf
<1>3. CASE ~sources[SourceOf(n)].header.wellFormed
  BY <1>1, <1>2, <1>3 DEF Covered
<1>4. CASE ~ \E i \in 1..Len(index.records) :
               SameIdentity(index.records[i], sources[SourceOf(n)].header)
  BY <1>1, <1>2, <1>4 DEF Covered, SameIdentity
<1>5. CASE \E m \in fresh :
             /\ SameIdentity(corpus[m], sources[SourceOf(n)].header)
             /\ corpus[m].text = artifacts[m].text
             /\ corpus[m].raw = sources[SourceOf(m)].text
  BY <1>1, <1>2, <1>5 DEF Covered, SameIdentity, SourceOf
<1> QED BY <1>3, <1>4, <1>5 DEF Covered

\* What holds of the run goes on to hold while nothing new is fresh.
LEMMA AsDeliveredStays ==
  ASSUME AsDelivered, library' = library, fresh' = fresh, corpus' = corpus
  PROVE  AsDelivered'
BY DEF AsDelivered, artifacts, sources, SourceOf

LEMMA DealtStays ==
  ASSUME UNCHANGED <<index, library>>, DealtIsCovered,
         \A m \in fresh : m \in fresh' /\ corpus'[m] = corpus[m],
         \A n : Dealt(n)' => \/ Dealt(n)
                             \/ SourceOf(n) \notin DOMAIN sources
                             \/ Covered(n) \/ Covered(n)'
  PROVE  DealtIsCovered'
<1>1. sources' = sources /\ artifacts' = artifacts
  BY DEF sources, artifacts
<1>2. ASSUME NEW n, Dealt(n)', (SourceOf(n) \in DOMAIN sources)'
      PROVE  Covered(n)'
  <2>1. SourceOf(n) \in DOMAIN sources
    BY <1>1, <1>2 DEF SourceOf
  <2>2. CASE Dealt(n) \/ Covered(n)
    BY <2>1, <2>2, CoveredStays DEF DealtIsCovered
  <2> QED BY <1>2, <2>1, <2>2
<1> QED BY <1>2 DEF DealtIsCovered

LEMMA CompletePassed ==
  ASSUME Typed, Complete, Passed
  PROVE  Complete'
<1>1. /\ UNCHANGED <<index, library, corpus, seen, fresh, disturbed>>
      /\ name' = {} /\ pc' = "next"
      /\ pc # "idle" /\ pc # "write"
  BY DEF Passed, Continue, PutDown
<1>2. AsDelivered' /\ HeldIsOfSource'
  BY <1>1, AsDeliveredStays DEF Complete, HeldIsOfSource
<1>3. SeenIsFresh'
  BY <1>1 DEF Complete, SeenIsFresh, SameIdentity
<1>4. ASSUME NEW n, Dealt(n)', ~Dealt(n)
      PROVE  SourceOf(n) \notin DOMAIN sources \/ Covered(n)
  <2>1. n \in DOMAIN artifacts /\ n \notin todo'
    BY <1>1, <1>4 DEF Dealt, artifacts
  <2>2. CASE \E m \in Name : /\ Stale(m) \/ Uncontrolled(m)
                             /\ pc = "next" /\ m \in todo /\ todo' = todo \ {m}
    <3>1. name = {}
      BY <2>2 DEF Typed, ProvenanceTypeOK
    <3>2. PICK m \in Name : /\ Stale(m) \/ Uncontrolled(m)
                            /\ todo' = todo \ {m}
      BY <2>2
    <3>3. n = m
      BY <1>4, <2>1, <3>1, <3>2 DEF Dealt
    <3>4. CASE Stale(m)
      BY <3>3, <3>4 DEF Stale
    <3>5. CASE Uncontrolled(m)
      BY <3>3, <3>5 DEF Uncontrolled, Covered
    <3> QED BY <3>2, <3>4, <3>5
  <2>3. CASE (NotFound \/ Duplicate) /\ todo' = todo
    <3>1. n \in name
      BY <1>4, <2>1, <2>3 DEF Dealt
    <3> DEFINE h == sources[SourceOf(n)].header
    <3>2. SameIdentity(header, h)
      BY <1>1, <3>1 DEF Complete, HeldIsOfSource
    <3>3. CASE NotFound
      <4>1. ~ \E i \in 1..Len(index.records) :
                SameIdentity(index.records[i], h)
        BY <3>2, <3>3 DEF NotFound, Claims, SameIdentity
      <4> QED BY <4>1 DEF Covered
    <3>4. CASE Duplicate
      <4>1. Identity \in seen
        BY <3>4 DEF Duplicate, Known
      <4>2. PICK m \in fresh : SameIdentity(corpus[m], Identity)
        BY <1>1, <4>1 DEF Complete, SeenIsFresh
      <4>3. SameIdentity(corpus[m], h)
        BY <3>2, <4>2 DEF SameIdentity, Identity
      <4>4. /\ corpus[m].text = artifacts[m].text
            /\ corpus[m].raw = sources[SourceOf(m)].text
        BY <1>1 DEF Complete, AsDelivered
      <4> QED BY <4>3, <4>4 DEF Covered
    <3> QED BY <2>3, <3>3, <3>4
  <2> QED BY <2>2, <2>3 DEF Passed
<1>5. ~disturbed' => DealtIsCovered'
  BY <1>1, <1>4, DealtStays DEF Complete
<1> QED BY <1>2, <1>3, <1>5 DEF Complete

LEMMA CompleteReadHeader ==
  ASSUME Typed, Complete, NEW n \in Name, ReadHeader(n)
  PROVE  Complete'
<1>1. /\ UNCHANGED <<index, library, corpus, seen, fresh, disturbed>>
      /\ name' = {n} /\ todo' = todo \ {n}
      /\ pc = "next" /\ pc' = "lookup"
      /\ header' = sources[SourceOf(n)].header
      /\ SourceOf(n) \in DOMAIN sources
  BY DEF ReadHeader, Current
<1>2. AsDelivered'
  BY <1>1, AsDeliveredStays DEF Complete
<1>3. SeenIsFresh'
  BY <1>1 DEF Complete, SeenIsFresh, SameIdentity
<1>4. HeldIsOfSource'
  BY <1>1 DEF HeldIsOfSource, SameIdentity, sources, artifacts, SourceOf
<1>5. \A m : Dealt(m)' => Dealt(m)
  <2>1. name = {}
    BY <1>1 DEF Typed, ProvenanceTypeOK
  <2> QED BY <1>1, <2>1 DEF Dealt, artifacts
<1>6. ~disturbed' => DealtIsCovered'
  BY <1>1, <1>5, DealtStays DEF Complete
<1> QED BY <1>2, <1>3, <1>4, <1>6 DEF Complete

\* The artifact in hand stays in hand, and its header keeps the identity.
LEMMA CompleteInHand ==
  ASSUME Typed, Complete, Lookup \/ Verify \/ Admit
  PROVE  Complete'
<1>1. /\ UNCHANGED <<index, library, corpus, todo, name, fresh, disturbed>>
      /\ pc \notin {"idle", "write"}
  BY DEF Lookup, Verify, Admit
<1>2. SameIdentity(header', header)
  <2>1. CASE Lookup
    BY <2>1, LookupIndexes
  <2>2. CASE Verify \/ Admit
    BY <2>2 DEF Verify, Admit, SameIdentity
  <2> QED BY <2>1, <2>2
<1>3. AsDelivered'
  BY <1>1, AsDeliveredStays DEF Complete
<1>4. SeenIsFresh'
  <2>1. CASE seen' = seen
    BY <1>1, <2>1 DEF Complete, SeenIsFresh, SameIdentity
  <2>2. CASE Admit
    <3>1. seen' = seen \cup {Identity} /\ pc' = "write" /\ header' = header
      BY <2>2 DEF Admit
    <3> QED BY <1>1, <3>1 DEF Complete, SeenIsFresh, SameIdentity, Identity
  <2> QED BY <2>1, <2>2 DEF Lookup, Verify
<1>5. HeldIsOfSource'
  BY <1>1, <1>2 DEF Complete, HeldIsOfSource, SameIdentity, sources,
                    artifacts, SourceOf
<1>6. \A m : Dealt(m)' => Dealt(m)
  BY <1>1 DEF Dealt, artifacts
<1>7. ~disturbed' => DealtIsCovered'
  BY <1>1, <1>6, DealtStays DEF Complete
<1> QED BY <1>3, <1>4, <1>5, <1>7 DEF Complete

LEMMA CompleteWrite ==
  ASSUME Typed, Complete, NEW n \in Name, Write(n)
  PROVE  Complete'
<1>1. /\ corpus' = [corpus EXCEPT ![n] = CorpusOf(n)] /\ n \in name
      /\ fresh' = fresh \cup {n} /\ name' = {}
      /\ pc = "write" /\ pc' = "next"
      /\ UNCHANGED <<index, library, todo, seen, disturbed>>
  BY DEF Write, Continue, PutDown
<1>2. /\ corpus'[n] = CorpusOf(n)
      /\ \A m \in fresh : corpus'[m] = corpus[m]
  BY <1>1, CorpusType
<1>3. /\ corpus'[n].root = header.root /\ corpus'[n].revision = header.revision
      /\ corpus'[n].text = artifacts[n].text
      /\ corpus'[n].raw = sources[SourceOf(n)].text
  BY <1>2 DEF CorpusOf
<1>4. sources' = sources /\ artifacts' = artifacts
  BY <1>1 DEF sources, artifacts
<1>5. AsDelivered'
  BY <1>1, <1>2, <1>3, <1>4 DEF Complete, AsDelivered, SourceOf
<1>6. SeenIsFresh'
  BY <1>1, <1>2, <1>3 DEF Complete, SeenIsFresh, SameIdentity
<1>7. HeldIsOfSource'
  BY <1>1 DEF HeldIsOfSource
<1>8. Covered(n)'
  <2>1. SameIdentity(header, sources[SourceOf(n)].header)
    BY <1>1 DEF Complete, HeldIsOfSource
  <2>2. SameIdentity(corpus'[n], sources'[SourceOf(n)'].header)
    BY <1>3, <1>4, <2>1 DEF SameIdentity, SourceOf
  <2>3. /\ n \in fresh' /\ corpus'[n].text = artifacts'[n].text
        /\ corpus'[n].raw = sources'[SourceOf(n)'].text
    BY <1>1, <1>3, <1>4 DEF SourceOf
  <2> QED BY <2>2, <2>3 DEF Covered, SameIdentity
<1>9. \A m : Dealt(m)' => Dealt(m) \/ m = n
  BY <1>1, <1>4 DEF Dealt, Typed, ProvenanceTypeOK
<1>10. ~disturbed' => DealtIsCovered'
  BY <1>1, <1>2, <1>8, <1>9, DealtStays DEF Complete
<1> QED BY <1>5, <1>6, <1>7, <1>10 DEF Complete

LEMMA CompleteStep ==
  ASSUME Typed, Complete, [Next]_vars
  PROVE  Complete'
<1>1. CASE UNCHANGED vars \/ Publish
  <2>1. /\ UNCHANGED <<library, corpus, pc, todo, name, header, seen, fresh>>
        /\ disturbed' = TRUE \/ UNCHANGED <<index, disturbed>>
    BY <1>1 DEF vars, Publish
  <2>2. ASSUME pc' # "idle"
        PROVE  AsDelivered' /\ SeenIsFresh' /\ HeldIsOfSource'
    BY <2>1, <2>2, AsDeliveredStays DEF Complete, SeenIsFresh, HeldIsOfSource,
       SameIdentity, sources, artifacts, SourceOf
  <2>3. ASSUME pc' # "idle", ~disturbed'
        PROVE  DealtIsCovered'
    <3>1. UNCHANGED <<index, disturbed>>
      BY <2>1, <2>3
    <3>2. \A m : Dealt(m)' => Dealt(m)
      BY <2>1 DEF Dealt, artifacts
    <3> QED BY <2>1, <2>3, <3>1, <3>2, DealtStays DEF Complete
  <2> QED BY <2>2, <2>3 DEF Complete
<1>2. CASE Deliver \/ Over
  <2>1. pc' = "idle"
    BY <1>2 DEF Deliver, Over, Stop
  <2> QED BY <2>1 DEF Complete
<1>3. CASE Begin
  <2>1. /\ fresh' = {} /\ seen' = {} /\ name' = name /\ library' = library
        /\ todo' = DOMAIN artifacts /\ pc = "idle"
    BY <1>3 DEF Begin
  <2>2. name = {}
    BY <2>1 DEF Typed, ProvenanceTypeOK
  <2>3. AsDelivered' /\ SeenIsFresh' /\ HeldIsOfSource'
    BY <2>1, <2>2 DEF AsDelivered, SeenIsFresh, HeldIsOfSource
  <2>4. DealtIsCovered'
    BY <2>1 DEF DealtIsCovered, Dealt, artifacts
  <2> QED BY <2>3, <2>4 DEF Complete
<1>4. CASE Passed
  BY <1>4, CompletePassed
<1>5. CASE Lookup \/ Verify \/ Admit
  BY <1>5, CompleteInHand
<1>6. CASE \E n \in Name : ReadHeader(n) \/ Write(n)
  BY <1>6, CompleteReadHeader, CompleteWrite
<1> QED BY <1>1, <1>2, <1>3, <1>4, <1>5, <1>6, StepKinds

\* A run that ends well, while the authority kept still, has left no
\* controlled and registered source without a whole corpus file.
THEOREM GoodRunsAreComplete == Spec => GoodRunIsComplete
<1>1. Init => Complete
  BY DEF Init, Complete
<1>2. Spec => []Complete
  BY <1>1, CompleteStep, AlwaysTyped, PTL DEF Spec
<1>3. ASSUME Typed, Complete, [Next]_vars,
             status' = "OK" /\ status # "OK" /\ ~disturbed
      PROVE  \A n \in DOMAIN artifacts :
               SourceOf(n) \in DOMAIN sources => Covered(n)
  <2>1. ~UNCHANGED status /\ status' # "FAILED" /\ status' # "none"
    BY <1>3
  <2>2. End
    <3>1. ~(UNCHANGED vars \/ Publish \/ Deliver \/ Begin \/ Crash)
      BY <2>1 DEF vars, Publish, Deliver, Begin, Crash, Stop
    <3>2. ~(\E n \in Name : Resolve(n) \/ Write(n) \/ WriteFails(n))
      BY <2>1 DEF Resolve, Malformed, Stale, SizeDiffers, Uncontrolled,
         ReadHeader, Write, WriteFails, FailClosed, Stop
    <3>3. ~(Lookup \/ NotFound \/ Verify \/ Duplicate \/ Admit)
      BY <2>1 DEF Lookup, NotFound, Verify, Duplicate, Admit
    <3>4. ~(Unusable \/ LookupFails \/ VerifyFails \/ Conflict)
      BY <2>1 DEF Unusable, LookupFails, VerifyFails, Conflict, FailClosed,
         Stop
    <3> QED BY <1>3, <3>1, <3>2, <3>3, <3>4 DEF Next, Step
  <2>3. pc = "next" /\ todo = {} /\ name = {}
    BY <1>3, <2>2 DEF End, Typed, ProvenanceTypeOK
  <2>4. DealtIsCovered
    BY <1>3, <2>3 DEF Complete
  <2> QED BY <2>3, <2>4 DEF DealtIsCovered, Dealt
<1> QED BY <1>2, <1>3, AlwaysTyped, PTL DEF Spec, GoodRunIsComplete

=============================================================================
