---------------------------- MODULE FixesProofs ----------------------------
(***************************************************************************)
(* The fixes, whatever the releases, the uploads, the registered PIDs and  *)
(* the enabled validations are: they keep the types; as long as releases   *)
(* are repaired one after the other they give no number twice; they lose   *)
(* no file; and three presses without error leave nothing to repair.       *)
(***************************************************************************)
EXTENDS Fixes, FiniteSetTheorems, TLAPS

-----------------------------------------------------------------------------
(* Counting.                                                                *)

\* A finite set of numbers has a maximum, and Max is one: take an element
\* above which there are as few as possible.
LEMMA MaxIsMax ==
    ASSUME NEW S, S \subseteq Nat, IsFiniteSet(S), S # {}
    PROVE  Max(S) \in S /\ \A y \in S : Max(S) >= y
<1> DEFINE Above(x) == {y \in S : y > x}
           T == {Above(x) : x \in S}
           R == StrictSubsetOrdering(S)
<1>1. T \subseteq SUBSET S /\ T # {}
  OBVIOUS
<1>2. T \subseteq FiniteSubsetsOf(S)
  BY <1>1, FS_Subset DEF FiniteSubsetsOf
<1>3. PICK A \in T : \A B \in T : ~(<<B, A>> \in R)
  <2>1. IsWellFoundedOn(R, FiniteSubsetsOf(S))
    BY FS_StrictSubsetOrderingWellFounded
  <2> HIDE DEF T, R
  <2> QED BY <1>1, <1>2, <2>1, WFMin
<1>4. PICK x \in S : A = Above(x)
  BY <1>3
<1>5. ASSUME NEW y \in S, y > x PROVE FALSE
  <2>1. Above(y) \subseteq Above(x) /\ y \in Above(x) /\ y \notin Above(y)
    <3>1. x \in Nat /\ y \in Nat /\ \A z \in S : z \in Nat
      OBVIOUS
    <3>2. \A z \in S : z > y => z > x
      BY <1>5, <3>1
    <3>3. ~(y > y)
      BY <3>1
    <3> QED BY <1>5, <3>2, <3>3
  <2>2. <<Above(y), Above(x)>> \in R
    BY <2>1 DEF StrictSubsetOrdering
  <2> QED BY <1>3, <1>4, <2>2
<1>6. \A y \in S : x >= y
  BY <1>5
<1> QED BY <1>6 DEF Max

\* A finite set of numbers has a minimum, and Min is one.
LEMMA MinIsMin ==
    ASSUME NEW S, S \subseteq Nat, IsFiniteSet(S), S # {}
    PROVE  Min(S) \in S /\ \A y \in S : Min(S) <= y
<1> DEFINE Below(x) == {y \in S : y < x}
           T == {Below(x) : x \in S}
           R == StrictSubsetOrdering(S)
<1>1. T \subseteq SUBSET S /\ T # {}
  OBVIOUS
<1>2. T \subseteq FiniteSubsetsOf(S)
  BY <1>1, FS_Subset DEF FiniteSubsetsOf
<1>3. PICK A \in T : \A B \in T : ~(<<B, A>> \in R)
  <2>1. IsWellFoundedOn(R, FiniteSubsetsOf(S))
    BY FS_StrictSubsetOrderingWellFounded
  <2> HIDE DEF T, R
  <2> QED BY <1>1, <1>2, <2>1, WFMin
<1>4. PICK x \in S : A = Below(x)
  BY <1>3
<1>5. ASSUME NEW y \in S, y < x PROVE FALSE
  <2>1. x \in Nat /\ y \in Nat /\ \A z \in S : z \in Nat
    OBVIOUS
  <2>2. Below(y) \subseteq Below(x) /\ y \in Below(x) /\ y \notin Below(y)
    <3>1. \A z \in S : z < y => z < x
      BY <1>5, <2>1
    <3>2. ~(y < y)
      BY <2>1
    <3> QED BY <1>5, <3>1, <3>2
  <2>3. <<Below(y), Below(x)>> \in R
    BY <2>2 DEF StrictSubsetOrdering
  <2> QED BY <1>3, <1>4, <2>3
<1>6. \A y \in S : x <= y
  BY <1>5
<1> QED BY <1>6 DEF Min

\* The n-th new number is the (n - 1)-th after the first.
LEMMA BeforeCounts ==
    ASSUME NEW n \in Nat, NEW S \in SUBSET (1..n), NEW i \in S
    PROVE  LET before(k) == {j \in 1..n : j < k /\ j \in S}
           IN  /\ Cardinality(before(i)) \in Nat /\ Cardinality(S) \in Nat
               /\ Cardinality(before(i)) < Cardinality(S)
               /\ \A j \in S : i < j => Cardinality(before(i)) < Cardinality(before(j))
<1> DEFINE before(k) == {j \in 1..n : j < k /\ j \in S}
<1>1. IsFiniteSet(S) /\ \A k : IsFiniteSet(before(k)) /\ Cardinality(before(k)) \in Nat
  <2>1. IsFiniteSet(1..n) BY FS_Interval
  <2>2. \A k : before(k) \in SUBSET (1..n) OBVIOUS
  <2> QED BY <2>1, <2>2, FS_Subset, FS_CardinalityType
<1>2. before(i) \in SUBSET S /\ before(i) # S
  OBVIOUS
<1>3. \A j \in S : i < j => before(i) \in SUBSET before(j) /\ before(i) # before(j)
  OBVIOUS
<1>4. Cardinality(S) \in Nat
  BY <1>1, FS_CardinalityType
<1> HIDE DEF before
<1>5. Cardinality(before(i)) < Cardinality(S)
  BY <1>1, <1>2, <1>4, FS_Subset
<1>6. \A j \in S : i < j => Cardinality(before(i)) < Cardinality(before(j))
  BY <1>1, <1>3, FS_Subset
<1> QED BY <1>1, <1>4, <1>5, <1>6 DEF before

-----------------------------------------------------------------------------
(* What a fix writes.                                                       *)

RowFields == {"status", "records", "documents", "valid", "max_recid", "errors"}

SessionFields == {"open", "records", "documents", "max_recid", "todo", "errors"}

\* The columns of the records and of the documents that a fix may change.
RecordWrites(check) ==
    CASE check \in Standard -> {"fields"}
      [] check = "recid" -> {"recid"}
      [] check = "doi" -> {"doi"}
      [] check = "cms_2016" -> {"described", "relation"}
      [] check \in {"expand_files", "files"} -> {"files"}
      [] check = "rucio" -> {"title", "described", "listed", "claims", "files"}
      [] check \in {"slug", "doc_links"} -> {}

DocumentWrites(check) ==
    CASE check = "experiment" -> {"fields"}
      [] check = "slug" -> {"slug"}
      [] check = "doc_links" -> {"links"}
      [] check \in Fixable \ {"experiment", "slug", "doc_links"} -> {}

\* The lists have the same items, which only differ in some columns.
SameBut(old, new, columns) ==
    /\ DOMAIN new = DOMAIN old
    /\ \A i \in DOMAIN old :
        /\ DOMAIN new[i] = DOMAIN old[i]
        /\ \A column \in DOMAIN old[i] \ columns : new[i][column] = old[i][column]

\* The session v is what the fix of check may make of the session w.
Frame(check, w, v) ==
    /\ DOMAIN v = SessionFields
    /\ v.open = w.open /\ v.todo = w.todo
    /\ (w.errors => v.errors) /\ (w.errors \in BOOLEAN => v.errors \in BOOLEAN)
    /\ check # "recid" => v.max_recid = w.max_recid
    /\ SameBut(w.records, v.records, RecordWrites(check))
    /\ SameBut(w.documents, v.documents, DocumentWrites(check))

\* A fix that fails says so.
LEMMA FailsSays ==
    ASSUME NEW u, DOMAIN u = SessionFields, NEW b
    PROVE  /\ b => Fails(u, b).errors
           /\ Fails(u, b).records = u.records /\ Fails(u, b).documents = u.documents
BY DEF Fails, SessionFields

\* A fix only writes its own columns, whatever storages, Rucio or generators
\* answer, and takes back no error.
LEMMA FixFrames ==
    ASSUME NEW w, DOMAIN w = SessionFields, NEW check \in Fixable, NEW v \in Fixes(check, w)
    PROVE  Frame(check, w, v)
<1> USE DEF SessionFields
\* Fails only adds an error.
<1>1. ASSUME NEW u, DOMAIN u = SessionFields, NEW b
      PROVE  /\ DOMAIN Fails(u, b) = SessionFields
             /\ Fails(u, b).records = u.records /\ Fails(u, b).documents = u.documents
             /\ Fails(u, b).open = u.open /\ Fails(u, b).todo = u.todo
             /\ Fails(u, b).max_recid = u.max_recid /\ (u.errors => Fails(u, b).errors)
             /\ Fails(u, b).errors \in BOOLEAN
  BY <1>1 DEF Fails
\* A session that differs in its records.
<1>2. ASSUME NEW records, SameBut(w.records, records, RecordWrites(check)), NEW b,
             v = Fails([w EXCEPT !.records = records], b)
      PROVE  Frame(check, w, v)
  <2> DEFINE u == [w EXCEPT !.records = records]
  <2>1. /\ DOMAIN u = SessionFields /\ u.records = records /\ u.documents = w.documents
        /\ u.open = w.open /\ u.todo = w.todo /\ u.errors = w.errors /\ u.max_recid = w.max_recid
    OBVIOUS
  <2>2. v = Fails(u, b)
    BY <1>2
  <2> HIDE DEF u
  <2>3. /\ DOMAIN v = SessionFields /\ v.records = records /\ v.documents = w.documents
        /\ v.open = w.open /\ v.todo = w.todo /\ (w.errors => v.errors) /\ v.max_recid = w.max_recid
        /\ v.errors \in BOOLEAN
    BY <1>1, <2>1, <2>2
  <2>4. SameBut(w.documents, w.documents, DocumentWrites(check))
    BY DEF SameBut
  <2> QED BY <1>2, <2>3, <2>4 DEF Frame
\* A session that differs in its documents.
<1>3. ASSUME NEW documents, SameBut(w.documents, documents, DocumentWrites(check)), NEW b,
             v = Fails([w EXCEPT !.documents = documents], b)
      PROVE  Frame(check, w, v)
  <2> DEFINE u == [w EXCEPT !.documents = documents]
  <2>1. /\ DOMAIN u = SessionFields /\ u.records = w.records /\ u.documents = documents
        /\ u.open = w.open /\ u.todo = w.todo /\ u.errors = w.errors /\ u.max_recid = w.max_recid
    OBVIOUS
  <2>2. v = Fails(u, b)
    BY <1>3
  <2> HIDE DEF u
  <2>3. /\ DOMAIN v = SessionFields /\ v.records = w.records /\ v.documents = documents
        /\ v.open = w.open /\ v.todo = w.todo /\ (w.errors => v.errors) /\ v.max_recid = w.max_recid
        /\ v.errors \in BOOLEAN
    BY <1>1, <2>1, <2>2
  <2>4. SameBut(w.records, w.records, RecordWrites(check))
    BY DEF SameBut
  <2> QED BY <1>3, <2>3, <2>4 DEF Frame
<1>4. CASE check \in Standard
  <2>1. v = FixStandard(check, w)
    BY <1>4 DEF Fixes, Standard
  <2>2. RecordWrites(check) = {"fields"} /\ (check = "experiment" => DocumentWrites(check) = {"fields"})
    BY <1>4 DEF RecordWrites, DocumentWrites, Standard, Fixable
  <2>3. SameBut(w.records, v.records, {"fields"})
    BY <2>1 DEF FixStandard, WithField, SameBut
  <2>4. SameBut(w.documents, v.documents, DocumentWrites(check))
    BY <2>1, <2>2 DEF FixStandard, WithField, SameBut
  <2>5. /\ DOMAIN v = SessionFields
        /\ v.open = w.open /\ v.todo = w.todo /\ v.errors = w.errors /\ v.max_recid = w.max_recid
    BY <2>1 DEF FixStandard
  <2> QED BY <2>2, <2>3, <2>4, <2>5 DEF Frame
<1>5. CASE check = "recid"
  <2>1. v = FixRecid(w)
    BY <1>5 DEF Fixes, Standard
  <2>2. RecordWrites(check) = {"recid"} /\ v.documents = w.documents
    BY <1>5, <2>1 DEF RecordWrites, FixRecid, Standard
  <2>3. SameBut(w.records, v.records, {"recid"})
    BY <2>1 DEF FixRecid, Renumbered, SameBut
  <2>4. /\ DOMAIN v = SessionFields
        /\ v.open = w.open /\ v.todo = w.todo /\ v.errors = w.errors
    BY <2>1 DEF FixRecid
  <2> QED BY <1>5, <2>2, <2>3, <2>4 DEF Frame, SameBut
<1>6. CASE check = "doi"
  <2>1. PICK fresh : v = Fails([w EXCEPT !.records = Replaced(w.records, fresh)],
                               ~ValidDoi(Replaced(w.records, fresh)))
    BY <1>6 DEF Fixes, FixDoi, Standard
  <2>2. RecordWrites(check) = {"doi"}
    BY <1>6 DEF RecordWrites, Standard
  <2>3. SameBut(w.records, Replaced(w.records, fresh), {"doi"})
    BY DEF Replaced, SameBut
  <2> QED BY <1>2, <2>1, <2>2, <2>3
<1>7. CASE check = "cms_2016"
  <2> DEFINE new == [i \in DOMAIN w.records |-> Described(w.records, i)]
  <2>1. PICK b : v = Fails([w EXCEPT !.records = new], b)
    BY <1>7 DEF Fixes, FixCms2016, Standard
  <2>2. RecordWrites(check) = {"described", "relation"}
    BY <1>7 DEF RecordWrites, Standard
  <2>3. SameBut(w.records, new, {"described", "relation"})
    BY DEF Described, SameBut
  <2> QED BY <1>2, <2>1, <2>2, <2>3
<1>8. CASE check = "expand_files"
  <2>1. v \in FixExpandFiles(w)
    BY <1>8 DEF Fixes, Standard
  <2>2. PICK walk : v = ExpandAll(w, walk[1], walk[2])
    BY <2>1, Zenon DEF FixExpandFiles
  <2> DEFINE new == [i \in DOMAIN w.records |-> Expanded(w.records[i], walk[1], walk[2])]
  <2>3. PICK b : v = Fails([w EXCEPT !.records = new], b)
    BY <2>2 DEF ExpandAll
  <2>4. RecordWrites(check) = {"files"}
    BY <1>8 DEF RecordWrites, Standard
  <2>5. SameBut(w.records, new, {"files"})
    BY DEF Expanded, SameBut
  <2> QED BY <1>2, <2>3, <2>4, <2>5
<1>9. CASE check = "files"
  <2>1. v \in FixFiles(w)
    BY <1>9 DEF Fixes, Standard
  <2>2. PICK wanted, seen : v = MeasureAll(w, wanted, seen[1], seen[2])
    BY <2>1, Zenon DEF FixFiles
  <2> DEFINE files(record) == (record.files \ Bare(record))
                              \cup {Measured(file, seen[1], seen[2]) : file \in Bare(record)}
             new == [i \in DOMAIN w.records |-> [w.records[i] EXCEPT !.files = files(w.records[i])]]
  <2>3. PICK b : v = Fails([w EXCEPT !.records = new], b)
    BY <2>2 DEF MeasureAll
  <2>4. RecordWrites(check) = {"files"}
    BY <1>9 DEF RecordWrites, Standard
  <2> HIDE DEF files
  <2>5. SameBut(w.records, new, {"files"})
    BY DEF SameBut
  <2> QED BY <1>2, <2>3, <2>4, <2>5
<1>10. CASE check = "rucio"
  <2>1. v = FixRucio(w)
    BY <1>10 DEF Fixes, Standard
  <2>2. RecordWrites(check) = {"title", "described", "listed", "claims", "files"}
    BY <1>10 DEF RecordWrites, Standard
  <2>3. SameBut(w.records, v.records, {"title", "described", "listed", "claims", "files"})
    BY <2>1 DEF FixRucio, SameBut
  <2>4. /\ DOMAIN v = SessionFields /\ v.documents = w.documents
        /\ v.open = w.open /\ v.todo = w.todo /\ v.errors = w.errors /\ v.max_recid = w.max_recid
    BY <2>1 DEF FixRucio
  <2> QED BY <2>2, <2>3, <2>4 DEF Frame, SameBut
<1>11. CASE check = "slug"
  <2> DEFINE new == [i \in DOMAIN w.documents |-> Slugged(w.documents[i])]
  <2>1. PICK b : v = Fails([w EXCEPT !.documents = new], b)
    BY <1>11 DEF Fixes, FixSlug, Standard
  <2>2. DocumentWrites(check) = {"slug"}
    BY <1>11 DEF DocumentWrites, Fixable, Standard
  <2>3. SameBut(w.documents, new, {"slug"})
    BY DEF Slugged, SameBut
  <2> QED BY <1>3, <2>1, <2>2, <2>3
<1>12. CASE check = "doc_links"
  <2>1. v = FixDocLinks(w)
    BY <1>12 DEF Fixes, Standard
  <2>2. DocumentWrites(check) = {"links"}
    BY <1>12 DEF DocumentWrites, Fixable, Standard
  <2>3. SameBut(w.documents, v.documents, {"links"})
    BY <2>1 DEF FixDocLinks, Rewritten, SameBut
  <2>4. /\ DOMAIN v = SessionFields /\ v.records = w.records
        /\ v.open = w.open /\ v.todo = w.todo /\ v.errors = w.errors /\ v.max_recid = w.max_recid
    BY <2>1 DEF FixDocLinks
  <2> QED BY <2>2, <2>3, <2>4 DEF Frame, SameBut
<1> QED BY <1>4, <1>5, <1>6, <1>7, <1>8, <1>9, <1>10, <1>11, <1>12 DEF Fixable

-----------------------------------------------------------------------------
(* Types.                                                                   *)

UploadsOK == \A r \in Releases : upload[r] \in Seq(Record)

\* The numbers of the registered PIDs, the highest of which counts.
PidNumbers == {pid[2] : pid \in {p \in pids.recid : p[1] \in {"exp", "plain"}}}

PidsOK == /\ DOMAIN pids = {"recid", "docid", "doi"}
          /\ IsFiniteSet(pids.recid) /\ \A pid \in pids.recid : pid[2] \in Nat

\* The contents x of the release r: of its row, or of its session.
ContentOK(r, x) ==
    /\ x.records \in [DOMAIN upload[r] -> Record]
    /\ x.documents \in [DOMAIN x.documents -> Document]
    /\ x.max_recid \in Nat

RowOK(r) ==
    /\ DOMAIN release[r] = RowFields /\ ContentOK(r, release[r])
    /\ release[r].status \in {"DRAFT", "READY", "EDITING"} /\ release[r].valid \in Validations

\* A press is bounded from its beginning.
WorkOK(r) ==
    /\ DOMAIN session[r] = SessionFields
    /\ session[r].todo \subseteq Enabled \cap Fixable /\ session[r].errors \in BOOLEAN
    /\ ~session[r].open => session[r] = Closed
    /\ session[r].open => /\ ContentOK(r, session[r]) /\ release[r].status = "EDITING"
                          /\ presses[r] < MaxPresses

\* The inductive invariant: the records of a release are as many as were
\* uploaded, and the releases have all their columns.
TypeInv ==
    /\ UploadsOK /\ PidsOK /\ images \subseteq Images
    /\ DOMAIN release = Releases /\ \A r \in Releases : RowOK(r)
    /\ DOMAIN session = Releases /\ \A r \in Releases : WorkOK(r)
    /\ presses \in [Releases -> 0..MaxPresses]

\* It is stronger than the type invariant.
LEMMA TypeInvTypes == ASSUME TypeInv PROVE TypeOK
<1>1. ASSUME NEW r \in Releases
      PROVE  /\ SequenceOf(release[r].records, Record) /\ SequenceOf(release[r].documents, Document)
             /\ release[r].status \in {"DRAFT", "READY", "EDITING"}
             /\ release[r].valid \in Validations /\ release[r].max_recid \in Nat
  BY DEF TypeInv, RowOK, ContentOK, SequenceOf
<1>2. ASSUME NEW r \in Releases
      PROVE  /\ SequenceOf(session[r].records, Record) /\ SequenceOf(session[r].documents, Document)
             /\ session[r].todo \subseteq Enabled \cap Fixable /\ session[r].errors \in BOOLEAN
             /\ session[r].open => release[r].status = "EDITING"
  <2>1. CASE session[r].open
    BY <2>1 DEF TypeInv, WorkOK, ContentOK, SequenceOf
  <2>2. CASE ~session[r].open
    BY <2>2 DEF TypeInv, WorkOK, SequenceOf, Closed
  <2> QED BY <2>1, <2>2
<1>3. \A other \in Others : other[1] \in DOMAIN pids
  BY PidsAssumption DEF TypeInv, PidsOK
<1>4. images \subseteq Images /\ \A r \in Releases : presses[r] \in 0..MaxPresses
  BY DEF TypeInv
<1> QED BY <1>1, <1>2, <1>3, <1>4 DEF TypeOK

\* A validation passes or it does not.
LEMMA PassesBoolean == ASSUME NEW c \in Checks, NEW records, NEW docs PROVE Passes(c, records, docs) \in BOOLEAN
<1> USE DEF Checks, Fixable, Standard
<1>1. CASE c \in Standard
  BY <1>1 DEF Passes, ExpectedFields
<1>2. CASE c = "recid"
  BY <1>2 DEF Passes, ValidRecid
<1>3. CASE c = "doi"
  BY <1>3 DEF Passes, ValidDoi
<1>4. CASE c = "cms_2016"
  BY <1>4 DEF Passes, ValidCms2016
<1>5. CASE c = "expand_files"
  BY <1>5 DEF Passes, ExpandDirectories
<1>6. CASE c = "files"
  BY <1>6 DEF Passes, ValidFiles
<1>7. CASE c = "rucio"
  BY <1>7 DEF Passes, RucioDatasets
<1>8. CASE c = "missing_files"
  BY <1>8 DEF Passes, MissingFiles
<1>9. CASE c = "duplicate_files"
  BY <1>9 DEF Passes, DuplicateFiles
<1>10. CASE c \in {"rec_schema", "doc_schema"}
  BY <1>10 DEF Passes, Schema
<1>11. CASE c = "slug"
  BY <1>11 DEF Passes, ValidSlug
<1>12. CASE c = "doc_links"
  BY <1>12 DEF Passes, ValidDocLinks
<1>13. CASE c = "image_references"
  BY <1>13 DEF Passes, ImageReferences
<1> QED BY <1>1, <1>2, <1>3, <1>4, <1>5, <1>6, <1>7, <1>8, <1>9, <1>10, <1>11, <1>12, <1>13

\* A validated row keeps its contents.
LEMMA Validates ==
    ASSUME NEW row, DOMAIN row = RowFields, row.valid \in Validations
    PROVE  /\ DOMAIN Validate(row) = RowFields
           /\ Validate(row).records = row.records /\ Validate(row).documents = row.documents
           /\ Validate(row).max_recid = row.max_recid
           /\ Validate(row).valid \in Validations /\ Validate(row).status \in {"DRAFT", "READY"}
           /\ \A c \in Enabled : Validate(row).valid[c] = Passes(c, row.records, row.documents)
           /\ Validate(row).status = "READY" => \A c \in Enabled : Passes(c, row.records, row.documents)
<1> DEFINE valid == [c \in Checks |-> IF c \in Enabled THEN Passes(c, row.records, row.documents)
                                      ELSE row.valid[c]]
           status == IF \A c \in Enabled : valid[c] THEN "READY" ELSE "DRAFT"
<1>1. Validate(row) = [row EXCEPT !.valid = valid, !.errors = FALSE, !.status = status]
  BY DEF Validate
<1>2. valid \in Validations
  BY PassesBoolean DEF Validations
<1>3. \A c \in Enabled : valid[c] = Passes(c, row.records, row.documents)
  BY EnabledAssumption
<1>4. status = "READY" => \A c \in Enabled : Passes(c, row.records, row.documents)
  <2>1. status = "READY" => \A c \in Enabled : valid[c]
    OBVIOUS
  <2> HIDE DEF valid, status
  <2> QED BY <1>3, <2>1
<1>5. status \in {"READY", "DRAFT"}
  OBVIOUS
<1> HIDE DEF valid, status
<1> QED BY <1>1, <1>2, <1>3, <1>4, <1>5 DEF RowFields

-----------------------------------------------------------------------------
(* The fixes keep the types.                                                *)

DoiType == {"none", "odd", "ours", "theirs"} \X (Suffixes \cup {"none"})

\* A new DOI is a DOI.
LEMMA NewDoiTyped ==
    ASSUME NEW n \in Nat, NEW records \in [1..n -> Record], NEW fresh \in [1..n -> Suffixes],
           NEW doi, NEW i \in 1..n
    PROVE  NewDoi(records, fresh, doi, i) \in DoiType
<1>1. records[i].doi \in DoiType /\ fresh[i] \in Suffixes
  BY DEF Record, DoiType
<1> DEFINE own == records[i].doi
<1> HIDE DEF own
<1>2. own \in DoiType BY <1>1 DEF own
<1>3. own[2] \in Suffixes \cup {"none"} BY <1>2 DEF DoiType
<1>4. <<"ours", own[2]>> \in DoiType /\ <<"ours", fresh[i]>> \in DoiType /\ NoDoi \in DoiType
  BY <1>1, <1>3 DEF DoiType, NoDoi
<1>5. NewDoi(records, fresh, doi, i) \in {NoDoi, <<"ours", fresh[i]>>, <<"ours", own[2]>>, own}
  BY Zenon DEF NewDoi, own
<1> QED BY <1>2, <1>4, <1>5

\* It only depends on the DOIs of the records before.
LEMMA NewDoiAgrees ==
    ASSUME NEW records, NEW fresh, NEW i \in Nat, NEW f, NEW g, \A j \in 1..(i - 1) : f[j] = g[j]
    PROVE  NewDoi(records, fresh, f, i) = NewDoi(records, fresh, g, i)
<1> DEFINE before == {k \in 1..(i - 1) : records[k].doi # NoDoi}
<1>1. {f[j][2] : j \in before} = {g[j][2] : j \in before}
  OBVIOUS
<1> QED BY <1>1 DEF NewDoi

\* The DOIs of the records exist, although each depends on those before: they
\* do for the first records, however many these are.
LEMMA DoisExist ==
    ASSUME NEW n \in Nat, NEW records, DOMAIN records = 1..n, NEW fresh
    PROVE  \E doi : doi = [i \in DOMAIN records |-> NewDoi(records, fresh, doi, i)]
<1> DEFINE Good(m) == \E doi : doi = [i \in 1..m |-> NewDoi(records, fresh, doi, i)]
           S == {m \in 0..n : ~Good(m)}
<1>1. SUFFICES ASSUME S # {} PROVE FALSE
  <2>1. n \in 0..n OBVIOUS
  <2> QED BY <2>1
<1>2. S \subseteq Nat /\ IsFiniteSet(S)
  <2>1. IsFiniteSet(0..n) BY FS_Interval
  <2> QED BY <2>1, FS_Subset
<1> DEFINE k == Min(S)
<1>3. k \in S /\ \A y \in S : k <= y
  <2> HIDE DEF S
  <2> QED BY <1>1, <1>2, MinIsMin
<1>4. k \in Nat /\ k <= n /\ ~Good(k)
  <2>1. k \in 0..n /\ ~Good(k)
    BY <1>3
  <2> HIDE DEF k, Good
  <2> QED BY <2>1
<1> HIDE DEF k
<1>5. k # 0
  <2>1. [i \in 1..0 |-> NewDoi(records, fresh, <<>>, i)] = [i \in 1..0 |-> NewDoi(records, fresh, [j \in 1..0 |-> NewDoi(records, fresh, <<>>, j)], i)]
    OBVIOUS
  <2>2. Good(0)
    BY <2>1
  <2> QED BY <1>4, <2>2
<1>6. k - 1 \in 0..n /\ k - 1 \notin S
  <2>1. k \in Nat /\ k # 0 /\ k <= n /\ n \in Nat
    BY <1>4, <1>5
  <2>2. ~(k <= k - 1)
    BY <2>1
  <2> HIDE DEF S
  <2> QED BY <1>3, <2>1, <2>2
<1>7. PICK f : f = [i \in 1..(k - 1) |-> NewDoi(records, fresh, f, i)]
  BY <1>6
<1> DEFINE g == [i \in 1..k |-> IF i < k THEN f[i] ELSE NewDoi(records, fresh, f, k)]
<1>8. ASSUME NEW i \in 1..k PROVE g[i] = NewDoi(records, fresh, g, i)
  <2>1. \A j \in 1..(i - 1) : f[j] = g[j]
    BY <1>4
  <2>2. NewDoi(records, fresh, f, i) = NewDoi(records, fresh, g, i)
    BY <1>4, <2>1, NewDoiAgrees
  <2>3. CASE i < k
    <3>1. i \in 1..(k - 1) BY <1>4, <2>3
    <3>2. f[i] = NewDoi(records, fresh, f, i)
      BY <1>7, <3>1
    <3>3. g[i] = f[i]
      BY <2>3
    <3> HIDE DEF g
    <3> QED BY <2>2, <3>2, <3>3
  <2>4. CASE i = k
    <3>1. k \in 1..k /\ ~(k < k)
      BY <1>4, <2>4
    <3>2. g[k] = NewDoi(records, fresh, f, k)
      BY <3>1
    <3> HIDE DEF g
    <3> QED BY <2>2, <2>4, <3>2
  <2> QED BY <1>4, <2>3, <2>4
<1>9. g = [i \in 1..k |-> NewDoi(records, fresh, g, i)]
  <2>1. DOMAIN g = 1..k /\ g = [i \in 1..k |-> g[i]]
    OBVIOUS
  <2> HIDE DEF g
  <2> QED BY <1>8, <2>1
<1> QED BY <1>4, <1>9

\* The records with their new DOIs are records.
LEMMA ReplacedTyped ==
    ASSUME NEW n \in Nat, NEW records \in [1..n -> Record], NEW fresh \in [1..n -> Suffixes]
    PROVE  Replaced(records, fresh) \in [1..n -> Record]
<1> DEFINE doi == CHOOSE f : f = [i \in DOMAIN records |-> NewDoi(records, fresh, f, i)]
<1>1. doi = [i \in DOMAIN records |-> NewDoi(records, fresh, doi, i)]
  BY DoisExist
<1>2. \A i \in 1..n : doi[i] \in DoiType
  <2> HIDE DEF doi
  <2> QED BY <1>1, NewDoiTyped
<1>3. Replaced(records, fresh) = [i \in DOMAIN records |-> [records[i] EXCEPT !.doi = doi[i]]]
  BY DEF Replaced
<1> HIDE DEF doi
<1>4. \A x \in Record : \A d \in DoiType : [x EXCEPT !.doi = d] \in Record
  <2> SUFFICES ASSUME NEW x \in Record, NEW d \in DoiType PROVE [x EXCEPT !.doi = d] \in Record
    OBVIOUS
  <2> QED BY DEF Record, DoiType
<1> QED BY <1>2, <1>3, <1>4

\* The counter of a fix starts above everything that the rows say was given.
LEMMA StartIsAbove ==
    ASSUME \A s \in Releases : release[s].max_recid \in Nat, PidsOK, NEW w, w.max_recid \in Nat
    PROVE  /\ NextRecidStart(w) \in Nat /\ NextRecidStart(w) > w.max_recid
           /\ \A s \in Releases : NextRecidStart(w) > release[s].max_recid
           /\ \A number \in PidNumbers : NextRecidStart(w) > number
<1> DEFINE Rows == {release[s].max_recid : s \in Releases}
           N == {w.max_recid} \cup Rows \cup PidNumbers
<1>1. IsFiniteSet(Rows) /\ Rows \subseteq Nat
  <2> DEFINE f == [s \in Releases |-> release[s].max_recid]
  <2>1. f \in Surjection(Releases, Rows)
    BY DEF Surjection
  <2>2. IsFiniteSet(Rows)
    <3> HIDE DEF f, Rows
    <3> QED BY <2>1, UploadsAssumption, FS_Surjection
  <2> QED BY <2>2
<1>2. IsFiniteSet(PidNumbers) /\ PidNumbers \subseteq Nat
  <2> DEFINE E == {p \in pids.recid : p[1] \in {"exp", "plain"}}
             f == [p \in E |-> p[2]]
  <2>1. IsFiniteSet(E)
    BY FS_Subset DEF PidsOK
  <2>2. f \in Surjection(E, PidNumbers)
    BY DEF Surjection, PidNumbers
  <2>3. IsFiniteSet(PidNumbers)
    <3> HIDE DEF E, f
    <3> QED BY <2>1, <2>2, FS_Surjection
  <2> QED BY <2>3 DEF PidsOK, PidNumbers
<1>3. IsFiniteSet(N)
  <2> HIDE DEF Rows
  <2>1. IsFiniteSet({w.max_recid})
    BY FS_Singleton
  <2>2. IsFiniteSet({w.max_recid} \cup Rows)
    BY <1>1, <2>1, FS_Union
  <2> QED BY <1>2, <2>2, FS_Union
<1>4. /\ N \subseteq Nat /\ N # {} /\ w.max_recid \in N
      /\ \A s \in Releases : release[s].max_recid \in N
      /\ PidNumbers \subseteq N
  BY <1>1, <1>2
<1>5. NextRecidStart(w) = 1 + Max(N)
  BY DEF NextRecidStart, PidNumbers
<1> HIDE DEF N
<1>6. Max(N) \in N /\ \A y \in N : Max(N) >= y
  BY <1>3, <1>4, MaxIsMax
<1>7. Max(N) \in Nat /\ \A y \in N : y \in Nat
  BY <1>4, <1>6
<1> DEFINE top == Max(N)
<1>8. 1 + top \in Nat /\ \A y \in N : 1 + top > y
  <2> HIDE DEF top
  <2>1. top \in Nat /\ \A y \in N : y \in Nat /\ top >= y
    BY <1>6, <1>7 DEF top
  <2> QED BY <2>1
<1>9. NextRecidStart(w) \in Nat /\ \A y \in N : NextRecidStart(w) > y
  BY <1>5, <1>8
<1>10. \A number \in PidNumbers : NextRecidStart(w) > number
  BY <1>4, <1>9
<1> QED BY <1>4, <1>9, <1>10, Zenon

\* The first number of a fix is a number.
LEMMA StartTyped ==
    ASSUME TypeInv, NEW w, w.max_recid \in Nat PROVE NextRecidStart(w) \in Nat
<1>1. \A s \in Releases : release[s].max_recid \in Nat
  BY DEF TypeInv, RowOK, ContentOK
<1> QED BY <1>1, StartIsAbove DEF TypeInv

\* Fails adds an error, whatever else the fix does.
LEMMA FailsKeeps ==
    ASSUME NEW u, DOMAIN u = SessionFields, NEW b, NEW r, ContentOK(r, u)
    PROVE  ContentOK(r, Fails(u, b))
<1>1. /\ Fails(u, b).records = u.records /\ Fails(u, b).documents = u.documents
      /\ Fails(u, b).max_recid = u.max_recid
  BY DEF Fails, SessionFields
<1> QED BY <1>1 DEF ContentOK

\* A fix that has made records of the records has made contents.
LEMMA RecordsTyped ==
    ASSUME NEW w, DOMAIN w = SessionFields, NEW r, ContentOK(r, w),
           NEW records \in [DOMAIN upload[r] -> Record], NEW b
    PROVE  ContentOK(r, Fails([w EXCEPT !.records = records], b))
<1> DEFINE u == [w EXCEPT !.records = records]
<1>1. DOMAIN u = SessionFields /\ u.records = records /\ u.documents = w.documents /\ u.max_recid = w.max_recid
  BY DEF SessionFields
<1> HIDE DEF u
<1>2. ContentOK(r, u)
  BY <1>1 DEF ContentOK
<1> QED BY <1>1, <1>2, FailsKeeps DEF u

\* The numbers that a fix gives make recids.
LEMMA RecidTyped ==
    ASSUME TypeInv, NEW r \in Releases, NEW w, DOMAIN w = SessionFields, ContentOK(r, w)
    PROVE  ContentOK(r, FixRecid(w))
<1> DEFINE start == NextRecidStart(w)
           S == {i \in DOMAIN w.records : Renumber(w.records[i])}
           before(i) == {j \in DOMAIN w.records : j < i /\ Renumber(w.records[j])}
           count == Cardinality(S)
<1>1. PICK n \in Nat : DOMAIN upload[r] = 1..n
  BY DEF TypeInv, UploadsOK
<1>2. DOMAIN w.records = 1..n /\ w.max_recid \in Nat /\ \A i \in 1..n : w.records[i] \in Record
  BY <1>1 DEF ContentOK
<1>3. start \in Nat
  BY <1>2, StartTyped
<1>4. count \in Nat /\ \A i \in 1..n : Cardinality(before(i)) \in Nat
  <2>1. IsFiniteSet(1..n)
    BY FS_Interval
  <2>2. S \subseteq 1..n /\ \A i \in 1..n : before(i) \subseteq 1..n
    BY <1>2
  <2> HIDE DEF S, before
  <2>3. IsFiniteSet(S) /\ \A i \in 1..n : IsFiniteSet(before(i))
    BY <2>1, <2>2, FS_Subset
  <2> QED BY <2>3, FS_CardinalityType
<1>5. \A x \in Record : \A k \in Nat : [x EXCEPT !.recid = <<"exp", k>>] \in Record
  <2> SUFFICES ASSUME NEW x \in Record, NEW k \in Nat PROVE [x EXCEPT !.recid = <<"exp", k>>] \in Record
    OBVIOUS
  <2> QED BY DEF Record
<1>6. \A i \in 1..n : w.records[i].recid[2] \in Nat
  BY <1>2 DEF Record
<1>7. Renumbered(w.records, start) \in [DOMAIN upload[r] -> Record]
  <2>1. ASSUME NEW i \in 1..n
        PROVE  [w.records[i] EXCEPT !.recid =
                   <<"exp", IF Renumber(w.records[i]) THEN start + Cardinality(before(i)) ELSE @[2]>>] \in Record
    <3> DEFINE k == IF Renumber(w.records[i]) THEN start + Cardinality(before(i)) ELSE w.records[i].recid[2]
    <3>1. k \in Nat
      BY <1>3, <1>4, <1>6
    <3> HIDE DEF k
    <3>2. [w.records[i] EXCEPT !.recid = <<"exp", k>>] \in Record
      BY <1>2, <1>5, <3>1
    <3> QED BY <3>2 DEF k
  <2> QED BY <1>1, <1>2, <2>1 DEF Renumbered
<1> DEFINE max == IF count = 0 THEN w.max_recid ELSE start + count - 1
<1>8. max \in Nat
  BY <1>2, <1>3, <1>4
<1>9. FixRecid(w) = [w EXCEPT !.records = Renumbered(w.records, start), !.max_recid = max]
  BY DEF FixRecid
<1> HIDE DEF start, max, count, S
<1>10. /\ FixRecid(w).records = Renumbered(w.records, start) /\ FixRecid(w).documents = w.documents
       /\ FixRecid(w).max_recid = max
  BY <1>9 DEF SessionFields
<1> QED BY <1>7, <1>8, <1>10 DEF ContentOK

\* A record with other files is a record.
LEMMA FilesTyped ==
    ASSUME NEW x \in Record, NEW files \in SUBSET ((Uris \cup Dirs) \X {"whole", "bare"})
    PROVE  [x EXCEPT !.files = files] \in Record
BY DEF Record

\* The files that a walk has found are files, and so are those that were measured.
LEMMA ExpandedTyped ==
    ASSUME NEW x \in Record, NEW listing, NEW state \in [Uris -> States],
           \A d \in Wildcards(x) : listing[d].found \subseteq Uris
    PROVE  Expanded(x, listing, state) \in Record
<1> DEFINE found == UNION {listing[d].found : d \in Wildcards(x)}
           files == {file \in x.files : Uri(file) \notin Dirs} \cup {<<uri, state[uri]>> : uri \in found}
<1>1. x.files \subseteq (Uris \cup Dirs) \X {"whole", "bare"}
  BY DEF Record
<1>2. found \subseteq Uris
  OBVIOUS
<1>3. \A uri \in Uris : state[uri] \in {"whole", "bare"}
  BY DEF States
<1>4. files \in SUBSET ((Uris \cup Dirs) \X {"whole", "bare"})
  BY <1>1, <1>2, <1>3
<1>5. Expanded(x, listing, state) = IF found = {} THEN x ELSE [x EXCEPT !.files = files]
  BY DEF Expanded
<1> HIDE DEF files, found
<1>6. [x EXCEPT !.files = files] \in Record
  BY <1>4, FilesTyped
<1> QED BY <1>5, <1>6

\* A record with measured files is a record.
LEMMA MeasuredTyped ==
    ASSUME NEW x \in Record, NEW read, read \cap Dirs = {}, NEW state \in [Uris -> States]
    PROVE  [x EXCEPT !.files = (x.files \ Bare(x)) \cup {Measured(file, read, state) : file \in Bare(x)}] \in Record
<1> DEFINE files == (x.files \ Bare(x)) \cup {Measured(file, read, state) : file \in Bare(x)}
<1>1. x.files \subseteq (Uris \cup Dirs) \X {"whole", "bare"}
  BY DEF Record
<1>2. \A uri \in Uris : state[uri] \in {"whole", "bare"}
  BY DEF States
<1>3. ASSUME NEW file \in x.files PROVE Measured(file, read, state) \in (Uris \cup Dirs) \X {"whole", "bare"}
  <2>1. Uri(file) \in Uris \cup Dirs /\ file \in (Uris \cup Dirs) \X {"whole", "bare"}
    BY <1>1 DEF Uri
  <2>2. Uri(file) \in read => <<Uri(file), state[Uri(file)]>> \in (Uris \cup Dirs) \X {"whole", "bare"}
    BY <1>2, <2>1
  <2> QED BY <2>1, <2>2 DEF Measured
<1>4. files \in SUBSET ((Uris \cup Dirs) \X {"whole", "bare"})
  BY <1>1, <1>3 DEF Bare
<1> HIDE DEF files
<1>5. [x EXCEPT !.files = files] \in Record
  BY <1>4, FilesTyped
<1> QED BY <1>5 DEF files

\* What Rucio knows of a dataset makes a record.
LEMMA DatasetTyped ==
    ASSUME NEW x \in Record, ~Listed(x)
    PROVE  [x EXCEPT !.title = DidTitle[x.rucio], !.described = NoTitle, !.listed = TRUE,
                     !.claims = DidFiles[x.rucio] # {}, !.files = DidFiles[x.rucio] \X {"whole"}] \in Record
<1>1. x.rucio \in DOMAIN DidFiles
  BY DEF Record, Listed
<1> DEFINE title == DidTitle[x.rucio]
           files == DidFiles[x.rucio] \X {"whole"}
           claims == DidFiles[x.rucio] # {}
<1>2. title \in Title /\ files \in SUBSET ((Uris \cup Dirs) \X {"whole", "bare"})
      /\ claims \in BOOLEAN
  BY <1>1, DidsAssumption
<1>3. NoTitle \in Title
  BY DEF NoTitle, Title
<1> HIDE DEF title, files, claims
<1>4. [x EXCEPT !.title = title, !.described = NoTitle, !.listed = TRUE, !.claims = claims, !.files = files] \in Record
  BY <1>2, <1>3 DEF Record
<1> QED BY <1>4 DEF title, files, claims

\* The partners of a record are records of the release.
LEMMA PartnersInside == ASSUME NEW records, NEW i PROVE Partners(records, i) \subseteq DOMAIN records
BY DEF Partners

\* So is the one that is taken.
LEMMA PartnerTyped ==
    ASSUME NEW n \in Nat, NEW records \in [1..n -> Record], NEW i \in 1..n, Partners(records, i) # {}
    PROVE  Min(Partners(records, i)) \in 1..n /\ Partner(records, i) \in Record
<1>1. Partners(records, i) \subseteq 1..n
  BY PartnersInside
<1>2. IsFiniteSet(Partners(records, i))
  BY <1>1, FS_Interval, FS_Subset
<1>3. Min(Partners(records, i)) \in Partners(records, i)
  BY <1>1, <1>2, MinIsMin
<1> QED BY <1>1, <1>3 DEF Partner

\* A record whose texts are written anew is a record.
LEMMA DescribedTyped ==
    ASSUME NEW n \in Nat, NEW records \in [1..n -> Record], NEW i \in 1..n
    PROVE  Described(records, i) \in Record
<1> DEFINE x == records[i]
           relation == IF Partners(records, i) = {} THEN x.relation ELSE Partner(records, i).recid
<1>1. x \in Record
  OBVIOUS
<1>2. x.title \in Title
  BY <1>1 DEF Record
<1>3. relation \in {"none", "exp", "plain", "odd"} \X Nat
  <2>1. CASE Partners(records, i) = {}
    BY <1>1, <2>1 DEF Record
  <2>2. CASE Partners(records, i) # {}
    <3>1. Partner(records, i) \in Record
      BY <2>2, PartnerTyped
    <3>2. Partner(records, i).recid \in {"none", "exp", "plain", "odd"} \X Nat
      BY <3>1 DEF Record
    <3> QED BY <2>2, <3>2
  <2> QED BY <2>1, <2>2
<1>4. Described(records, i) = [x EXCEPT !.described = x.title, !.relation = relation]
  BY DEF Described
<1> HIDE DEF x, relation
<1>5. [x EXCEPT !.described = x.title, !.relation = relation] \in Record
  BY <1>1, <1>2, <1>3 DEF Record
<1> QED BY <1>4, <1>5

\* Every fix leaves contents.
LEMMA FixTyped ==
    ASSUME TypeInv, NEW r \in Releases, NEW w, DOMAIN w = SessionFields, ContentOK(r, w),
           NEW check \in Fixable, NEW v \in Fixes(check, w)
    PROVE  ContentOK(r, v)
<1>1. PICK n \in Nat : DOMAIN upload[r] = 1..n
  BY DEF TypeInv, UploadsOK
<1>2. w.records \in [1..n -> Record] /\ w.documents \in [DOMAIN w.documents -> Document] /\ w.max_recid \in Nat
  BY <1>1 DEF ContentOK
<1>3. CASE check \in Standard
  <2>1. v = FixStandard(check, w)
    BY <1>3 DEF Fixes, Standard
  <2>2. \A x \in Record : WithField(x, check) \in Record
    <3> SUFFICES ASSUME NEW x \in Record PROVE WithField(x, check) \in Record
      OBVIOUS
    <3> QED BY <1>3 DEF Record, WithField
  <2>3. \A x \in Document : WithField(x, check) \in Document
    <3> SUFFICES ASSUME NEW x \in Document PROVE WithField(x, check) \in Document
      OBVIOUS
    <3> QED BY <1>3 DEF Document, WithField
  <2>4. /\ v.records = [i \in DOMAIN w.records |-> WithField(w.records[i], check)]
        /\ v.documents = IF check # "experiment" THEN w.documents
                         ELSE [i \in DOMAIN w.documents |-> WithField(w.documents[i], check)]
        /\ v.max_recid = w.max_recid
    BY <2>1 DEF FixStandard, SessionFields
  <2>5. v.records \in [1..n -> Record]
    BY <1>2, <2>2, <2>4
  <2>6. v.documents \in [DOMAIN v.documents -> Document]
    BY <1>2, <2>3, <2>4
  <2> QED BY <1>1, <1>2, <2>4, <2>5, <2>6 DEF ContentOK
<1>4. CASE check = "recid"
  <2>1. v = FixRecid(w)
    BY <1>4 DEF Fixes, Standard
  <2> QED BY <2>1, RecidTyped
<1>5. CASE check = "doi"
  <2>1. PICK fresh \in FreshDois(w.records) :
            v = Fails([w EXCEPT !.records = Replaced(w.records, fresh)], ~ValidDoi(Replaced(w.records, fresh)))
    BY <1>5 DEF Fixes, FixDoi, Standard
  <2>2. fresh \in [1..n -> Suffixes]
    BY <1>2 DEF FreshDois
  <2>3. Replaced(w.records, fresh) \in [DOMAIN upload[r] -> Record]
    BY <1>1, <1>2, <2>2, ReplacedTyped
  <2> QED BY <2>1, <2>3, RecordsTyped
<1>6. CASE check = "cms_2016"
  <2> DEFINE new == [i \in DOMAIN w.records |-> Described(w.records, i)]
  <2>1. PICK b : v = Fails([w EXCEPT !.records = new], b)
    BY <1>6 DEF Fixes, FixCms2016, Standard
  <2>2. new \in [DOMAIN upload[r] -> Record]
    BY <1>1, <1>2, DescribedTyped
  <2> HIDE DEF new
  <2> QED BY <2>1, <2>2, RecordsTyped
<1>7. CASE check = "expand_files"
  <2> DEFINE dirs == UNION {Wildcards(w.records[i]) : i \in DOMAIN w.records}
             walks == {l \in [dirs -> UNION {Listings(d) : d \in dirs}] :
                          \A d \in dirs : l[d] \in Listings(d)} \X [Uris -> States]
  <2>1. v \in FixExpandFiles(w)
    BY <1>7 DEF Fixes, Standard
  <2>2. PICK walk \in walks : v = ExpandAll(w, walk[1], walk[2])
    BY <2>1, Zenon DEF FixExpandFiles
  <2>3. walk[2] \in [Uris -> States] /\ \A d \in dirs : walk[1][d] \in Listings(d)
    BY <2>2
  <2>4. \A d \in Dirs : \A l \in Listings(d) : l.found \subseteq Tree[d]
    <3> SUFFICES ASSUME NEW d \in Dirs, NEW l \in Listings(d) PROVE l.found \subseteq Tree[d]
      OBVIOUS
    <3>1. l = [found |-> Tree[d], failed |-> FALSE] \/ l \in [found : SUBSET Tree[d], failed : {TRUE}]
      BY Zenon DEF Listings
    <3>0. l = [found |-> Tree[d], failed |-> FALSE] => l.found = Tree[d]
      OBVIOUS
    <3>2. \A m \in [found : SUBSET Tree[d], failed : {TRUE}] : m.found \subseteq Tree[d]
      OBVIOUS
    <3> QED BY <3>0, <3>1, <3>2
  <2>5. \A i \in 1..n : Wildcards(w.records[i]) \subseteq dirs /\ Wildcards(w.records[i]) \subseteq Dirs
    BY <1>2 DEF Wildcards
  <2>6. \A i \in 1..n : \A d \in Wildcards(w.records[i]) : walk[1][d].found \subseteq Uris
    BY <2>3, <2>4, <2>5, TreeAssumption
  <2> DEFINE new == [i \in DOMAIN w.records |-> Expanded(w.records[i], walk[1], walk[2])]
  <2>7. PICK b : v = Fails([w EXCEPT !.records = new], b)
    BY <2>2 DEF ExpandAll
  <2>8. \A i \in 1..n : Expanded(w.records[i], walk[1], walk[2]) \in Record
    BY <1>2, <2>3, <2>6, ExpandedTyped
  <2>9. new \in [DOMAIN upload[r] -> Record]
    BY <1>1, <1>2, <2>8
  <2> HIDE DEF new
  <2> QED BY <2>7, <2>9, RecordsTyped
<1>8. CASE check = "files"
  <2> DEFINE wanted == {Uri(file) : file \in UNION {Bare(w.records[i]) : i \in DOMAIN w.records}}
             reads == IF "stat_fails" \in Faults THEN SUBSET (wanted \ Dirs) ELSE {wanted \ Dirs}
  <2>1. v \in FixFiles(w)
    BY <1>8 DEF Fixes, Standard
  <2>2. PICK seen \in reads \X [Uris -> States] : v = MeasureAll(w, wanted, seen[1], seen[2])
    BY <2>1, Zenon DEF FixFiles
  <2>3. seen[1] \in reads /\ seen[2] \in [Uris -> States]
    BY <2>2
  <2>4. seen[1] \cap Dirs = {}
    BY <2>3
  <2> HIDE DEF wanted, reads
  <2> DEFINE files(record) == (record.files \ Bare(record))
                              \cup {Measured(file, seen[1], seen[2]) : file \in Bare(record)}
             new == [i \in DOMAIN w.records |-> [w.records[i] EXCEPT !.files = files(w.records[i])]]
  <2>5. PICK b : v = Fails([w EXCEPT !.records = new], b)
    BY <2>2 DEF MeasureAll
  <2>6. \A i \in 1..n : [w.records[i] EXCEPT !.files = files(w.records[i])] \in Record
    <3> SUFFICES ASSUME NEW i \in 1..n PROVE [w.records[i] EXCEPT !.files = files(w.records[i])] \in Record
      OBVIOUS
    <3>1. w.records[i] \in Record
      BY <1>2
    <3> QED BY <2>3, <2>4, <3>1, MeasuredTyped
  <2> HIDE DEF files
  <2>7. new \in [DOMAIN upload[r] -> Record]
    BY <1>1, <1>2, <2>6
  <2> HIDE DEF new
  <2> QED BY <2>5, <2>7, RecordsTyped
<1>9. CASE check = "rucio"
  <2>1. v = FixRucio(w)
    BY <1>9 DEF Fixes, Standard
  <2> DEFINE From(record) ==
                 IF Listed(record) THEN record
                 ELSE [record EXCEPT !.title = DidTitle[record.rucio], !.described = NoTitle,
                                     !.listed = TRUE, !.claims = DidFiles[record.rucio] # {},
                                     !.files = DidFiles[record.rucio] \X {"whole"}]
  <2>2. \A x \in Record : From(x) \in Record
    BY DatasetTyped
  <2>3. /\ v.records = [i \in DOMAIN w.records |-> From(w.records[i])]
        /\ v.documents = w.documents /\ v.max_recid = w.max_recid
    BY <2>1 DEF FixRucio, SessionFields
  <2> HIDE DEF From
  <2>4. v.records \in [1..n -> Record]
    BY <1>2, <2>2, <2>3
  <2> QED BY <1>1, <1>2, <2>3, <2>4 DEF ContentOK
<1>10. CASE check = "slug"
  <2> DEFINE new == [i \in DOMAIN w.documents |-> Slugged(w.documents[i])]
  <2>1. PICK b : v = Fails([w EXCEPT !.documents = new], b)
    BY <1>10 DEF Fixes, FixSlug, Standard
  <2>2. \A x \in Document : Slugged(x) \in Document
    <3> SUFFICES ASSUME NEW x \in Document PROVE Slugged(x) \in Document
      OBVIOUS
    <3> QED BY DEF Document, Slugged
  <2>3. new \in [DOMAIN w.documents -> Document]
    BY <1>2, <2>2
  <2>4. v.records = w.records /\ v.documents = new /\ v.max_recid = w.max_recid
    BY <2>1 DEF Fails, SessionFields
  <2> HIDE DEF new
  <2> QED BY <1>2, <2>3, <2>4 DEF ContentOK
<1>11. CASE check = "doc_links"
  <2>1. v = FixDocLinks(w)
    BY <1>11 DEF Fixes, Standard
  <2>2. \A x \in Document : \A known : Rewritten(x, known) \in Document
    <3> SUFFICES ASSUME NEW x \in Document, NEW known PROVE Rewritten(x, known) \in Document
      OBVIOUS
    <3> DEFINE links == {IF link[1] \in known THEN <<link[1], "absolute">> ELSE link : link \in x.links}
    <3>1. x.links \subseteq Slugs \X {"absolute", "bare"}
      BY DEF Document
    <3>2. links \in SUBSET (Slugs \X {"absolute", "bare"})
      BY <3>1
    <3> HIDE DEF links
    <3>3. [x EXCEPT !.links = links] \in Document
      BY <3>2 DEF Document
    <3> QED BY <3>3 DEF Rewritten, links
  <2>3. /\ v.documents = [i \in DOMAIN w.documents |-> Rewritten(w.documents[i], Known(w.documents))]
        /\ v.records = w.records /\ v.max_recid = w.max_recid
    BY <2>1 DEF FixDocLinks, SessionFields
  <2>4. v.documents \in [DOMAIN v.documents -> Document]
    BY <1>2, <2>2, <2>3
  <2> QED BY <1>2, <2>3, <2>4 DEF ContentOK
<1> QED BY <1>3, <1>4, <1>5, <1>6, <1>7, <1>8, <1>9, <1>10, <1>11 DEF Fixable

-----------------------------------------------------------------------------
(* The steps keep the types.                                                *)

\* At first some PIDs are registered,
LEMMA InitPids == ASSUME Init PROVE PidsOK
<1> DEFINE E == {p \in Existing : p[1] = "recid"}
           f == [p \in E |-> p[2]]
<1>1. /\ DOMAIN pids = {"recid", "docid", "doi"} /\ pids.recid = {pid[2] : pid \in E}
  BY DEF Init
<1>2. IsFiniteSet(E)
  BY PidsAssumption, FS_Subset
<1>3. f \in Surjection(E, pids.recid)
  BY <1>1 DEF Surjection
<1>4. IsFiniteSet(pids.recid)
  BY <1>2, <1>3, FS_Surjection
<1> QED BY <1>1, <1>4, PidsAssumption DEF PidsOK

\* and the releases are created with contents.
LEMMA InitTyped == ASSUME Init PROVE TypeInv
<1>1. PICK u \in [Releases -> UNION {Uploads[r] : r \in Releases}] :
        /\ \A r \in Releases : u[r] \in Uploads[r]
        /\ upload = [r \in Releases |-> u[r].records]
        /\ release = [r \in Releases |->
              Validate([status |-> "DRAFT", records |-> u[r].records, documents |-> u[r].documents,
                        valid |-> NewValidations, max_recid |-> 0, errors |-> FALSE])]
  BY DEF Init
<1>2. \A r \in Releases : upload[r] = u[r].records /\ u[r].records \in Seq(Record) /\ u[r].documents \in Seq(Document)
  BY <1>1, UploadsAssumption
<1>3. ASSUME NEW r \in Releases PROVE RowOK(r)
  <2> DEFINE row == [status |-> "DRAFT", records |-> u[r].records, documents |-> u[r].documents,
                     valid |-> NewValidations, max_recid |-> 0, errors |-> FALSE]
  <2>1. /\ DOMAIN row = RowFields /\ row.valid \in Validations /\ row.max_recid = 0
        /\ row.records = u[r].records /\ row.documents = u[r].documents
    BY DEF RowFields, Validations, NewValidations
  <2>2. release[r] = Validate(row)
    BY <1>1
  <2> HIDE DEF row
  <2>3. /\ DOMAIN release[r] = RowFields /\ release[r].valid \in Validations
        /\ release[r].status \in {"DRAFT", "READY"} /\ release[r].max_recid = 0
        /\ release[r].records = u[r].records /\ release[r].documents = u[r].documents
    BY <2>1, <2>2, Validates
  <2>4. ContentOK(r, release[r])
    BY <1>2, <2>3 DEF ContentOK
  <2> QED BY <2>3, <2>4 DEF RowOK
<1>4. ASSUME NEW r \in Releases PROVE WorkOK(r)
  BY DEF Init, WorkOK, Closed, SessionFields
<1>5. PidsOK
  BY InitPids
<1>6. presses \in [Releases -> 0..MaxPresses]
  BY BoundAssumption DEF Init
<1> QED BY <1>1, <1>2, <1>3, <1>4, <1>5, <1>6 DEF TypeInv, UploadsOK, Init

\* What is there to prove of a step that changes the row or the session of r.
LEMMA StepTyped ==
    ASSUME TypeInv, NEW r \in Releases, UNCHANGED <<pids, images, upload>>,
           DOMAIN release' = Releases, DOMAIN session' = Releases,
           presses' \in [Releases -> 0..MaxPresses],
           \A s \in Releases \ {r} :
               release'[s] = release[s] /\ session'[s] = session[s] /\ presses'[s] = presses[s],
           RowOK(r)', WorkOK(r)'
    PROVE  TypeInv'
<1>1. ASSUME NEW s \in Releases PROVE RowOK(s)' /\ WorkOK(s)'
  <2>1. CASE s # r
    BY <2>1 DEF TypeInv, RowOK, WorkOK, ContentOK
  <2> QED BY <2>1
<1> QED BY <1>1 DEF TypeInv, UploadsOK, PidsOK

\* A press loads contents.
LEMMA PressTyped == ASSUME TypeInv, NEW r \in Releases, Press(r) PROVE TypeInv'
<1> DEFINE row == [release[r] EXCEPT !.status = "EDITING"]
           w == [open |-> TRUE, records |-> release[r].records, documents |-> release[r].documents,
                 max_recid |-> release[r].max_recid, errors |-> FALSE,
                 todo |-> {c \in Enabled \cap Fixable : ~release[r].valid[c]}]
<1>1. /\ release' = [release EXCEPT ![r] = row] /\ session' = [session EXCEPT ![r] = w]
      /\ UNCHANGED <<pids, images, upload, presses>> /\ presses[r] < MaxPresses
  BY DEF Press
<1>2. DOMAIN release[r] = RowFields /\ ContentOK(r, release[r]) /\ release[r].valid \in Validations
  BY DEF TypeInv, RowOK
<1>3. /\ DOMAIN row = RowFields /\ row.status = "EDITING" /\ row.valid = release[r].valid
      /\ row.records = release[r].records /\ row.documents = release[r].documents
      /\ row.max_recid = release[r].max_recid
  BY <1>2 DEF RowFields
<1>4. /\ DOMAIN w = SessionFields /\ w.todo \subseteq Enabled \cap Fixable /\ w.errors = FALSE /\ w.open
      /\ w.records = release[r].records /\ w.documents = release[r].documents
      /\ w.max_recid = release[r].max_recid
  BY DEF SessionFields
<1> HIDE DEF row, w
<1>5. /\ release'[r] = row /\ session'[r] = w
      /\ DOMAIN release' = Releases /\ DOMAIN session' = Releases
      /\ \A s \in Releases \ {r} : release'[s] = release[s] /\ session'[s] = session[s]
  BY <1>1 DEF TypeInv
<1>6. RowOK(r)'
  BY <1>1, <1>2, <1>3, <1>5 DEF RowOK, ContentOK
<1>7. WorkOK(r)'
  BY <1>1, <1>2, <1>3, <1>4, <1>5 DEF WorkOK, ContentOK
<1>8. presses' \in [Releases -> 0..MaxPresses]
  BY <1>1 DEF TypeInv
<1> QED BY <1>1, <1>5, <1>6, <1>7, <1>8, StepTyped

\* A fix leaves the types alone,
LEMMA FixStepTyped == ASSUME TypeInv, NEW r \in Releases, NEW check \in Fixable, Fix(r, check) PROVE TypeInv'
<1> DEFINE w == session[r]
<1>1. PICK v \in Fixes(check, w) : session' = [session EXCEPT ![r] = [v EXCEPT !.todo = @ \ {check}]]
  BY DEF Fix
<1>2. UNCHANGED <<release, pids, images, upload, presses>> /\ check \in w.todo
  BY DEF Fix
<1>3. w.open
  BY <1>2 DEF TypeInv, WorkOK, Closed
<1>4. /\ DOMAIN w = SessionFields /\ ContentOK(r, w) /\ w.todo \subseteq Enabled \cap Fixable
      /\ w.errors \in BOOLEAN /\ release[r].status = "EDITING" /\ presses[r] < MaxPresses
  BY <1>3 DEF TypeInv, WorkOK
<1>5. Frame(check, w, v) /\ ContentOK(r, v)
  BY <1>4, FixFrames, FixTyped
<1>6. DOMAIN v = SessionFields /\ v.open = w.open /\ v.todo = w.todo /\ v.errors \in BOOLEAN
  BY <1>4, <1>5 DEF Frame
<1> HIDE DEF w
<1> DEFINE u == [v EXCEPT !.todo = v.todo \ {check}]
<1>7. /\ DOMAIN u = SessionFields /\ u.open = v.open /\ u.todo = v.todo \ {check} /\ u.errors = v.errors
      /\ u.records = v.records /\ u.documents = v.documents /\ u.max_recid = v.max_recid
  BY <1>6 DEF SessionFields
<1>8. session' = [session EXCEPT ![r] = u]
  BY <1>1
<1> HIDE DEF u
<1>9. /\ session'[r] = u /\ DOMAIN session' = Releases
      /\ \A s \in Releases \ {r} : session'[s] = session[s]
  BY <1>8 DEF TypeInv
<1>10. ContentOK(r, u)
  BY <1>5, <1>7 DEF ContentOK
<1>11. WorkOK(r)'
  BY <1>2, <1>3, <1>4, <1>6, <1>7, <1>9, <1>10 DEF WorkOK, ContentOK
<1>12. RowOK(r)' /\ DOMAIN release' = Releases
  BY <1>2 DEF TypeInv, RowOK, ContentOK
<1>13. presses' \in [Releases -> 0..MaxPresses]
  BY <1>2 DEF TypeInv
<1> QED BY <1>2, <1>9, <1>11, <1>12, <1>13, StepTyped

\* and so does the end of a press,
LEMMA CloseTyped ==
    ASSUME TypeInv, NEW r \in Releases, session' = [session EXCEPT ![r] = Closed],
           UNCHANGED <<pids, images, upload>>, DOMAIN release' = Releases,
           \A s \in Releases \ {r} : release'[s] = release[s] /\ presses'[s] = presses[s],
           presses' \in [Releases -> 0..MaxPresses], RowOK(r)'
    PROVE  TypeInv'
<1>1. /\ session'[r] = Closed /\ DOMAIN session' = Releases
      /\ \A s \in Releases \ {r} : session'[s] = session[s]
  BY DEF TypeInv
<1>2. WorkOK(r)'
  BY <1>1 DEF WorkOK, Closed, SessionFields
<1> QED BY <1>1, <1>2, StepTyped

\* with a validation or without.
LEMMA FinishTyped == ASSUME TypeInv, NEW r \in Releases, Finish(r) PROVE TypeInv'
<1> DEFINE w == session[r]
           row == [release[r] EXCEPT !.records = w.records, !.documents = w.documents,
                                     !.max_recid = w.max_recid, !.status = "DRAFT", !.errors = TRUE]
           count == IF w.errors THEN 0 ELSE presses[r] + 1
<1>1. /\ release' = [release EXCEPT ![r] = IF w.errors THEN row ELSE Validate(row)]
      /\ session' = [session EXCEPT ![r] = Closed]
      /\ presses' = [presses EXCEPT ![r] = count]
      /\ UNCHANGED <<pids, images, upload>> /\ w.open
  BY DEF Finish
<1>2. ContentOK(r, w) /\ presses[r] < MaxPresses /\ presses[r] \in Nat
  BY <1>1 DEF TypeInv, WorkOK
<1>3. DOMAIN release[r] = RowFields /\ release[r].valid \in Validations
  BY DEF TypeInv, RowOK
<1>4. count \in 0..MaxPresses
  BY <1>2, BoundAssumption
<1> HIDE DEF w, count
<1>5. /\ DOMAIN row = RowFields /\ row.records = w.records /\ row.documents = w.documents
      /\ row.max_recid = w.max_recid /\ row.status = "DRAFT" /\ row.valid = release[r].valid
  BY <1>3 DEF RowFields
<1> HIDE DEF row
<1>6. /\ release'[r] = IF w.errors THEN row ELSE Validate(row)
      /\ \A s \in Releases \ {r} : release'[s] = release[s] /\ presses'[s] = presses[s]
      /\ DOMAIN release' = Releases /\ presses' \in [Releases -> 0..MaxPresses]
  BY <1>1, <1>4 DEF TypeInv
<1>7. /\ DOMAIN release'[r] = RowFields /\ release'[r].records = w.records
      /\ release'[r].documents = w.documents /\ release'[r].max_recid = w.max_recid
      /\ release'[r].valid \in Validations /\ release'[r].status \in {"DRAFT", "READY"}
  <2>1. CASE w.errors
    BY <1>3, <1>5, <1>6, <2>1
  <2>2. CASE ~w.errors
    BY <1>3, <1>5, <1>6, <2>2, Validates
  <2> QED BY <2>1, <2>2
<1>8. RowOK(r)'
  BY <1>1, <1>2, <1>7 DEF RowOK, ContentOK
<1> QED BY <1>1, <1>6, <1>8, CloseTyped

\* Something outside changes: the presses are counted anew.
LEMMA OutsideTyped ==
    ASSUME TypeInv, UNCHANGED <<release, session, upload>>, presses' = [r \in Releases |-> 0],
           PidsOK', images' \subseteq Images
    PROVE  TypeInv'
<1>1. presses' \in [Releases -> 0..MaxPresses]
  BY BoundAssumption
<1>2. ASSUME NEW r \in Releases PROVE RowOK(r)' /\ WorkOK(r)'
  <2>1. RowOK(r)'
    BY DEF TypeInv, RowOK, ContentOK
  <2>2. session[r].open => 0 < MaxPresses
    BY BoundAssumption DEF TypeInv, WorkOK
  <2>3. WorkOK(r)'
    BY <2>2 DEF TypeInv, WorkOK, ContentOK
  <2> QED BY <2>1, <2>3
<1> QED BY <1>1, <1>2 DEF TypeInv, UploadsOK

\* A registered PID is a PID.
LEMMA PidsTyped == ASSUME PidsOK, NEW pid_type, NEW pid, Register(pid_type, pid) PROVE PidsOK'
<1>1. /\ <<pid_type, pid>> \in Others /\ pids' = [pids EXCEPT ![pid_type] = @ \cup {pid}]
  BY DEF Register
<1>2. DOMAIN pids' = {"recid", "docid", "doi"}
  BY <1>1 DEF PidsOK
<1>3. pids'.recid = IF pid_type = "recid" THEN pids.recid \cup {pid} ELSE pids.recid
  BY <1>1 DEF PidsOK
<1>4. IsFiniteSet(pids'.recid)
  BY <1>3, FS_AddElement DEF PidsOK
<1>5. pid_type = "recid" => pid[2] \in Nat
  BY <1>1, PidsAssumption
<1> QED BY <1>2, <1>3, <1>4, <1>5 DEF PidsOK

\* Every step keeps the invariant.
LEMMA NextTyped == ASSUME TypeInv, [Next]_vars PROVE TypeInv'
<1>1. ASSUME NEW r \in Releases, Press(r) PROVE TypeInv'
  BY <1>1, PressTyped
<1>2. ASSUME NEW r \in Releases, Finish(r) PROVE TypeInv'
  BY <1>2, FinishTyped
<1>3. ASSUME NEW r \in Releases, NEW check \in Fixable, Fix(r, check) PROVE TypeInv'
  BY <1>3, FixStepTyped
<1>4. ASSUME NEW r \in Releases, NEW check \in Fixable, FixRaises(r, check) PROVE TypeInv'
  <2>1. session' = [session EXCEPT ![r] = Closed] /\ UNCHANGED <<release, pids, images, upload, presses>>
    BY <1>4 DEF FixRaises
  <2>2. RowOK(r)' /\ DOMAIN release' = Releases /\ presses' \in [Releases -> 0..MaxPresses]
    BY <2>1 DEF TypeInv, RowOK, ContentOK
  <2> QED BY <2>1, <2>2, CloseTyped
<1>5. ASSUME NEW other \in Others, Register(other[1], other[2]) PROVE TypeInv'
  <2>1. PidsOK'
    BY <1>5, PidsTyped DEF TypeInv
  <2> QED BY <1>5, <2>1, OutsideTyped DEF Register, TypeInv
<1>6. ASSUME NEW image \in Images, UploadImage(image) PROVE TypeInv'
  <2>1. PidsOK' /\ images' \subseteq Images
    BY <1>6 DEF UploadImage, TypeInv, PidsOK
  <2> QED BY <1>6, <2>1, OutsideTyped DEF UploadImage
<1>7. CASE UNCHANGED vars
  BY <1>7 DEF vars, TypeInv, RowOK, WorkOK, ContentOK, UploadsOK, PidsOK
<1> QED BY <1>1, <1>2, <1>3, <1>4, <1>5, <1>6, <1>7 DEF Next

(* Whatever the fixes make of them, records stay records, documents stay     *)
(* documents, and no press begins beyond the bound; a release that is being  *)
(* repaired is locked until the press commits (Release.fix_checks).          *)
THEOREM TypeOKAlways == Spec => []TypeOK
<1>1. Init => TypeInv
  BY InitTyped
<1>2. TypeInv /\ [Next]_vars => TypeInv'
  BY NextTyped
<1>3. TypeInv => TypeOK
  BY TypeInvTypes
<1> QED BY <1>1, <1>2, <1>3, PTL DEF Spec

-----------------------------------------------------------------------------
(* The numbers that the fixes give.                                         *)

(***************************************************************************)
(***************************************************************************)
Number(record) == record.recid[2]

\* The entries of a release whose number a fix has given.
Given(r, records) == {i \in DOMAIN records : Number(records[i]) # Number(upload[r][i])}

RecidType == {"none", "exp", "plain", "odd"} \X Nat

\* A list of entries of the release r, which knows their numbers.
ListOK(r, records) ==
    /\ DOMAIN records = DOMAIN upload[r]
    /\ \A i \in DOMAIN records : "recid" \in DOMAIN records[i] /\ records[i].recid \in RecidType

\* The counter is above what it has given, and it has given no number twice.
CounterOK(r, records, max) ==
    /\ max \in Nat
    /\ \A i \in Given(r, records) : Number(records[i]) <= max
    /\ \A i, j \in Given(r, records) : i # j => Number(records[i]) # Number(records[j])

\* Two releases have been given different numbers.
Differ(r, records, s, others) ==
    \A i \in Given(r, records), j \in Given(s, others) : Number(records[i]) # Number(others[j])

RowsOK ==
    /\ DOMAIN release = Releases
    /\ \A r \in Releases :
        /\ DOMAIN release[r] = RowFields
        /\ ListOK(r, release[r].records)
        /\ CounterOK(r, release[r].records, release[r].max_recid)
        /\ \A s \in Releases \ {r} : Differ(r, release[r].records, s, release[s].records)

\* What a press has done so far fits what the others have committed.
SessionOK(r) ==
    /\ DOMAIN session[r] = SessionFields
    /\ ~session[r].open => session[r].todo = {}
    /\ session[r].todo \subseteq Fixable
    /\ session[r].open =>
        /\ ListOK(r, session[r].records)
        /\ CounterOK(r, session[r].records, session[r].max_recid)
        /\ \A s \in Releases \ {r} : Differ(r, session[r].records, s, release[s].records)

SessionsOK ==
    /\ DOMAIN session = Releases /\ \A r \in Releases : SessionOK(r)
    /\ \A r, s \in Releases : session[r].open /\ session[s].open => r = s

NumbersInv == RowsOK /\ SessionsOK /\ UploadsOK /\ PidsOK

\* The invariant says that numbers stay apart.
LEMMA InvApart == ASSUME NumbersInv PROVE NumbersStayApart
<1> SUFFICES ASSUME NEW r \in Releases, NEW s \in Releases,
                    NEW i \in DOMAIN release[r].records, NEW j \in DOMAIN release[s].records,
                    <<r, i>> # <<s, j>>, release[r].records[i].recid = release[s].records[j].recid,
                    ~Brought(r, i), ~Brought(s, j)
             PROVE  FALSE
  BY DEF NumbersStayApart
<1>1. i \in Given(r, release[r].records) /\ j \in Given(s, release[s].records)
  BY DEF Given, Brought, Number
<1>2. Number(release[r].records[i]) = Number(release[s].records[j])
  BY DEF Number
<1>3. CASE r = s
  BY <1>1, <1>2, <1>3 DEF NumbersInv, RowsOK, CounterOK
<1>4. CASE r # s
  BY <1>1, <1>2, <1>4 DEF NumbersInv, RowsOK, Differ
<1> QED BY <1>3, <1>4

\* At first no number has been given.
LEMMA InitNumbers == ASSUME Init PROVE NumbersInv
<1>1. PICK u \in [Releases -> UNION {Uploads[r] : r \in Releases}] :
        /\ \A r \in Releases : u[r] \in Uploads[r]
        /\ upload = [r \in Releases |-> u[r].records]
        /\ release = [r \in Releases |->
              Validate([status |-> "DRAFT", records |-> u[r].records, documents |-> u[r].documents,
                        valid |-> NewValidations, max_recid |-> 0, errors |-> FALSE])]
  BY DEF Init
<1>2. UploadsOK
  BY <1>1, UploadsAssumption DEF UploadsOK
<1>3. ASSUME NEW r \in Releases
      PROVE  /\ DOMAIN release[r] = RowFields
             /\ release[r].records = upload[r] /\ release[r].max_recid = 0
  BY <1>1 DEF Validate, RowFields
<1>4. ASSUME NEW r \in Releases PROVE ListOK(r, upload[r]) /\ Given(r, upload[r]) = {}
  <2>1. \A i \in DOMAIN upload[r] : upload[r][i] \in Record
    BY <1>2 DEF UploadsOK
  <2>2. \A x \in Record : "recid" \in DOMAIN x /\ x.recid \in RecidType
    BY DEF Record, RecidType
  <2> QED BY <2>1, <2>2 DEF ListOK, Given
<1>5. RowsOK
  <2>1. ASSUME NEW r \in Releases
        PROVE  /\ DOMAIN release[r] = RowFields
               /\ ListOK(r, release[r].records)
               /\ CounterOK(r, release[r].records, release[r].max_recid)
               /\ \A s \in Releases \ {r} : Differ(r, release[r].records, s, release[s].records)
    <3>1. \A x \in Releases : Given(x, release[x].records) = {}
      BY <1>3, <1>4
    <3>2. Given(r, release[r].records) = {} /\ release[r].max_recid = 0 /\ 0 \in Nat
      BY <1>3, <3>1
    <3>3. CounterOK(r, release[r].records, release[r].max_recid)
      BY <3>2, Zenon DEF CounterOK
    <3> QED BY <1>3, <1>4, <3>1, <3>3 DEF Differ
  <2> QED BY <1>1, <2>1 DEF RowsOK
<1>6. SessionsOK
  BY DEF Init, SessionsOK, SessionOK, SessionFields, Closed
<1>7. PidsOK
  BY InitPids
<1> QED BY <1>2, <1>5, <1>6, <1>7 DEF NumbersInv

Loaded(w) == DOMAIN w = SessionFields /\ \A i \in DOMAIN w.records : "recid" \in DOMAIN w.records[i]

\* The session v has the recids and the counter of the session w.
KeepsRecids(w, v) ==
    /\ DOMAIN v = SessionFields
    /\ v.open = w.open /\ v.todo = w.todo /\ v.max_recid = w.max_recid
    /\ DOMAIN v.records = DOMAIN w.records
    /\ \A i \in DOMAIN w.records :
        "recid" \in DOMAIN v.records[i] /\ v.records[i].recid = w.records[i].recid

\* Whatever it makes of the files, titles and links, no other fix touches them.
LEMMA OthersKeepRecids ==
    ASSUME NEW w, Loaded(w), NEW check \in Fixable \ {"recid"}, NEW v \in Fixes(check, w)
    PROVE  KeepsRecids(w, v)
<1>1. Frame(check, w, v)
  BY FixFrames DEF Loaded
<1>2. "recid" \notin RecordWrites(check)
  BY DEF RecordWrites, Fixable, Standard
<1>3. /\ DOMAIN v.records = DOMAIN w.records
      /\ \A i \in DOMAIN w.records :
            "recid" \in DOMAIN v.records[i] /\ v.records[i].recid = w.records[i].recid
  BY <1>1, <1>2 DEF Frame, SameBut, Loaded
<1> QED BY <1>1, <1>3 DEF Frame, KeepsRecids

\* What ValidRecid.fix makes of a session keeps its numbers apart from all others.
LEMMA RecidFixed ==
    ASSUME NumbersInv, NEW r \in Releases, session[r].open, NEW v, v = FixRecid(session[r])
    PROVE  /\ DOMAIN v = SessionFields /\ v.open /\ v.todo = session[r].todo
           /\ ListOK(r, v.records) /\ CounterOK(r, v.records, v.max_recid)
           /\ \A s \in Releases \ {r} : Differ(r, v.records, s, release[s].records)
<1> DEFINE w == session[r]
           old == w.records
           new == v.records
           start == NextRecidStart(w)
           S == {i \in DOMAIN old : Renumber(old[i])}
           before(i) == {j \in DOMAIN old : j < i /\ Renumber(old[j])}
           rank(i) == Cardinality(before(i))
           count == Cardinality(S)
<1>1. /\ DOMAIN w = SessionFields /\ ListOK(r, old) /\ CounterOK(r, old, w.max_recid)
      /\ \A s \in Releases \ {r} : Differ(r, old, s, release[s].records)
  BY DEF NumbersInv, SessionsOK, SessionOK
<1>2. PICK n \in Nat : DOMAIN old = 1..n
  <2>1. upload[r] \in Seq(Record)
    BY DEF NumbersInv, UploadsOK
  <2> QED BY <1>1, <2>1 DEF ListOK
<1>3. /\ v.records = Renumbered(old, start) /\ v.max_recid = IF count = 0 THEN w.max_recid ELSE start + count - 1
      /\ DOMAIN v = SessionFields /\ v.open /\ v.todo = w.todo
  <2>1. v = [w EXCEPT !.records = Renumbered(old, start),
                      !.max_recid = IF count = 0 THEN w.max_recid ELSE start + count - 1]
    BY DEF FixRecid
  <2> HIDE DEF old, start, count, w
  <2>2. w.open
    BY DEF w
  <2> QED BY <1>1, <2>1, <2>2 DEF SessionFields
<1>4. /\ DOMAIN new = DOMAIN old
      /\ \A i \in DOMAIN old :
            /\ "recid" \in DOMAIN new[i]
            /\ i \in S => new[i].recid = <<"exp", start + rank(i)>>
            /\ i \notin S => new[i].recid = <<"exp", Number(old[i])>>
  <2> HIDE DEF w
  <2>1. DOMAIN new = DOMAIN old
    BY <1>3 DEF Renumbered
  <2>2. ASSUME NEW i \in DOMAIN old
        PROVE  new[i] = [old[i] EXCEPT !.recid =
                            <<"exp", IF Renumber(old[i]) THEN start + rank(i) ELSE old[i].recid[2]>>]
    BY <1>3 DEF Renumbered
  <2>3. \A i \in DOMAIN old : "recid" \in DOMAIN old[i]
    BY <1>1 DEF ListOK
  <2> HIDE DEF new, old, start, rank
  <2> QED BY <2>1, <2>2, <2>3 DEF Number
<1>5. /\ start \in Nat /\ start > w.max_recid /\ w.max_recid \in Nat
      /\ \A s \in Releases : start > release[s].max_recid
  <2>1. w.max_recid \in Nat /\ PidsOK /\ \A s \in Releases : release[s].max_recid \in Nat
    BY <1>1 DEF CounterOK, NumbersInv, RowsOK
  <2> QED BY <2>1, StartIsAbove
<1>6. \A i \in S : /\ rank(i) \in Nat /\ count \in Nat /\ rank(i) < count
                   /\ \A j \in S : i < j => rank(i) < rank(j)
  <2>1. S \in SUBSET (1..n)
    BY <1>2
  <2>2. \A i : before(i) = {j \in 1..n : j < i /\ j \in S}
    BY <1>2
  <2> HIDE DEF S, before
  <2> QED BY <2>1, <2>2, BeforeCounts
<1>7. count \in Nat /\ \A i \in DOMAIN old : old[i].recid \in RecidType
  <2>1. IsFiniteSet(S)
    BY <1>2, FS_Interval, FS_Subset
  <2> HIDE DEF S
  <2> QED BY <1>1, <2>1, FS_CardinalityType DEF ListOK
<1> HIDE DEF w, old, new, start, S, rank, count
<1>8. \A i \in DOMAIN old : Number(old[i]) \in Nat
  BY <1>7 DEF Number, RecidType
<1>9. ListOK(r, new)
  <2>1. \A i \in DOMAIN old : new[i].recid \in RecidType
    BY <1>4, <1>5, <1>6, <1>8 DEF RecidType
  <2> QED BY <1>1, <1>4, <2>1 DEF ListOK
\* What a fix gives is new, or was given before.
<1>10. ASSUME NEW i \in Given(r, new)
       PROVE  /\ i \in DOMAIN old
              /\ i \in S => Number(new[i]) = start + rank(i)
              /\ i \notin S => i \in Given(r, old) /\ Number(new[i]) = Number(old[i])
  BY <1>4 DEF Given, Number
<1>11. v.max_recid \in Nat /\ v.max_recid >= w.max_recid
  BY <1>3, <1>5, <1>7 DEF count, w, start
<1>12. \A i \in Given(r, new) : Number(new[i]) <= v.max_recid
  <2> SUFFICES ASSUME NEW i \in Given(r, new) PROVE Number(new[i]) <= v.max_recid
    OBVIOUS
  <2>1. CASE i \in S
    <3>1. rank(i) \in Nat /\ count \in Nat /\ rank(i) < count
      BY <1>6, <2>1
    <3>2. v.max_recid = start + count - 1
      BY <1>3, <3>1 DEF count, w, start
    <3> QED BY <1>5, <1>10, <2>1, <3>1, <3>2
  <2>2. CASE i \notin S
    <3>1. Number(old[i]) <= w.max_recid /\ Number(old[i]) \in Nat
      BY <1>1, <1>8, <1>10, <2>2 DEF CounterOK
    <3> QED BY <1>5, <1>10, <1>11, <2>2, <3>1
  <2> QED BY <2>1, <2>2
<1>13. ASSUME NEW i \in Given(r, new), NEW j \in Given(r, new), i \in S, j \notin S
       PROVE  Number(new[i]) # Number(new[j])
  <2>1. Number(new[i]) = start + rank(i) /\ rank(i) \in Nat
    BY <1>6, <1>10, <1>13
  <2>2. Number(new[j]) = Number(old[j]) /\ Number(old[j]) <= w.max_recid /\ Number(old[j]) \in Nat
    BY <1>1, <1>8, <1>10, <1>13 DEF CounterOK
  <2> QED BY <1>5, <2>1, <2>2
<1>14. ASSUME NEW i \in Given(r, new), NEW j \in Given(r, new), i # j
       PROVE  Number(new[i]) # Number(new[j])
  <2>1. CASE i \in S /\ j \in S
    <3>1. i \in 1..n /\ j \in 1..n
      BY <1>2, <1>10
    <3>2. i < j \/ j < i
      BY <1>14, <3>1
    <3>3. rank(i) \in Nat /\ rank(j) \in Nat /\ rank(i) # rank(j)
      BY <1>6, <2>1, <3>2
    <3> QED BY <1>5, <1>10, <2>1, <3>3
  <2>2. CASE i \notin S /\ j \notin S
    BY <1>1, <1>10, <1>14, <2>2 DEF CounterOK
  <2> QED BY <1>13, <2>1, <2>2
<1>15. CounterOK(r, new, v.max_recid)
  BY <1>11, <1>12, <1>14 DEF CounterOK
<1>16. ASSUME NEW s \in Releases \ {r} PROVE Differ(r, new, s, release[s].records)
  <2> SUFFICES ASSUME NEW i \in Given(r, new), NEW j \in Given(s, release[s].records)
               PROVE  Number(new[i]) # Number(release[s].records[j])
    BY DEF Differ
  <2>1. CASE i \in S
    <3>1. Number(release[s].records[j]) <= release[s].max_recid /\ release[s].max_recid \in Nat
      BY DEF NumbersInv, RowsOK, CounterOK
    <3>2. Number(release[s].records[j]) \in Nat
      BY DEF NumbersInv, RowsOK, ListOK, RecidType, Number, Given
    <3>3. Number(new[i]) = start + rank(i) /\ rank(i) \in Nat
      BY <1>6, <1>10, <2>1
    <3> QED BY <1>5, <3>1, <3>2, <3>3
  <2>2. CASE i \notin S
    BY <1>1, <1>10, <2>2 DEF Differ
  <2> QED BY <2>1, <2>2
<1> QED BY <1>3, <1>9, <1>15, <1>16 DEF new, w

\* The other fixes leave the numbers as they are.
LEMMA SessionKept ==
    ASSUME NumbersInv, NEW r \in Releases, session[r].open, NEW v, KeepsRecids(session[r], v)
    PROVE  /\ DOMAIN v = SessionFields /\ v.open /\ v.todo = session[r].todo
           /\ ListOK(r, v.records) /\ CounterOK(r, v.records, v.max_recid)
           /\ \A s \in Releases \ {r} : Differ(r, v.records, s, release[s].records)
<1> DEFINE old == session[r].records
<1>1. /\ ListOK(r, old) /\ CounterOK(r, old, session[r].max_recid)
      /\ \A s \in Releases \ {r} : Differ(r, old, s, release[s].records)
  BY DEF NumbersInv, SessionsOK, SessionOK
<1>2. /\ DOMAIN v.records = DOMAIN old /\ v.max_recid = session[r].max_recid
      /\ \A i \in DOMAIN old : "recid" \in DOMAIN v.records[i] /\ v.records[i].recid = old[i].recid
  BY DEF KeepsRecids
<1> HIDE DEF old
<1>3. Given(r, v.records) = Given(r, old) /\ \A i \in Given(r, old) : Number(v.records[i]) = Number(old[i])
  BY <1>2 DEF Given, Number
<1>4. ListOK(r, v.records)
  BY <1>1, <1>2 DEF ListOK
<1>5. CounterOK(r, v.records, v.max_recid)
  BY <1>1, <1>2, <1>3 DEF CounterOK
<1>6. \A s \in Releases \ {r} : Differ(r, v.records, s, release[s].records)
  BY <1>1, <1>3 DEF Differ
<1> QED BY <1>4, <1>5, <1>6 DEF KeepsRecids

\* A press begins with the numbers of the row.
LEMMA PressNumbers == ASSUME NumbersInv, ~Overlap, NEW r \in Releases, Press(r) PROVE NumbersInv'
<1>1. /\ \A s \in Releases : ~session[s].open
      /\ release' = [release EXCEPT ![r].status = "EDITING"]
      /\ session' = [session EXCEPT ![r] =
            [open |-> TRUE, records |-> release[r].records, documents |-> release[r].documents,
             max_recid |-> release[r].max_recid, errors |-> FALSE,
             todo |-> {c \in Enabled \cap Fixable : ~release[r].valid[c]}]]
      /\ pids' = pids /\ upload' = upload
  BY DEF Press
<1>2. /\ DOMAIN release' = Releases
      /\ \A s \in Releases : /\ DOMAIN release'[s] = RowFields
                              /\ release'[s].records = release[s].records
                              /\ release'[s].max_recid = release[s].max_recid
  BY <1>1 DEF NumbersInv, RowsOK, RowFields
<1>3. RowsOK'
  BY <1>1, <1>2 DEF NumbersInv, RowsOK, ListOK, CounterOK, Differ, Given
<1>4. SessionsOK'
  <2>1. ASSUME NEW s \in Releases \ {r} PROVE session'[s] = session[s] /\ ~session'[s].open
    BY <1>1 DEF NumbersInv, SessionsOK
  <2>2. /\ DOMAIN session'[r] = SessionFields /\ session'[r].open /\ session'[r].todo \subseteq Fixable
        /\ session'[r].records = release'[r].records /\ session'[r].max_recid = release'[r].max_recid
    <3>1. session'[r] =
            [open |-> TRUE, records |-> release[r].records, documents |-> release[r].documents,
             max_recid |-> release[r].max_recid, errors |-> FALSE,
             todo |-> {c \in Enabled \cap Fixable : ~release[r].valid[c]}]
      BY <1>1 DEF NumbersInv, SessionsOK
    <3> QED BY <1>2, <3>1 DEF SessionFields
  <2>3. SessionOK(r)'
    BY <1>3, <2>2 DEF RowsOK, SessionOK, SessionFields
  <2>4. ASSUME NEW s \in Releases \ {r} PROVE SessionOK(s)'
    BY <2>1 DEF NumbersInv, SessionsOK, SessionOK
  <2>5. DOMAIN session' = Releases
    BY <1>1 DEF NumbersInv, SessionsOK
  <2> QED BY <2>1, <2>3, <2>4, <2>5 DEF SessionsOK
<1>5. UploadsOK' /\ PidsOK'
  BY <1>1 DEF NumbersInv, UploadsOK, PidsOK
<1> QED BY <1>3, <1>4, <1>5 DEF NumbersInv

\* A fix gives new numbers, or none.
LEMMA FixNumbers ==
    ASSUME NumbersInv, NEW r \in Releases, NEW check \in Fixable, Fix(r, check) PROVE NumbersInv'
<1>1. PICK v \in Fixes(check, session[r]) : session' = [session EXCEPT ![r] = [v EXCEPT !.todo = @ \ {check}]]
  BY DEF Fix
<1>2. release' = release /\ pids' = pids /\ upload' = upload /\ check \in session[r].todo
  BY DEF Fix
<1>3. /\ session[r].open /\ DOMAIN session[r] = SessionFields /\ session[r].todo \subseteq Fixable
      /\ \A i \in DOMAIN session[r].records : "recid" \in DOMAIN session[r].records[i]
      /\ \A s \in Releases \ {r} : ~session[s].open
  BY <1>2 DEF NumbersInv, SessionsOK, SessionOK, ListOK
<1>4. /\ DOMAIN v = SessionFields /\ v.open /\ v.todo = session[r].todo
      /\ ListOK(r, v.records) /\ CounterOK(r, v.records, v.max_recid)
      /\ \A s \in Releases \ {r} : Differ(r, v.records, s, release[s].records)
  <2>1. CASE check = "recid"
    <3>1. v = FixRecid(session[r])
      BY <2>1 DEF Fixes, Standard
    <3> QED BY <1>3, <3>1, RecidFixed
  <2>2. CASE check # "recid"
    <3>1. KeepsRecids(session[r], v)
      BY <1>3, <2>2, OthersKeepRecids DEF Loaded
    <3> QED BY <1>3, <3>1, SessionKept
  <2> QED BY <2>1, <2>2
<1>5. SessionsOK'
  <2>1. ASSUME NEW s \in Releases \ {r} PROVE session'[s] = session[s] /\ ~session'[s].open
    BY <1>1, <1>3 DEF NumbersInv, SessionsOK
  <2>2. /\ DOMAIN session'[r] = SessionFields /\ session'[r].open /\ session'[r].todo \subseteq Fixable
        /\ session'[r].records = v.records /\ session'[r].max_recid = v.max_recid
    <3>1. session'[r] = [v EXCEPT !.todo = v.todo \ {check}]
      BY <1>1 DEF NumbersInv, SessionsOK
    <3> QED BY <1>3, <1>4, <3>1 DEF SessionFields
  <2>3. SessionOK(r)'
    BY <1>2, <1>4, <2>2 DEF SessionOK, ListOK, CounterOK, Differ, Given
  <2>4. ASSUME NEW s \in Releases \ {r} PROVE SessionOK(s)'
    BY <2>1 DEF NumbersInv, SessionsOK, SessionOK
  <2>5. DOMAIN session' = Releases
    BY <1>1 DEF NumbersInv, SessionsOK
  <2> QED BY <2>1, <2>3, <2>4, <2>5 DEF SessionsOK
<1>6. RowsOK' /\ UploadsOK' /\ PidsOK'
  BY <1>2 DEF NumbersInv, RowsOK, UploadsOK, PidsOK, ListOK, CounterOK, Differ, Given
<1> QED BY <1>5, <1>6 DEF NumbersInv

\* A press that raises gives no numbers.
LEMMA ClosedNumbers ==
    ASSUME NumbersInv, NEW r \in Releases, session' = [session EXCEPT ![r] = Closed],
           UNCHANGED <<release, upload, pids>>
    PROVE  NumbersInv'
<1>1. ASSUME NEW s \in Releases PROVE session'[s] = IF s = r THEN Closed ELSE session[s]
  BY DEF NumbersInv, SessionsOK
<1>2. ASSUME NEW s \in Releases PROVE SessionOK(s)'
  <2>1. CASE s = r
    BY <1>1, <2>1 DEF SessionOK, SessionFields, Closed
  <2>2. CASE s # r
    BY <1>1, <2>2 DEF NumbersInv, SessionsOK, SessionOK, ListOK, CounterOK, Differ, Given
  <2> QED BY <2>1, <2>2
<1>3. DOMAIN session' = Releases /\ \A s \in Releases : session'[s].open => session[s].open
  BY <1>1 DEF NumbersInv, SessionsOK, Closed
<1>4. SessionsOK'
  BY <1>2, <1>3 DEF NumbersInv, SessionsOK
<1>5. RowsOK' /\ UploadsOK' /\ PidsOK'
  BY DEF NumbersInv, RowsOK, UploadsOK, PidsOK, ListOK, CounterOK, Differ, Given
<1> QED BY <1>4, <1>5 DEF NumbersInv

\* The end of a press commits its numbers.
LEMMA FinishNumbers == ASSUME NumbersInv, NEW r \in Releases, Finish(r) PROVE NumbersInv'
<1> DEFINE w == session[r]
           row == [release[r] EXCEPT !.records = w.records, !.documents = w.documents,
                                     !.max_recid = w.max_recid, !.status = "DRAFT", !.errors = TRUE]
<1>1. /\ release' = [release EXCEPT ![r] = IF w.errors THEN row ELSE Validate(row)]
      /\ session' = [session EXCEPT ![r] = Closed]
      /\ pids' = pids /\ upload' = upload /\ w.open
  BY DEF Finish
<1>2. /\ DOMAIN row = RowFields /\ row.records = w.records /\ row.max_recid = w.max_recid
  BY DEF NumbersInv, RowsOK, RowFields
<1>3. /\ DOMAIN Validate(row) = DOMAIN row /\ Validate(row).records = row.records
      /\ Validate(row).max_recid = row.max_recid
  <2> HIDE DEF row
  <2> QED BY <1>2 DEF Validate, RowFields
<1>4. /\ DOMAIN release' = Releases /\ DOMAIN release'[r] = RowFields
      /\ release'[r].records = w.records /\ release'[r].max_recid = w.max_recid
      /\ \A s \in Releases \ {r} : release'[s] = release[s]
  <2> HIDE DEF row, w
  <2>1. DOMAIN release = Releases
    BY DEF NumbersInv, RowsOK
  <2>2. release'[r] = IF w.errors THEN row ELSE Validate(row)
    BY <1>1, <2>1
  <2> QED BY <1>1, <1>2, <1>3, <2>1, <2>2
<1>5. /\ ListOK(r, w.records) /\ CounterOK(r, w.records, w.max_recid)
      /\ \A s \in Releases \ {r} : Differ(r, w.records, s, release[s].records)
      /\ \A s \in Releases \ {r} : ~session[s].open
  BY <1>1 DEF NumbersInv, SessionsOK, SessionOK
<1> HIDE DEF w, row
<1>6. RowsOK'
  <2>1. ASSUME NEW s \in Releases
        PROVE  /\ DOMAIN release'[s] = RowFields
               /\ ListOK(s, release'[s].records)
               /\ CounterOK(s, release'[s].records, release'[s].max_recid)
    BY <1>4, <1>5 DEF NumbersInv, RowsOK
  <2>2. ASSUME NEW s \in Releases, NEW t \in Releases \ {s}
        PROVE  Differ(s, release'[s].records, t, release'[t].records)
    <3>1. CASE s = r
      BY <1>4, <1>5, <3>1
    <3>2. CASE t = r
      BY <1>4, <1>5, <3>2 DEF Differ
    <3>3. CASE s # r /\ t # r
      BY <1>4, <3>3 DEF NumbersInv, RowsOK
    <3> QED BY <3>1, <3>2, <3>3
  <2> QED BY <1>1, <1>4, <2>1, <2>2 DEF RowsOK, ListOK, CounterOK, Differ, Given
<1>7. SessionsOK'
  <2>1. ASSUME NEW s \in Releases PROVE session'[s] = IF s = r THEN Closed ELSE session[s]
    BY <1>1 DEF NumbersInv, SessionsOK
  <2>2. ASSUME NEW s \in Releases PROVE ~session'[s].open /\ SessionOK(s)'
    <3>1. CASE s = r
      BY <2>1, <3>1 DEF SessionOK, SessionFields, Closed
    <3>2. CASE s # r
      BY <1>5, <2>1, <3>2 DEF NumbersInv, SessionsOK, SessionOK
    <3> QED BY <3>1, <3>2
  <2>3. DOMAIN session' = Releases
    BY <1>1 DEF NumbersInv, SessionsOK
  <2> QED BY <2>2, <2>3 DEF SessionsOK
<1>8. UploadsOK' /\ PidsOK'
  BY <1>1 DEF NumbersInv, UploadsOK, PidsOK
<1> QED BY <1>6, <1>7, <1>8 DEF NumbersInv

\* Registering a PID gives no number to a record.
LEMMA RegisterNumbers ==
    ASSUME NumbersInv, NEW pid_type, NEW pid, Register(pid_type, pid) PROVE NumbersInv'
<1>1. UNCHANGED <<release, session, upload>>
  BY DEF Register
<1>2. PidsOK'
  BY PidsTyped DEF NumbersInv
<1>3. RowsOK' /\ SessionsOK' /\ UploadsOK'
  BY <1>1 DEF NumbersInv, RowsOK, SessionsOK, SessionOK, UploadsOK, ListOK, CounterOK, Differ, Given
<1> QED BY <1>2, <1>3 DEF NumbersInv

\* Nothing else touches them.
LEMMA StutterNumbers ==
    ASSUME NumbersInv, UNCHANGED <<release, session, pids, upload>> PROVE NumbersInv'
BY DEF NumbersInv, RowsOK, SessionsOK, SessionOK, UploadsOK, PidsOK, ListOK, CounterOK, Differ, Given

\* Every step keeps the invariant, as long as only one release is repaired.
LEMMA NextNumbers == ASSUME NumbersInv, ~Overlap, [Next]_vars PROVE NumbersInv'
<1>1. ASSUME NEW r \in Releases, Press(r) PROVE NumbersInv'
  BY <1>1, PressNumbers
<1>2. ASSUME NEW r \in Releases, Finish(r) PROVE NumbersInv'
  BY <1>2, FinishNumbers
<1>3. ASSUME NEW r \in Releases, NEW check \in Fixable, Fix(r, check) PROVE NumbersInv'
  BY <1>3, FixNumbers
<1>4. ASSUME NEW r \in Releases, NEW check \in Fixable, FixRaises(r, check) PROVE NumbersInv'
  BY <1>4, ClosedNumbers DEF FixRaises
<1>5. ASSUME NEW other \in Others, Register(other[1], other[2]) PROVE NumbersInv'
  BY <1>5, RegisterNumbers
<1>6. ASSUME NEW image \in Images, UploadImage(image) PROVE NumbersInv'
  BY <1>6, StutterNumbers DEF UploadImage
<1>7. CASE UNCHANGED vars
  BY <1>7, StutterNumbers DEF vars
<1> QED BY <1>1, <1>2, <1>3, <1>4, <1>5, <1>6, <1>7 DEF Next

(* Releases that are repaired one after the other are never given one       *)
(* number twice (ValidRecid.next_recid_start and ValidRecid.fix): the row    *)
(* of a release keeps the last number given, and the next fix starts above   *)
(* all of them.                                                             *)
THEOREM NumbersStayApartAlways == ASSUME ~Overlap PROVE Spec => []NumbersStayApart
<1>1. Init => NumbersInv
  BY InitNumbers
<1>2. NumbersInv /\ [Next]_vars => NumbersInv'
  BY NextNumbers
<1>3. NumbersInv => NumbersStayApart
  BY InvApart
<1> QED BY <1>1, <1>2, <1>3, PTL DEF Spec

-----------------------------------------------------------------------------
(* The files.                                                               *)

\* The records new still promise what the records old did.
Keeps(old, new) == Promised(old) \subseteq Promised(new)
AllKept(r, old, new) == \A i \in DOMAIN upload[r] : Keeps(old[i], new[i])

\* A record without a list of files has no files.
Unlisted(r, records) ==
    \A i \in DOMAIN upload[r] : ~records[i].listed => records[i].files = {}

\* The inductive invariant: a press without error has lost nothing that the row
\* promises, in whatever order the fixes have run.
FilesInv ==
    /\ TypeInv
    /\ \A r \in Releases :
        /\ Unlisted(r, release[r].records)
        /\ session[r].open => Unlisted(r, session[r].records)
        /\ session[r].open /\ ~session[r].errors =>
              AllKept(r, release[r].records, session[r].records)

\* Without directories, what is promised is what is there.
LEMMA NoWildcards ==
    ASSUME NEW x, Wildcards(x) = {}
    PROVE  Promised(x) \subseteq UrisOf(x)
BY DEF Promised, Wildcards

\* A record without files has nothing to expand.
LEMMA ExpandedUnlisted ==
    ASSUME NEW x \in Record, NEW listing, NEW state
    PROVE  /\ Expanded(x, listing, state).listed = x.listed
           /\ x.files = {} => Expanded(x, listing, state).files = {}
<1>1. x.files = {} => Wildcards(x) = {}
  BY DEF Wildcards, UrisOf
<1> QED BY <1>1 DEF Expanded, Record

\* Directories give way to what is below them.
LEMMA ExpandedKeeps ==
    ASSUME NEW x \in Record, NEW listing, NEW state,
           \A d \in Wildcards(x) : listing[d].found = Tree[d]
    PROVE  Promised(x) \subseteq Promised(Expanded(x, listing, state))
<1> DEFINE found == UNION {listing[d].found : d \in Wildcards(x)}
           files == {file \in x.files : Uri(file) \notin Dirs} \cup {<<uri, state[uri]>> : uri \in found}
           y == [x EXCEPT !.files = files]
<1>1. Expanded(x, listing, state) = IF found = {} THEN x ELSE y
  BY DEF Expanded
<1>2. y.files = files /\ y.rucio = x.rucio /\ y.listed = x.listed
  BY DEF Record
<1>3. found \subseteq Uris /\ found \cap Dirs = {}
  BY TreeAssumption DEF Wildcards
<1>4. ASSUME NEW uri \in Promised(x) PROVE uri \in Promised(y)
  <2>1. PICK a \in UrisOf(x) : uri \in IF a \in Dirs THEN Tree[a] ELSE {a}
    BY DEF Promised
  <2>2. uri \in UrisOf(y) /\ uri \notin Dirs
    <3>1. CASE a \in Dirs
      <4>1. a \in Wildcards(x)
        BY <2>1, <3>1 DEF Wildcards
      <4>2. uri \in Tree[a]
        BY <2>1, <3>1
      <4>3. uri \in found
        BY <4>1, <4>2
      <4>4. <<uri, state[uri]>> \in files
        BY <4>3
      <4>5. uri = Uri(<<uri, state[uri]>>)
        BY DEF Uri
      <4> HIDE DEF found, files, y
      <4>6. uri \in UrisOf(y)
        BY <1>2, <4>4, <4>5 DEF UrisOf
      <4> QED BY <1>3, <4>3, <4>6
    <3>2. CASE a \notin Dirs
      <4>1. uri = a
        BY <2>1, <3>2
      <4>2. PICK file \in x.files : a = Uri(file)
        BY <2>1 DEF UrisOf
      <4>3. file \in files
        BY <3>2, <4>2
      <4> HIDE DEF files, y
      <4> QED BY <1>2, <3>2, <4>1, <4>2, <4>3 DEF UrisOf
    <3> QED BY <3>1, <3>2
  <2> HIDE DEF y
  <2> QED BY <2>2 DEF Promised
<1> HIDE DEF y, found
<1> QED BY <1>1, <1>2, <1>4

\* The files of x after the checksums have been looked up.
MeasuredFiles(x, read, state) ==
    (x.files \ Bare(x)) \cup {Measured(file, read, state) : file \in Bare(x)}

\* Measuring a file does not move it.
LEMMA MeasuredKeeps ==
    ASSUME NEW x \in Record, NEW read, NEW state, NEW y,
           y.listed = x.listed, y.rucio = x.rucio,
           y.files = MeasuredFiles(x, read, state)
    PROVE  Promised(y) = Promised(x) /\ y.listed = x.listed /\ (x.files = {} => y.files = {})
<1> DEFINE files == (x.files \ Bare(x)) \cup {Measured(file, read, state) : file \in Bare(x)}
<1>1. y.files = files /\ y.listed = x.listed
  BY DEF MeasuredFiles
<1>2. \A file \in x.files : Uri(Measured(file, read, state)) = Uri(file)
  BY DEF Measured, Uri
<1>3. Bare(x) \subseteq x.files
  BY DEF Bare
<1>4. UrisOf(y) = UrisOf(x)
  <2>1. UrisOf(y) \subseteq UrisOf(x)
    BY <1>1, <1>2, <1>3 DEF UrisOf
  <2>2. ASSUME NEW file \in x.files PROVE Uri(file) \in UrisOf(y)
    <3>1. CASE file \in Bare(x)
      <4>1. Measured(file, read, state) \in files
        BY <3>1
      <4> HIDE DEF files
      <4> QED BY <1>1, <1>2, <4>1 DEF UrisOf
    <3>2. CASE file \notin Bare(x)
      BY <1>1, <3>2 DEF UrisOf
    <3> QED BY <3>1, <3>2
  <2>3. UrisOf(x) \subseteq UrisOf(y)
    BY <2>2 DEF UrisOf
  <2> QED BY <2>1, <2>3
<1>5. x.files = {} => files = {}
  BY <1>3
<1> QED BY <1>1, <1>4, <1>5 DEF Promised

\* No fix loses a file, unless it notes an error.
LEMMA FixKeepsFiles ==
    ASSUME NEW r \in Releases, NEW w, DOMAIN w = SessionFields, w.errors \in BOOLEAN,
           ContentOK(r, w), Unlisted(r, w.records),
           NEW check \in Fixable, NEW v \in Fixes(check, w)
    PROVE  /\ Unlisted(r, v.records)
           /\ ~v.errors => ~w.errors /\ AllKept(r, w.records, v.records)
<1>1. w.records \in [DOMAIN upload[r] -> Record]
  BY DEF ContentOK
<1>e. ~v.errors => ~w.errors
  BY FixFrames DEF Frame
<1>2. SUFFICES ASSUME NEW i \in DOMAIN upload[r]
               PROVE  /\ ~v.records[i].listed => v.records[i].files = {}
                      /\ ~v.errors => Keeps(w.records[i], v.records[i])
  BY <1>e DEF AllKept, Unlisted
<1> DEFINE x == w.records[i]
           y == v.records[i]
<1>3. x \in Record /\ (~x.listed => x.files = {})
  BY <1>1 DEF Unlisted
<1> USE DEF SessionFields
<1>4. CASE check \notin {"expand_files", "files", "rucio"}
  <2>1. Frame(check, w, v)
    BY FixFrames
  <2>2. {"files", "rucio", "listed"} \cap RecordWrites(check) = {}
    BY <1>4 DEF RecordWrites, Fixable, Standard
  <2>3. {"files", "rucio", "listed"} \subseteq DOMAIN x
    BY <1>3 DEF Record
  <2>4. y.files = x.files /\ y.rucio = x.rucio /\ y.listed = x.listed
    BY <1>1, <2>1, <2>2, <2>3 DEF Frame, SameBut
  <2> HIDE DEF x, y
  <2>5. Promised(y) = Promised(x)
    BY <2>4 DEF Promised, UrisOf
  <2> QED BY <1>3, <2>4, <2>5 DEF Keeps, x, y
<1>5. CASE check = "expand_files"
  <2> DEFINE dirs == UNION {Wildcards(w.records[j]) : j \in DOMAIN w.records}
             walks == {l \in [dirs -> UNION {Listings(d) : d \in dirs}] :
                          \A d \in dirs : l[d] \in Listings(d)} \X [Uris -> States]
  <2>1. v \in FixExpandFiles(w)
    BY <1>5 DEF Fixes, Standard
  <2>2. PICK walk \in walks : v = ExpandAll(w, walk[1], walk[2])
    BY <2>1, Zenon DEF FixExpandFiles
  <2>3. \A d \in dirs : walk[1][d] \in Listings(d) /\ d \in DOMAIN walk[1]
    BY <2>2
  <2>4. ASSUME NEW d \in Dirs, NEW l \in Listings(d) PROVE l.failed \/ l.found = Tree[d]
    <3>1. \/ l = [found |-> Tree[d], failed |-> FALSE]
          \/ l \in [found : SUBSET Tree[d], failed : {TRUE}]
      BY DEF Listings
    <3>2. l \in [found : SUBSET Tree[d], failed : {TRUE}] => l.failed
      OBVIOUS
    <3>3. l = [found |-> Tree[d], failed |-> FALSE] => l.found = Tree[d]
      OBVIOUS
    <3> QED BY <3>1, <3>2, <3>3, Zenon
  <2>5. Wildcards(x) \subseteq dirs /\ Wildcards(x) \subseteq Dirs
    BY <1>1 DEF Wildcards
  <2>6. y = Expanded(x, walk[1], walk[2])
    BY <1>1, <2>2 DEF ExpandAll, Fails
  <2>7. (\E d \in DOMAIN walk[1] : walk[1][d].failed) => v.errors
    BY <2>2 DEF ExpandAll, Fails
  <2>8. ~v.errors => \A d \in Wildcards(x) : walk[1][d].found = Tree[d]
    BY <2>3, <2>4, <2>5, <2>7
  <2> HIDE DEF x, y
  <2>9. y.listed = x.listed /\ (x.files = {} => y.files = {})
    BY <1>3, <2>6, ExpandedUnlisted
  <2>10. ~v.errors => Promised(x) \subseteq Promised(y)
    BY <1>3, <2>6, <2>8, ExpandedKeeps
  <2> QED BY <1>3, <2>9, <2>10 DEF Keeps, x, y
<1>6. CASE check = "files"
  <2>1. v \in FixFiles(w)
    BY <1>6 DEF Fixes, Standard
  <2>2. PICK wanted, seen : v = MeasureAll(w, wanted, seen[1], seen[2])
    BY <2>1, Zenon DEF FixFiles
  <2>3. y = [x EXCEPT !.files = (x.files \ Bare(x)) \cup {Measured(file, seen[1], seen[2]) : file \in Bare(x)}]
    BY <1>1, <2>2 DEF MeasureAll, Fails
  <2> HIDE DEF x, y
  <2>4. Promised(y) = Promised(x) /\ y.listed = x.listed /\ (x.files = {} => y.files = {})
    <3>1. x \in Record
      BY <1>3
    <3>2. y.files = MeasuredFiles(x, seen[1], seen[2]) /\ y.listed = x.listed /\ y.rucio = x.rucio
      BY <2>3, <3>1 DEF Record, MeasuredFiles
    <3> QED BY <3>1, <3>2, MeasuredKeeps
  <2> QED BY <1>3, <2>4 DEF Keeps, x, y
<1>7. CASE check = "rucio"
  <2>1. v = FixRucio(w)
    BY <1>7 DEF Fixes, Standard
  <2>2. y = IF Listed(x) THEN x
            ELSE [x EXCEPT !.title = DidTitle[x.rucio], !.described = NoTitle, !.listed = TRUE,
                           !.claims = DidFiles[x.rucio] # {}, !.files = DidFiles[x.rucio] \X {"whole"}]
    BY <1>1, <2>1 DEF FixRucio
  <2> HIDE DEF x, y
  <2>3. CASE Listed(x)
    BY <1>3, <2>2, <2>3 DEF Keeps, x, y
  <2>4. CASE ~Listed(x)
    <3>1. y.listed = TRUE
      BY <1>3, <2>2, <2>4 DEF Record
    <3>2. Promised(x) = {}
      BY <1>3, <2>4 DEF Listed, Promised, UrisOf
    <3> QED BY <3>1, <3>2 DEF Keeps, x, y
  <2> QED BY <2>3, <2>4
<1> QED BY <1>4, <1>5, <1>6, <1>7

\* At first everything is as it was uploaded, and nothing is pressed.
LEMMA InitFiles == ASSUME Init PROVE FilesInv
<1>1. PICK u \in [Releases -> UNION {Uploads[r] : r \in Releases}] :
        /\ \A r \in Releases : u[r] \in Uploads[r]
        /\ upload = [r \in Releases |-> u[r].records]
        /\ release = [r \in Releases |->
              Validate([status |-> "DRAFT", records |-> u[r].records, documents |-> u[r].documents,
                        valid |-> NewValidations, max_recid |-> 0, errors |-> FALSE])]
  BY DEF Init
<1>2. ASSUME NEW r \in Releases PROVE release[r].records = upload[r]
  <2> DEFINE row == [status |-> "DRAFT", records |-> u[r].records, documents |-> u[r].documents,
                     valid |-> NewValidations, max_recid |-> 0, errors |-> FALSE]
  <2>1. DOMAIN row = RowFields /\ row.valid \in Validations /\ row.records = u[r].records
    BY DEF RowFields, Validations, NewValidations
  <2>2. release[r] = Validate(row) /\ upload[r] = u[r].records
    BY <1>1
  <2> HIDE DEF row
  <2> QED BY <2>1, <2>2, Validates
<1>3. ASSUME NEW r \in Releases PROVE Unlisted(r, upload[r])
  <2>1. u[r] \in Uploads[r] /\ upload[r] = u[r].records
    BY <1>1
  <2> QED BY <2>1, UploadsAssumption DEF Unlisted
<1>4. \A r \in Releases : ~session[r].open
  BY DEF Init, Closed
<1> QED BY <1>2, <1>3, <1>4, InitTyped DEF FilesInv

\* What Finish(r) makes of the row.
LEMMA FinishMakes ==
    ASSUME TypeInv, NEW r \in Releases, Finish(r)
    PROVE  /\ session[r].open /\ ~session'[r].open /\ upload' = upload
           /\ release'[r].records = session[r].records
           /\ release'[r].status = "READY" => ~session[r].errors
           /\ release'[r].status = "READY" /\ "expand_files" \in Enabled
                  => ExpandDirectories(session[r].records)
           /\ \A s \in Releases \ {r} : release'[s] = release[s] /\ session'[s] = session[s]
<1> DEFINE w == session[r]
           row == [release[r] EXCEPT !.records = w.records, !.documents = w.documents,
                                     !.max_recid = w.max_recid, !.status = "DRAFT", !.errors = TRUE]
<1>1. /\ release' = [release EXCEPT ![r] = IF w.errors THEN row ELSE Validate(row)]
      /\ session' = [session EXCEPT ![r] = Closed]
      /\ upload' = upload /\ w.open
  BY DEF Finish
<1>2. DOMAIN release[r] = RowFields /\ release[r].valid \in Validations
  BY DEF TypeInv, RowOK
<1> HIDE DEF w
<1>3. DOMAIN row = RowFields /\ row.records = w.records /\ row.status = "DRAFT" /\ row.valid = release[r].valid
  BY <1>2 DEF RowFields
<1> HIDE DEF row
<1>4. /\ release'[r] = IF w.errors THEN row ELSE Validate(row)
      /\ \A s \in Releases \ {r} : release'[s] = release[s] /\ session'[s] = session[s]
      /\ ~session'[r].open
  BY <1>1 DEF TypeInv, Closed
<1>5. Passes("expand_files", row.records, row.documents) => ExpandDirectories(row.records)
  BY DEF Passes, Standard
<1>6. CASE w.errors
  BY <1>1, <1>3, <1>4, <1>6 DEF w
<1>7. CASE ~w.errors
  BY <1>1, <1>2, <1>3, <1>4, <1>5, <1>7, Validates DEF w
<1> QED BY <1>6, <1>7

\* Every step keeps the invariant.
LEMMA NextFiles == ASSUME FilesInv, [Next]_vars PROVE FilesInv'
<1>1. TypeInv /\ TypeInv'
  BY NextTyped DEF FilesInv
<1> DEFINE Good(r) == /\ Unlisted(r, release[r].records)
                      /\ session[r].open => Unlisted(r, session[r].records)
                      /\ session[r].open /\ ~session[r].errors =>
                            AllKept(r, release[r].records, session[r].records)
<1>2. \A r \in Releases : Good(r)
  BY DEF FilesInv
<1>3. ASSUME UNCHANGED upload, NEW r \in Releases, Good(r)',
             \A s \in Releases \ {r} : release'[s] = release[s] /\ session'[s] = session[s]
      PROVE  FilesInv'
  <2>1. ASSUME NEW s \in Releases PROVE Good(s)'
    <3>1. CASE s # r
      BY <1>2, <1>3, <3>1 DEF AllKept, Unlisted
    <3> QED BY <1>3, <3>1
  <2> QED BY <1>1, <2>1 DEF FilesInv
<1>4. ASSUME NEW r \in Releases, Press(r) PROVE FilesInv'
  <2>1. /\ release'[r].records = release[r].records
        /\ session'[r].records = release[r].records /\ upload' = upload
        /\ \A s \in Releases \ {r} : release'[s] = release[s] /\ session'[s] = session[s]
    BY <1>1, <1>4 DEF Press, TypeInv, RowOK, RowFields
  <2>2. Good(r)'
    BY <1>2, <2>1 DEF AllKept, Keeps, Unlisted
  <2> QED BY <1>3, <2>1, <2>2
<1>5. ASSUME NEW r \in Releases, NEW check \in Fixable, Fix(r, check) PROVE FilesInv'
  <2>1. PICK v \in Fixes(check, session[r]) : session' = [session EXCEPT ![r] = [v EXCEPT !.todo = @ \ {check}]]
    BY <1>5 DEF Fix
  <2>2. UNCHANGED <<release, upload>> /\ check \in session[r].todo
    BY <1>5 DEF Fix
  <2>3. /\ session[r].open /\ DOMAIN session[r] = SessionFields /\ ContentOK(r, session[r])
        /\ session[r].errors \in BOOLEAN
    BY <1>1, <2>2 DEF TypeInv, WorkOK, Closed
  <2>4. /\ Unlisted(r, v.records)
        /\ ~v.errors => ~session[r].errors /\ AllKept(r, session[r].records, v.records)
    BY <1>2, <2>3, FixKeepsFiles
  <2>5. DOMAIN v = SessionFields
    BY <2>3, FixFrames DEF Frame
  <2>6. /\ session'[r].records = v.records /\ session'[r].errors = v.errors
        /\ \A s \in Releases \ {r} : session'[s] = session[s]
    BY <1>1, <2>1, <2>5 DEF TypeInv, SessionFields
  <2>7. ~v.errors => AllKept(r, release[r].records, v.records)
    BY <1>2, <2>3, <2>4 DEF AllKept, Keeps
  <2>8. Good(r)'
    BY <1>2, <2>2, <2>4, <2>6, <2>7 DEF AllKept, Unlisted
  <2> QED BY <1>3, <2>2, <2>6, <2>8
<1>6. ASSUME NEW r \in Releases, Finish(r) PROVE FilesInv'
  <2>1. /\ session[r].open /\ ~session'[r].open /\ upload' = upload
        /\ release'[r].records = session[r].records
        /\ \A s \in Releases \ {r} : release'[s] = release[s] /\ session'[s] = session[s]
    BY <1>1, <1>6, FinishMakes
  <2>2. Good(r)'
    BY <1>2, <2>1 DEF Unlisted
  <2> QED BY <1>3, <2>1, <2>2
<1>7. ASSUME NEW r \in Releases, NEW check \in Fixable, FixRaises(r, check) PROVE FilesInv'
  <2>1. /\ UNCHANGED <<release, upload>> /\ ~session'[r].open
        /\ \A s \in Releases \ {r} : session'[s] = session[s]
    BY <1>1, <1>7 DEF FixRaises, TypeInv, Closed
  <2>2. Good(r)'
    BY <1>2, <2>1 DEF Unlisted
  <2> QED BY <1>3, <2>1, <2>2
<1>8. ASSUME UNCHANGED <<release, session, upload>> PROVE FilesInv'
  BY <1>1, <1>2, <1>8 DEF FilesInv, AllKept, Unlisted
<1> QED BY <1>4, <1>5, <1>6, <1>7, <1>8 DEF Next, Register, UploadImage, vars

\* Only the end of a press makes a release READY, and then nothing is lost.
LEMMA StepKeepsFiles ==
    ASSUME FilesInv, "expand_files" \in Enabled, [Next]_vars, NEW s \in Releases,
           release[s].status = "EDITING", release'[s].status = "READY"
    PROVE  KeptFiles(release[s].records, release'[s].records)
<1>1. TypeInv
  BY DEF FilesInv
<1>2. ASSUME NEW r \in Releases, Press(r) PROVE FALSE
  BY <1>1, <1>2 DEF Press, TypeInv, RowOK, RowFields
<1>3. ASSUME NEW r \in Releases, Finish(r) PROVE KeptFiles(release[s].records, release'[s].records)
  <2>1. s = r
    BY <1>1, <1>3, FinishMakes
  <2>2. /\ session[s].open /\ release'[s].records = session[s].records /\ ~session[s].errors
        /\ ExpandDirectories(session[s].records)
    BY <1>1, <1>3, <2>1, FinishMakes
  <2>3. AllKept(s, release[s].records, session[s].records)
    BY <2>2 DEF FilesInv
  <2>4. DOMAIN release[s].records = DOMAIN upload[s] /\ DOMAIN session[s].records = DOMAIN upload[s]
    BY <1>1, <2>2 DEF TypeInv, RowOK, WorkOK, ContentOK
  <2>5. ASSUME NEW i \in DOMAIN upload[s]
        PROVE  Promised(release[s].records[i]) \subseteq UrisOf(session[s].records[i])
    <3>1. Wildcards(session[s].records[i]) = {}
      BY <2>2, <2>4 DEF ExpandDirectories
    <3>2. Promised(session[s].records[i]) \subseteq UrisOf(session[s].records[i])
      BY <3>1, NoWildcards
    <3> QED BY <2>3, <3>2 DEF AllKept, Keeps
  <2> QED BY <2>2, <2>4, <2>5 DEF KeptFiles
<1> QED BY <1>2, <1>3 DEF Next, Fix, FixRaises, Register, UploadImage, vars

(* A press that makes a release READY has lost none of the files that the    *)
(* release had or pointed to with its directories, whichever listing, disk   *)
(* or dataset failed in it (CheckExpandDirectories.fix, ValidFiles.fix and   *)
(* RucioDatasets.fix), when directories must be expanded.                    *)
THEOREM PressesKeepFilesAlways ==
    ASSUME "expand_files" \in Enabled
    PROVE  Spec => PressesKeepFiles
<1>1. Init => FilesInv
  BY InitFiles
<1>2. FilesInv /\ [Next]_vars => FilesInv'
  BY NextFiles
<1>3. FilesInv /\ [Next]_vars =>
        [\A r \in Releases :
            release[r].status = "EDITING" /\ release'[r].status = "READY"
                => KeptFiles(release[r].records, release'[r].records)]_vars
  BY StepKeepsFiles
<1> QED BY <1>1, <1>2, <1>3, PTL DEF Spec, PressesKeepFiles

-----------------------------------------------------------------------------
(* Three presses.                                                           *)

\* What the first press without error makes of the contents x, if check is enabled.
First(check, x) ==
    /\ check \in Standard => ExpectedFields(check, x.records, x.documents)
    /\ check = "recid" => \A i \in DOMAIN x.records : x.records[i].recid[1] = "exp"
    /\ check = "rucio" => RucioDatasets(x.records)
    /\ check = "slug" => \A i \in DOMAIN x.documents : x.documents[i].slug # "none"

\* What the second one makes of them, which depends on the registered PIDs.
Second(check, x) ==
    /\ check = "recid" => \A i \in DOMAIN x.records : ~Registered(x.records[i]) /\ ~Collides(x.records[i])
    /\ check = "doi" => ValidDoi(x.records)
    /\ check = "doc_links" => \A i \in DOMAIN x.documents :
            \A link \in BareLinks(x.documents[i]) : link[1] \notin Known(x.documents)

\* And the third one, which depends on the recids.
Third(check, x) == check = "cms_2016" => Related(x.records)

\* What the presses so far have done to the row,
RowDone(r) ==
    LET row == release[r] IN
    \A check \in Enabled \cap Fixable :
        /\ row.valid[check] => First(check, row)
        /\ presses[r] >= 1 => First(check, row) /\ (row.valid[check] => Second(check, row) /\ Third(check, row))
        /\ presses[r] >= 2 => Second(check, row)
        /\ presses[r] >= 3 => Third(check, row)

\* and what the fixes so far have done to the session.
WorkDone(r) ==
    LET w == session[r] IN
    \A check \in Enabled \cap Fixable :
        /\ release[r].valid[check] => First(check, w)
        /\ presses[r] >= 1 => First(check, w)
        /\ presses[r] >= 2 /\ check = "recid" => Second(check, w)
        /\ check \notin w.todo =>
            \/ w.errors
            \/ /\ First(check, w)
               /\ presses[r] >= 1 => Second(check, w)
               /\ presses[r] >= 2 => Third(check, w)

\* The inductive invariant.
EnoughInv ==
    /\ TypeInv
    /\ \A r \in Releases : RowDone(r) /\ (session[r].open => WorkDone(r))

\* After the third press everything is done.
LEMMA InvEnough == ASSUME EnoughInv PROVE FixIsEnough
<1> SUFFICES ASSUME NEW r \in Releases, presses[r] >= 3
             PROVE  Repaired(release[r].records, release[r].documents)
  BY DEF FixIsEnough, Enough
<1>1. presses[r] >= 1 /\ presses[r] >= 2
  <2>1. presses[r] \in Nat
    BY DEF EnoughInv, TypeInv
  <2> QED BY <2>1
<1>2. \A check \in Enabled \cap Fixable :
          First(check, release[r]) /\ Second(check, release[r]) /\ Third(check, release[r])
  BY <1>1 DEF EnoughInv, RowDone
<1>3. \A check \in Standard \cap Enabled : ExpectedFields(check, release[r].records, release[r].documents)
  BY <1>2 DEF First, Fixable
<1>4. "recid" \in Enabled => \A i \in DOMAIN release[r].records :
          /\ release[r].records[i].recid[1] = "exp"
          /\ ~Registered(release[r].records[i]) /\ ~Collides(release[r].records[i])
  BY <1>2 DEF First, Second, Fixable
<1>5. /\ "doi" \in Enabled => ValidDoi(release[r].records)
      /\ "cms_2016" \in Enabled => Related(release[r].records)
      /\ "rucio" \in Enabled => RucioDatasets(release[r].records)
  BY <1>2 DEF First, Second, Third, Fixable
<1>6. "doc_links" \in Enabled => \A i \in DOMAIN release[r].documents :
          \A link \in BareLinks(release[r].documents[i]) : link[1] \notin Known(release[r].documents)
  BY <1>2 DEF Second, Fixable
<1> QED BY <1>3, <1>4, <1>5, <1>6 DEF Repaired

\* A validation that passes leaves nothing to do.
LEMMA PassesDone ==
    ASSUME NEW check \in Fixable, NEW x, Passes(check, x.records, x.documents)
    PROVE  First(check, x) /\ Second(check, x) /\ Third(check, x)
<1>1. CASE check \in Standard
  BY <1>1 DEF Passes, First, Second, Third, Standard
<1>2. CASE check = "recid"
  BY <1>2 DEF Passes, ValidRecid, First, Second, Third, Standard
<1>3. CASE check = "doi"
  BY <1>3 DEF Passes, First, Second, Third, Standard
<1>4. CASE check = "cms_2016"
  BY <1>4 DEF Passes, First, Second, Third, Standard, ValidCms2016, Related
<1>5. CASE check = "rucio"
  BY <1>5 DEF Passes, First, Second, Third, Standard
<1>6. CASE check = "slug"
  BY <1>6 DEF Passes, First, Second, Third, Standard, ValidSlug
<1>7. CASE check = "doc_links"
  BY <1>7 DEF Passes, First, Second, Third, Standard, ValidDocLinks
<1>8. CASE check \in {"expand_files", "files"}
  BY <1>8 DEF First, Second, Third, Standard
<1> QED BY <1>1, <1>2, <1>3, <1>4, <1>5, <1>6, <1>7, <1>8 DEF Fixable

\* The columns of the records and of the documents.
RecordColumns == {"recid", "title", "described", "relation", "fields", "claims", "listed", "files",
                  "rucio", "doi", "schema"}

DocumentColumns == {"slug", "source", "fields", "links", "images", "schema"}

\* The columns that a fix does not write stay.
LEMMA Framed ==
    ASSUME NEW r, NEW w, ContentOK(r, w), NEW check, NEW v, Frame(check, w, v)
    PROVE  /\ DOMAIN v.records = DOMAIN w.records /\ DOMAIN v.documents = DOMAIN w.documents
           /\ \A i \in DOMAIN w.records : \A column \in RecordColumns \ RecordWrites(check) :
                  v.records[i][column] = w.records[i][column]
           /\ \A i \in DOMAIN w.documents : \A column \in DocumentColumns \ DocumentWrites(check) :
                  v.documents[i][column] = w.documents[i][column]
<1>1. \A i \in DOMAIN w.records : DOMAIN w.records[i] = RecordColumns
  <2>1. \A x \in Record : DOMAIN x = RecordColumns
    BY DEF Record, RecordColumns
  <2> QED BY <2>1 DEF ContentOK
<1>2. \A i \in DOMAIN w.documents : DOMAIN w.documents[i] = DocumentColumns
  <2>1. \A x \in Document : DOMAIN x = DocumentColumns
    BY DEF Document, DocumentColumns
  <2> QED BY <2>1 DEF ContentOK
<1> QED BY <1>1, <1>2 DEF Frame, SameBut

\* What the first press does is never undone.
LEMMA FirstKept ==
    ASSUME NEW r, NEW w, DOMAIN w = SessionFields, ContentOK(r, w), NEW check \in Fixable,
           NEW v \in Fixes(check, w), NEW c \in Fixable, First(c, w)
    PROVE  First(c, v)
<1>1. Frame(check, w, v)
  BY FixFrames
<1>2. /\ DOMAIN v.records = DOMAIN w.records /\ DOMAIN v.documents = DOMAIN w.documents
      /\ \A i \in DOMAIN w.records : \A column \in RecordColumns \ RecordWrites(check) :
             v.records[i][column] = w.records[i][column]
      /\ \A i \in DOMAIN w.documents : \A column \in DocumentColumns \ DocumentWrites(check) :
             v.documents[i][column] = w.documents[i][column]
  BY <1>1, Framed
<1>3. w.records \in [DOMAIN w.records -> Record] /\ w.documents \in [DOMAIN w.documents -> Document]
  BY DEF ContentOK
<1>4. CASE c \in Standard
  <2>1. ExpectedFields(c, w.records, w.documents)
    BY <1>4 DEF First
  <2>2. CASE check \in Standard
    <3>1. v = FixStandard(check, w)
      BY <2>2 DEF Fixes, Standard
    <3>2. \A i \in DOMAIN w.records : v.records[i].fields = w.records[i].fields \cup {check}
      BY <1>3, <3>1 DEF FixStandard, SessionFields, WithField, Record
    <3>3. check = "experiment" =>
              \A i \in DOMAIN w.documents : v.documents[i].fields = w.documents[i].fields \cup {check}
      BY <1>3, <3>1 DEF FixStandard, SessionFields, WithField, Document
    <3>4. check # "experiment" => v.documents = w.documents
      BY <3>1 DEF FixStandard, SessionFields
    <3>5. ExpectedFields(c, v.records, v.documents)
      BY <1>2, <2>1, <3>2, <3>3, <3>4 DEF ExpectedFields
    <3> QED BY <1>4, <3>5 DEF First, Standard
  <2>3. CASE check \notin Standard
    <3>1. "fields" \in RecordColumns \ RecordWrites(check) /\ "fields" \in DocumentColumns \ DocumentWrites(check)
      BY <2>3 DEF RecordColumns, DocumentColumns, RecordWrites, DocumentWrites, Standard, Fixable
    <3>2. /\ \A i \in DOMAIN w.records : v.records[i].fields = w.records[i].fields
          /\ \A i \in DOMAIN w.documents : v.documents[i].fields = w.documents[i].fields
      BY <1>2, <3>1
    <3>3. ExpectedFields(c, v.records, v.documents)
      BY <1>2, <2>1, <3>2 DEF ExpectedFields
    <3> QED BY <1>4, <3>3 DEF First, Standard
  <2> QED BY <2>2, <2>3
<1>5. CASE c = "recid"
  <2>1. CASE check = "recid"
    <3>1. v = FixRecid(w)
      BY <2>1 DEF Fixes, Standard
    <3>2. \A i \in DOMAIN w.records : v.records[i].recid[1] = "exp"
      BY <1>3, <3>1 DEF FixRecid, Renumbered, SessionFields, Record
    <3> QED BY <1>2, <1>5, <3>2 DEF First, Standard
  <2>2. CASE check # "recid"
    <3>1. "recid" \in RecordColumns \ RecordWrites(check)
      BY <2>2 DEF RecordColumns, RecordWrites, Standard, Fixable
    <3>2. \A i \in DOMAIN w.records : v.records[i].recid = w.records[i].recid
      BY <1>2, <3>1
    <3> QED BY <1>2, <1>5, <3>2 DEF First, Standard
  <2> QED BY <2>1, <2>2
<1>6. CASE c = "rucio"
  <2>1. \A i \in DOMAIN w.records : Listed(w.records[i])
    BY <1>6 DEF First, RucioDatasets
  <2>2. CASE check = "rucio"
    <3>1. v = FixRucio(w)
      BY <2>2 DEF Fixes, Standard
    <3>2. \A i \in DOMAIN w.records : v.records[i] = w.records[i]
      BY <2>1, <3>1 DEF FixRucio, SessionFields
    <3> QED BY <1>2, <1>6, <2>1, <3>2 DEF First, Standard, RucioDatasets
  <2>3. CASE check # "rucio"
    <3>1. {"rucio", "listed"} \subseteq RecordColumns \ RecordWrites(check)
      BY <2>3 DEF RecordColumns, RecordWrites, Standard, Fixable
    <3>2. \A i \in DOMAIN w.records :
              v.records[i].rucio = w.records[i].rucio /\ v.records[i].listed = w.records[i].listed
      BY <1>2, <3>1
    <3>3. \A i \in DOMAIN w.records : Listed(v.records[i])
      BY <2>1, <3>2 DEF Listed
    <3> QED BY <1>2, <1>6, <3>3 DEF First, Standard, RucioDatasets
  <2> QED BY <2>2, <2>3
<1>7. CASE c = "slug"
  <2>1. \A i \in DOMAIN w.documents : w.documents[i].slug # "none"
    BY <1>7 DEF First
  <2>2. \A i \in DOMAIN w.documents : v.documents[i].slug = w.documents[i].slug
    <3>1. CASE check = "slug"
      <4> DEFINE new == [i \in DOMAIN w.documents |-> Slugged(w.documents[i])]
                 u == [w EXCEPT !.documents = new]
      <4>1. PICK b : v = Fails(u, b)
        BY <3>1 DEF Fixes, FixSlug, Standard
      <4>2. DOMAIN u = SessionFields /\ u.documents = new
        BY DEF SessionFields
      <4> HIDE DEF u
      <4>3. v.documents = new
        BY <4>1, <4>2, FailsSays
      <4>4. \A i \in DOMAIN w.documents : Slugged(w.documents[i]).slug = w.documents[i].slug
        BY <1>3, <2>1 DEF Slugged, Document
      <4> QED BY <4>3, <4>4
    <3>2. CASE check # "slug"
      <4>1. "slug" \in DocumentColumns \ DocumentWrites(check)
        BY <3>2 DEF DocumentColumns, DocumentWrites, Standard, Fixable
      <4> QED BY <1>2, <4>1
    <3> QED BY <3>1, <3>2
  <2> QED BY <1>2, <1>7, <2>1, <2>2 DEF First, Standard
<1>8. CASE c \notin Standard \cup {"recid", "rucio", "slug"}
  BY <1>8 DEF First
<1> QED BY <1>4, <1>5, <1>6, <1>7, <1>8

\* The first press does it, or says that it failed.
LEMMA FirstFixed ==
    ASSUME NEW r, NEW w, DOMAIN w = SessionFields, ContentOK(r, w), NEW check \in Fixable,
           NEW v \in Fixes(check, w)
    PROVE  v.errors \/ First(check, v)
<1>1. w.records \in [DOMAIN w.records -> Record] /\ w.documents \in [DOMAIN w.documents -> Document]
  BY DEF ContentOK
<1>2. CASE check \in Standard
  <2>1. v = FixStandard(check, w)
    BY <1>2 DEF Fixes, Standard
  <2>2. /\ DOMAIN v.records = DOMAIN w.records
        /\ \A i \in DOMAIN w.records : v.records[i].fields = w.records[i].fields \cup {check}
    BY <1>1, <2>1 DEF FixStandard, SessionFields, WithField, Record
  <2>3. check = "experiment" =>
            /\ DOMAIN v.documents = DOMAIN w.documents
            /\ \A i \in DOMAIN w.documents : v.documents[i].fields = w.documents[i].fields \cup {check}
    BY <1>1, <2>1 DEF FixStandard, SessionFields, WithField, Document
  <2>4. ExpectedFields(check, v.records, v.documents)
    BY <2>2, <2>3 DEF ExpectedFields
  <2> QED BY <1>2, <2>4 DEF First, Standard
<1>3. CASE check = "recid"
  <2>1. v = FixRecid(w)
    BY <1>3 DEF Fixes, Standard
  <2>2. \A i \in DOMAIN v.records : v.records[i].recid[1] = "exp"
    BY <1>1, <2>1 DEF FixRecid, Renumbered, SessionFields, Record
  <2> QED BY <1>3, <2>2 DEF First, Standard
<1>4. CASE check = "rucio"
  <2>1. v = FixRucio(w)
    BY <1>4 DEF Fixes, Standard
  <2>2. \A x \in Record : Listed([x EXCEPT !.title = DidTitle[x.rucio], !.described = NoTitle, !.listed = TRUE,
                                       !.claims = DidFiles[x.rucio] # {},
                                       !.files = DidFiles[x.rucio] \X {"whole"}])
    BY DEF Listed, Record
  <2>3. \A i \in DOMAIN v.records : Listed(v.records[i])
    BY <1>1, <2>1, <2>2 DEF FixRucio, SessionFields
  <2> QED BY <1>4, <2>3 DEF First, Standard, RucioDatasets
<1>5. CASE check = "slug"
  <2> DEFINE new == [i \in DOMAIN w.documents |-> Slugged(w.documents[i])]
             u == [w EXCEPT !.documents = new]
             b == \E i \in DOMAIN w.documents : Slugged(w.documents[i]).slug = "none"
  <2>1. v = Fails(u, b)
    BY <1>5 DEF Fixes, FixSlug, Standard
  <2>2. DOMAIN u = SessionFields /\ u.documents = new
    BY DEF SessionFields
  <2> HIDE DEF u
  <2>3. v.documents = new /\ (b => v.errors)
    BY <2>1, <2>2, FailsSays
  <2>4. ~b => \A i \in DOMAIN new : new[i].slug # "none"
    OBVIOUS
  <2> HIDE DEF new, b
  <2> QED BY <1>5, <2>3, <2>4 DEF First, Standard
<1>6. CASE check \notin Standard \cup {"recid", "rucio", "slug"}
  BY <1>6 DEF First
<1> QED BY <1>2, <1>3, <1>4, <1>5, <1>6

\* Records with the same titles and recids have the same partners.
LEMMA RelatedSame ==
    ASSUME NEW n \in Nat, NEW old \in [1..n -> Record], NEW new, DOMAIN new = 1..n,
           \A i \in 1..n : new[i].title = old[i].title /\ new[i].recid = old[i].recid,
           NEW i \in 1..n
    PROVE  /\ Partners(new, i) = Partners(old, i)
           /\ Partners(old, i) # {} => Partner(new, i).recid = Partner(old, i).recid
<1>1. Partners(new, i) = Partners(old, i)
  BY DEF Partners
<1>2. Partners(old, i) # {} => Min(Partners(old, i)) \in 1..n
  BY PartnerTyped
<1> QED BY <1>1, <1>2 DEF Partner

\* Numbers that need no change get none.
LEMMA RecidSettled ==
    ASSUME NEW w, DOMAIN w = SessionFields, NEW r, ContentOK(r, w), First("recid", w), Second("recid", w),
           NEW i \in DOMAIN w.records
    PROVE  FixRecid(w).records[i].recid = w.records[i].recid
<1> DEFINE x == w.records[i]
<1>1. x \in Record
  BY DEF ContentOK
<1>2. ~Renumber(x) /\ x.recid[1] = "exp"
  BY DEF First, Second, Renumber
<1>3. FixRecid(w).records[i].recid = <<"exp", x.recid[2]>>
  BY <1>1, <1>2 DEF FixRecid, Renumbered, SessionFields, Record
<1>4. x.recid = <<"exp", x.recid[2]>>
  BY <1>1, <1>2 DEF Record
<1> QED BY <1>3, <1>4

\* The numbers of a fix are not taken.
LEMMA RecidFree ==
    ASSUME TypeInv, NEW r \in Releases, NEW w, DOMAIN w = SessionFields, ContentOK(r, w),
           First("recid", w)
    PROVE  Second("recid", FixRecid(w))
<1> DEFINE start == NextRecidStart(w)
           before(i) == {j \in DOMAIN w.records : j < i /\ Renumber(w.records[j])}
           v == FixRecid(w)
<1>1. PICK n \in Nat : DOMAIN upload[r] = 1..n
  BY DEF TypeInv, UploadsOK
<1>2. DOMAIN w.records = 1..n /\ w.max_recid \in Nat /\ \A i \in 1..n : w.records[i] \in Record
  BY <1>1 DEF ContentOK
<1>3. start \in Nat /\ \A pid \in pids.recid : pid[1] \in {"exp", "plain"} => start > pid[2]
  <2>1. \A s \in Releases : release[s].max_recid \in Nat
    BY DEF TypeInv, RowOK, ContentOK
  <2>2. start \in Nat /\ \A number \in PidNumbers : start > number
    BY <1>2, <2>1, StartIsAbove DEF TypeInv
  <2> HIDE DEF start
  <2> QED BY <2>2 DEF PidNumbers
<1>4. \A i \in 1..n : Cardinality(before(i)) \in Nat
  <2>1. \A i \in 1..n : before(i) \subseteq 1..n
    BY <1>2
  <2> HIDE DEF before
  <2>2. IsFiniteSet(1..n)
    BY FS_Interval
  <2>3. \A i \in 1..n : IsFiniteSet(before(i))
    BY <2>1, <2>2, FS_Subset
  <2> QED BY <2>3, FS_CardinalityType
<1>5. /\ DOMAIN v.records = 1..n
      /\ \A i \in 1..n : v.records[i].recid =
            <<"exp", IF Renumber(w.records[i]) THEN start + Cardinality(before(i)) ELSE w.records[i].recid[2]>>
  BY <1>2 DEF FixRecid, Renumbered, SessionFields, Record
<1> HIDE DEF start, before, v
<1>6. ASSUME NEW i \in 1..n PROVE ~Registered(v.records[i]) /\ ~Collides(v.records[i])
  <2>1. CASE Renumber(w.records[i])
    <3> DEFINE k == start + Cardinality(before(i))
    <3>1. v.records[i].recid = <<"exp", k>>
      BY <1>5, <2>1
    <3>2. ~(start > k)
      BY <1>3, <1>4
    <3> HIDE DEF k
    <3>3. <<"exp", k>> \notin pids.recid /\ <<"plain", k>> \notin pids.recid
      BY <1>3, <3>2
    <3> QED BY <3>1, <3>3 DEF Registered, Collides
  <2>2. CASE ~Renumber(w.records[i])
    <3>1. w.records[i].recid[1] = "exp"
      BY <1>2 DEF First
    <3>2. w.records[i].recid = <<"exp", w.records[i].recid[2]>>
      BY <1>2, <3>1 DEF Record
    <3>3. v.records[i].recid = w.records[i].recid
      BY <1>5, <2>2, <3>2
    <3> QED BY <2>2, <3>3 DEF Renumber, Registered, Collides
  <2> QED BY <2>1, <2>2
<1> QED BY <1>5, <1>6 DEF Second, v

\* The second press does what it should on top of the first, or says that it failed.
LEMMA SecondFixed ==
    ASSUME TypeInv, NEW r \in Releases, NEW w, DOMAIN w = SessionFields, ContentOK(r, w),
           NEW check \in Fixable, NEW v \in Fixes(check, w), First(check, w)
    PROVE  v.errors \/ Second(check, v)
<1>1. CASE check = "recid"
  BY <1>1, RecidFree DEF Fixes, Standard
<1>2. CASE check = "doi"
  <2>1. PICK fresh : v = Fails([w EXCEPT !.records = Replaced(w.records, fresh)],
                               ~ValidDoi(Replaced(w.records, fresh)))
    BY <1>2 DEF Fixes, FixDoi, Standard
  <2> DEFINE u == [w EXCEPT !.records = Replaced(w.records, fresh)]
  <2>2. DOMAIN u = SessionFields /\ u.records = Replaced(w.records, fresh)
    BY DEF SessionFields
  <2> HIDE DEF u
  <2>3. v = Fails(u, ~ValidDoi(Replaced(w.records, fresh)))
    BY <2>1 DEF u
  <2>4. v.records = Replaced(w.records, fresh) /\ (~ValidDoi(Replaced(w.records, fresh)) => v.errors)
    BY <2>2, <2>3, FailsSays
  <2> QED BY <1>2, <2>4 DEF Second
<1>3. CASE check = "doc_links"
  <2>1. v = FixDocLinks(w)
    BY <1>3 DEF Fixes, Standard
  <2> DEFINE known == Known(w.documents)
  <2>2. w.documents \in [DOMAIN w.documents -> Document]
    BY DEF ContentOK
  <2>3. v.documents = [i \in DOMAIN w.documents |-> Rewritten(w.documents[i], known)]
    BY <2>1 DEF FixDocLinks, SessionFields
  <2>4. ASSUME NEW doc \in Document
        PROVE  /\ Rewritten(doc, known).slug = doc.slug
               /\ \A link \in BareLinks(Rewritten(doc, known)) : link[1] \notin known
    <3> DEFINE links == {IF link[1] \in known THEN <<link[1], "absolute">> ELSE link : link \in doc.links}
    <3>1. Rewritten(doc, known).slug = doc.slug /\ Rewritten(doc, known).links = links
      BY DEF Rewritten, Document
    <3>2. ASSUME NEW link \in links, link[2] = "bare" PROVE link[1] \notin known
      BY <3>2
    <3> HIDE DEF links, known
    <3> QED BY <3>1, <3>2 DEF BareLinks
  <2>5. /\ DOMAIN v.documents = DOMAIN w.documents
        /\ \A i \in DOMAIN w.documents : v.documents[i].slug = w.documents[i].slug
    BY <2>2, <2>3, <2>4
  <2>6. Known(v.documents) = known
    BY <2>5 DEF Known, ReleaseSlugs
  <2> HIDE DEF known
  <2> QED BY <1>3, <2>2, <2>3, <2>4, <2>5, <2>6 DEF Second
<1>4. CASE check \notin {"recid", "doi", "doc_links"}
  BY <1>4 DEF Second
<1> QED BY <1>1, <1>2, <1>3, <1>4

\* Once the slugs are given, no other fix undoes it.
LEMMA SecondKept ==
    ASSUME NEW r, NEW w, DOMAIN w = SessionFields, ContentOK(r, w), NEW check \in Fixable,
           NEW v \in Fixes(check, w), First(check, w), NEW c \in Fixable \ {check}, Second(c, w)
    PROVE  Second(c, v)
<1>1. Frame(check, w, v)
  BY FixFrames
<1>2. /\ DOMAIN v.records = DOMAIN w.records /\ DOMAIN v.documents = DOMAIN w.documents
      /\ \A i \in DOMAIN w.records : \A column \in RecordColumns \ RecordWrites(check) :
             v.records[i][column] = w.records[i][column]
      /\ \A i \in DOMAIN w.documents : \A column \in DocumentColumns \ DocumentWrites(check) :
             v.documents[i][column] = w.documents[i][column]
  BY <1>1, Framed
<1>3. CASE c = "recid"
  <2>1. "recid" \in RecordColumns \ RecordWrites(check)
    BY <1>3 DEF RecordColumns, RecordWrites, Standard, Fixable
  <2>2. \A i \in DOMAIN w.records : v.records[i].recid = w.records[i].recid
    BY <1>2, <2>1
  <2>3. \A i \in DOMAIN w.records :
            (Registered(v.records[i]) <=> Registered(w.records[i])) /\ (Collides(v.records[i]) <=> Collides(w.records[i]))
    BY <2>2 DEF Registered, Collides
  <2> QED BY <1>2, <1>3, <2>3 DEF Second
<1>4. CASE c = "doi"
  <2>1. "doi" \in RecordColumns \ RecordWrites(check)
    BY <1>4 DEF RecordColumns, RecordWrites, Standard, Fixable
  <2>2. \A i \in DOMAIN w.records : v.records[i].doi = w.records[i].doi
    BY <1>2, <2>1
  <2>3. ValidDoi(w.records)
    BY <1>4 DEF Second
  <2>4. ValidDoi(v.records)
    BY <1>2, <2>2, <2>3 DEF ValidDoi
  <2> QED BY <1>4, <2>4 DEF Second
<1>5. CASE c = "doc_links"
  <2>1. "links" \in DocumentColumns \ DocumentWrites(check)
    BY <1>5 DEF DocumentColumns, DocumentWrites, Standard, Fixable
  <2>2. \A i \in DOMAIN w.documents : v.documents[i].links = w.documents[i].links
    BY <1>2, <2>1
  <2>3. \A i \in DOMAIN w.documents : v.documents[i].slug = w.documents[i].slug
    <3>1. CASE check = "slug"
      <4> DEFINE new == [i \in DOMAIN w.documents |-> Slugged(w.documents[i])]
                 u == [w EXCEPT !.documents = new]
      <4>1. PICK b : v = Fails(u, b)
        BY <3>1 DEF Fixes, FixSlug, Standard
      <4>2. DOMAIN u = SessionFields /\ u.documents = new
        BY DEF SessionFields
      <4> HIDE DEF u
      <4>3. v.documents = new
        BY <4>1, <4>2, FailsSays
      <4>4. \A i \in DOMAIN w.documents : w.documents[i].slug # "none" /\ w.documents[i] \in Document
        BY <3>1 DEF First, ContentOK
      <4>5. \A i \in DOMAIN w.documents : Slugged(w.documents[i]).slug = w.documents[i].slug
        BY <4>4 DEF Slugged, Document
      <4> QED BY <4>3, <4>5
    <3>2. CASE check # "slug"
      <4>1. "slug" \in DocumentColumns \ DocumentWrites(check)
        BY <3>2 DEF DocumentColumns, DocumentWrites, Standard, Fixable
      <4> QED BY <1>2, <4>1
    <3> QED BY <3>1, <3>2
  <2>4. Known(v.documents) = Known(w.documents)
    BY <1>2, <2>3 DEF Known, ReleaseSlugs
  <2>5. \A i \in DOMAIN w.documents : BareLinks(v.documents[i]) = BareLinks(w.documents[i])
    BY <2>2 DEF BareLinks
  <2> QED BY <1>2, <1>5, <2>4, <2>5 DEF Second
<1>6. CASE c \notin {"recid", "doi", "doc_links"}
  BY <1>6 DEF Second
<1> QED BY <1>3, <1>4, <1>5, <1>6

\* Once datasets are listed and numbers are settled, neither titles nor recids change.
LEMMA TitlesSettled ==
    ASSUME NEW r, NEW w, DOMAIN w = SessionFields, ContentOK(r, w), NEW check \in Fixable,
           NEW v \in Fixes(check, w), First(check, w), check = "recid" => Second("recid", w)
    PROVE  \A i \in DOMAIN w.records :
               v.records[i].title = w.records[i].title /\ v.records[i].recid = w.records[i].recid
<1>1. Frame(check, w, v)
  BY FixFrames
<1>2. \A i \in DOMAIN w.records : \A column \in RecordColumns \ RecordWrites(check) :
          v.records[i][column] = w.records[i][column]
  BY <1>1, Framed
<1>3. CASE check = "rucio"
  <2>1. v = FixRucio(w) /\ \A i \in DOMAIN w.records : Listed(w.records[i])
    BY <1>3 DEF Fixes, Standard, First, RucioDatasets
  <2> QED BY <2>1 DEF FixRucio, SessionFields
<1>4. CASE check = "recid"
  <2>1. v = FixRecid(w)
    BY <1>4 DEF Fixes, Standard
  <2>2. "title" \in RecordColumns \ RecordWrites(check)
    BY <1>4 DEF RecordColumns, RecordWrites, Standard, Fixable
  <2>3. \A i \in DOMAIN w.records : v.records[i].title = w.records[i].title
    BY <1>2, <2>2
  <2>4. \A i \in DOMAIN w.records : v.records[i].recid = w.records[i].recid
    BY <1>4, <2>1, RecidSettled
  <2> QED BY <2>3, <2>4
<1>5. CASE check \notin {"rucio", "recid"}
  <2>1. {"title", "recid"} \subseteq RecordColumns \ RecordWrites(check)
    BY <1>5 DEF RecordColumns, RecordWrites, Standard, Fixable
  <2> QED BY <1>2, <2>1
<1> QED BY <1>3, <1>4, <1>5

\* Then relations stay right once they are.
LEMMA RelatedKept ==
    ASSUME NEW r, upload[r] \in Seq(Record), NEW w, DOMAIN w = SessionFields, ContentOK(r, w), NEW check \in Fixable,
           NEW v \in Fixes(check, w), First(check, w), check = "recid" => Second("recid", w),
           check = "cms_2016" \/ Related(w.records)
    PROVE  Related(v.records)
<1>1. Frame(check, w, v)
  BY FixFrames
<1>2. /\ DOMAIN v.records = DOMAIN w.records
      /\ \A i \in DOMAIN w.records : \A column \in RecordColumns \ RecordWrites(check) :
             v.records[i][column] = w.records[i][column]
  BY <1>1, Framed
<1>3. PICK n \in Nat : DOMAIN w.records = 1..n /\ w.records \in [1..n -> Record]
  BY DEF ContentOK
<1>4. \A i \in 1..n : v.records[i].title = w.records[i].title /\ v.records[i].recid = w.records[i].recid
  BY <1>3, TitlesSettled
<1>5. \A i \in 1..n : /\ Partners(v.records, i) = Partners(w.records, i)
                      /\ Partners(w.records, i) # {} => Partner(v.records, i).recid = Partner(w.records, i).recid
  BY <1>2, <1>3, <1>4, RelatedSame
<1>6. CASE check = "cms_2016"
  <2> DEFINE new == [i \in DOMAIN w.records |-> Described(w.records, i)]
             u == [w EXCEPT !.records = new]
  <2>1. PICK b : v = Fails(u, b)
    BY <1>6 DEF Fixes, FixCms2016, Standard
  <2>2. DOMAIN u = SessionFields /\ u.records = new
    BY DEF SessionFields
  <2> HIDE DEF u
  <2>3. v.records = new
    BY <2>1, <2>2, FailsSays
  <2>4. ASSUME NEW i \in 1..n, Partners(w.records, i) # {}
        PROVE  /\ v.records[i].relation = Partner(w.records, i).recid
               /\ v.records[i].described = w.records[i].title
    <3> DEFINE relation == Partner(w.records, i).recid
    <3>1. w.records[i] \in Record
      BY <1>3
    <3>2. v.records[i] = Described(w.records, i)
      BY <1>3, <2>3
    <3>3. Described(w.records, i) = [w.records[i] EXCEPT !.described = w.records[i].title, !.relation = relation]
      BY <2>4 DEF Described
    <3> HIDE DEF relation
    <3>4. /\ Described(w.records, i).relation = relation
          /\ Described(w.records, i).described = w.records[i].title
      BY <3>1, <3>3 DEF Record
    <3> QED BY <3>2, <3>4 DEF relation
  <2> HIDE DEF new
  <2> QED BY <1>2, <1>3, <1>4, <1>5, <2>4 DEF Related
<1>7. CASE check # "cms_2016" /\ check # "rucio"
  <2>1. {"described", "relation"} \subseteq RecordColumns \ RecordWrites(check)
    BY <1>7 DEF RecordColumns, RecordWrites, Standard, Fixable
  <2>2. \A i \in 1..n : /\ v.records[i].described = w.records[i].described
                        /\ v.records[i].relation = w.records[i].relation
    BY <1>2, <1>3, <2>1
  <2>3. Related(w.records)
    BY <1>7
  <2> QED BY <1>2, <1>3, <1>4, <1>5, <2>2, <2>3 DEF Related
<1>8. CASE check = "rucio"
  <2>1. v = FixRucio(w) /\ \A i \in DOMAIN w.records : Listed(w.records[i])
    BY <1>8 DEF Fixes, Standard, First, RucioDatasets
  <2>2. \A i \in DOMAIN w.records : v.records[i] = w.records[i]
    BY <2>1 DEF FixRucio, SessionFields
  <2>3. Related(w.records)
    BY <1>8
  <2> QED BY <1>2, <1>3, <1>5, <2>2, <2>3 DEF Related
<1> QED BY <1>6, <1>7, <1>8

\* What a fix leaves of the work of the others, and what it adds.
LEMMA WorkGoesOn ==
    ASSUME TypeInv, NEW r \in Releases, WorkDone(r), session[r].open,
           NEW check \in Enabled \cap Fixable, NEW v \in Fixes(check, session[r]),
           NEW c \in Enabled \cap Fixable
    PROVE  /\ release[r].valid[c] => First(c, v)
           /\ presses[r] >= 1 => First(c, v)
           /\ presses[r] >= 2 /\ c = "recid" => Second(c, v)
           /\ c \notin session[r].todo \ {check} =>
                \/ v.errors
                \/ /\ First(c, v)
                   /\ presses[r] >= 1 => Second(c, v)
                   /\ presses[r] >= 2 => Third(c, v)
<1> DEFINE w == session[r]
<1>1. DOMAIN w = SessionFields /\ ContentOK(r, w) /\ presses[r] \in Nat /\ upload[r] \in Seq(Record)
  BY DEF TypeInv, WorkOK, UploadsOK
<1>2. \A d \in Enabled \cap Fixable :
        /\ release[r].valid[d] => First(d, w)
        /\ presses[r] >= 1 => First(d, w)
        /\ presses[r] >= 2 /\ d = "recid" => Second(d, w)
        /\ d \notin w.todo =>
            \/ w.errors
            \/ /\ First(d, w)
               /\ presses[r] >= 1 => Second(d, w)
               /\ presses[r] >= 2 => Third(d, w)
  BY DEF WorkDone
<1>3. w.errors => v.errors
  BY <1>1, FixFrames DEF Frame
<1>4. presses[r] >= 2 => presses[r] >= 1
  BY <1>1
<1> HIDE DEF w
<1>5. v \in Fixes(check, w)
  BY DEF w
<1>6. First(c, w) => First(c, v)
  BY <1>1, <1>5, FirstKept
<1>7. presses[r] >= 2 /\ c = "recid" => Second(c, v)
  <2> SUFFICES ASSUME presses[r] >= 2, c = "recid" PROVE Second(c, v)
    OBVIOUS
  <2>1. First(check, w) /\ First(c, w) /\ Second(c, w)
    BY <1>2, <1>4
  <2>2. CASE check = c
    <3>1. v = FixRecid(w)
      BY <1>5, <2>2 DEF Fixes, Standard
    <3> QED BY <1>1, <2>1, <3>1, RecidFree
  <2>3. CASE check # c
    BY <1>1, <1>5, <2>1, <2>3, SecondKept
  <2> QED BY <2>2, <2>3
<1>8. ASSUME c \notin w.todo \ {check}, ~v.errors PROVE First(c, v)
  <2>1. CASE c = check
    BY <1>1, <1>5, <1>8, <2>1, FirstFixed
  <2>2. CASE c # check
    BY <1>2, <1>3, <1>6, <1>8, <2>2
  <2> QED BY <2>1, <2>2
<1>9. ASSUME c \notin w.todo \ {check}, ~v.errors, presses[r] >= 1 PROVE Second(c, v)
  <2>1. First(check, w)
    BY <1>2, <1>9
  <2>2. CASE c = check
    BY <1>1, <1>5, <1>9, <2>1, <2>2, SecondFixed
  <2>3. CASE c # check
    <3>1. Second(c, w)
      BY <1>2, <1>3, <1>9, <2>3
    <3> QED BY <1>1, <1>5, <2>1, <2>3, <3>1, SecondKept
  <2> QED BY <2>2, <2>3
<1>10. ASSUME c \notin w.todo \ {check}, ~v.errors, presses[r] >= 2, c = "cms_2016" PROVE Related(v.records)
  <2>1. First(check, w) /\ (check = "recid" => Second("recid", w))
    BY <1>2, <1>4, <1>10
  <2>2. check = "cms_2016" \/ Related(w.records)
    BY <1>2, <1>3, <1>10 DEF Third
  <2> QED BY <1>1, <1>5, <2>1, <2>2, RelatedKept
<1> QED BY <1>2, <1>4, <1>6, <1>7, <1>8, <1>9, <1>10 DEF w, Third

\* A step that only looks at the release r.
LEMMA StepEnough ==
    ASSUME EnoughInv, TypeInv', UNCHANGED <<pids, upload>>, NEW r \in Releases,
           \A s \in Releases \ {r} :
               release'[s] = release[s] /\ session'[s] = session[s] /\ presses'[s] = presses[s],
           RowDone(r)', (session[r].open => WorkDone(r))'
    PROVE  EnoughInv'
<1>1. ASSUME NEW s \in Releases \ {r} PROVE (RowDone(s) /\ (session[s].open => WorkDone(s)))'
  <2>1. \A check, x : /\ First(check, x)' <=> First(check, x)
                      /\ Second(check, x)' <=> Second(check, x)
                      /\ Third(check, x)' <=> Third(check, x)
    BY DEF First, Second, Third, ExpectedFields, RucioDatasets, Listed, Registered, Collides,
           ValidDoi, BareLinks, Known, ReleaseSlugs, Related, Partners, Partner, Min
  <2>2. RowDone(s) /\ (session[s].open => WorkDone(s))
    BY DEF EnoughInv
  <2> QED BY <2>1, <2>2 DEF RowDone, WorkDone
<1> QED BY <1>1 DEF EnoughInv

\* The validations of a new release say what is done.
LEMMA InitEnough == ASSUME Init PROVE EnoughInv
<1>1. TypeInv /\ \A r \in Releases : ~session[r].open /\ presses[r] = 0
  BY InitTyped DEF Init, Closed
<1>2. PICK u \in [Releases -> UNION {Uploads[r] : r \in Releases}] :
        release = [r \in Releases |->
              Validate([status |-> "DRAFT", records |-> u[r].records, documents |-> u[r].documents,
                        valid |-> NewValidations, max_recid |-> 0, errors |-> FALSE])]
  BY DEF Init
<1>3. ASSUME NEW r \in Releases, NEW check \in Enabled \cap Fixable, release[r].valid[check]
      PROVE  First(check, release[r])
  <2> DEFINE row == [status |-> "DRAFT", records |-> u[r].records, documents |-> u[r].documents,
                     valid |-> NewValidations, max_recid |-> 0, errors |-> FALSE]
  <2>1. DOMAIN row = RowFields /\ row.valid \in Validations
    BY DEF RowFields, Validations, NewValidations
  <2>2. release[r] = Validate(row)
    BY <1>2
  <2> HIDE DEF row
  <2>3. /\ release[r].records = row.records /\ release[r].documents = row.documents
        /\ Passes(check, row.records, row.documents)
    BY <1>3, <2>1, <2>2, Validates
  <2> QED BY <2>3, PassesDone
<1>4. ~(0 >= 1) /\ ~(0 >= 2) /\ ~(0 >= 3)
  OBVIOUS
<1> QED BY <1>1, <1>3, <1>4 DEF EnoughInv, RowDone

\* The definitions only read the columns of the contents.
LEMMA SameContents ==
    ASSUME NEW check, NEW x, NEW y, y.records = x.records, y.documents = x.documents
    PROVE  /\ First(check, y) <=> First(check, x)
           /\ Second(check, y) <=> Second(check, x)
           /\ Third(check, y) <=> Third(check, x)
BY DEF First, Second, Third

\* A press begins with what the last one left.
LEMMA PressEnough == ASSUME EnoughInv, NEW r \in Releases, Press(r) PROVE EnoughInv'
<1>1. TypeInv /\ TypeInv'
  BY PressTyped DEF EnoughInv
<1>2. /\ UNCHANGED <<pids, upload, presses>> /\ presses[r] \in Nat
      /\ release'[r] = [release[r] EXCEPT !.status = "EDITING"]
      /\ session'[r] = [open |-> TRUE, records |-> release[r].records, documents |-> release[r].documents,
                        max_recid |-> release[r].max_recid, errors |-> FALSE,
                        todo |-> {c \in Enabled \cap Fixable : ~release[r].valid[c]}]
      /\ \A s \in Releases \ {r} : release'[s] = release[s] /\ session'[s] = session[s]
  BY <1>1 DEF Press, TypeInv
<1>3. /\ release'[r].records = release[r].records /\ release'[r].documents = release[r].documents
      /\ release'[r].valid = release[r].valid
      /\ session'[r].records = release[r].records /\ session'[r].documents = release[r].documents
      /\ \A c \in Enabled \cap Fixable : c \notin session'[r].todo => release[r].valid[c]
  BY <1>1, <1>2 DEF TypeInv, RowOK, RowFields
<1>4. RowDone(r)
  BY DEF EnoughInv
<1>5. ASSUME NEW c
      PROVE  /\ First(c, release[r])' <=> First(c, release[r])
             /\ Second(c, release[r])' <=> Second(c, release[r])
             /\ Third(c, release[r])' <=> Third(c, release[r])
  BY <1>2, <1>3 DEF First, Second, Third, ExpectedFields, RucioDatasets, Listed, Registered, Collides,
       ValidDoi, BareLinks, Known, ReleaseSlugs, Related, Partners, Partner, Min
<1>6. ASSUME NEW c
      PROVE  /\ First(c, session[r])' <=> First(c, release[r])
             /\ Second(c, session[r])' <=> Second(c, release[r])
             /\ Third(c, session[r])' <=> Third(c, release[r])
  BY <1>2, <1>3 DEF First, Second, Third, ExpectedFields, RucioDatasets, Listed, Registered, Collides,
       ValidDoi, BareLinks, Known, ReleaseSlugs, Related, Partners, Partner, Min
<1>7. presses[r] >= 2 => presses[r] >= 1
  BY <1>2
<1>8. RowDone(r)'
  BY <1>2, <1>3, <1>4, <1>5 DEF RowDone
<1>9. WorkDone(r)'
  BY <1>2, <1>3, <1>4, <1>6, <1>7 DEF WorkDone, RowDone
<1> QED BY <1>1, <1>2, <1>8, <1>9, StepEnough

\* A fix goes on.
LEMMA FixEnough == ASSUME EnoughInv, NEW r \in Releases, NEW check \in Fixable, Fix(r, check) PROVE EnoughInv'
<1>1. TypeInv /\ TypeInv'
  BY FixStepTyped DEF EnoughInv
<1>2. PICK v \in Fixes(check, session[r]) : session' = [session EXCEPT ![r] = [v EXCEPT !.todo = @ \ {check}]]
  BY DEF Fix
<1>3. UNCHANGED <<release, pids, upload, presses>> /\ check \in session[r].todo
  BY DEF Fix
<1>4. session[r].open /\ DOMAIN session[r] = SessionFields /\ check \in Enabled \cap Fixable
  BY <1>1, <1>3 DEF TypeInv, WorkOK, Closed
<1>5. DOMAIN v = SessionFields /\ v.todo = session[r].todo
  BY <1>4, FixFrames DEF Frame
<1>6. /\ session'[r].records = v.records /\ session'[r].documents = v.documents
      /\ session'[r].todo = session[r].todo \ {check} /\ session'[r].errors = v.errors
      /\ \A s \in Releases \ {r} : session'[s] = session[s]
  BY <1>1, <1>2, <1>5 DEF TypeInv, SessionFields
<1>7. RowDone(r) /\ WorkDone(r)
  BY <1>4 DEF EnoughInv
<1>8. ASSUME NEW c \in Enabled \cap Fixable
      PROVE  /\ release[r].valid[c] => First(c, v)
             /\ presses[r] >= 1 => First(c, v)
             /\ presses[r] >= 2 /\ c = "recid" => Second(c, v)
             /\ c \notin session'[r].todo =>
                  \/ v.errors
                  \/ /\ First(c, v)
                     /\ presses[r] >= 1 => Second(c, v)
                     /\ presses[r] >= 2 => Third(c, v)
  <2>1. v \in Fixes(check, session[r]) /\ session'[r].todo = session[r].todo \ {check}
    BY <1>6
  <2> QED BY <1>1, <1>4, <1>7, <2>1, WorkGoesOn
<1>9. ASSUME NEW c
      PROVE  /\ First(c, session[r])' <=> First(c, v)
             /\ Second(c, session[r])' <=> Second(c, v)
             /\ Third(c, session[r])' <=> Third(c, v)
  BY <1>3, <1>6 DEF First, Second, Third, ExpectedFields, RucioDatasets, Listed, Registered, Collides,
       ValidDoi, BareLinks, Known, ReleaseSlugs, Related, Partners, Partner, Min
<1>10. ASSUME NEW c
       PROVE  /\ First(c, release[r])' <=> First(c, release[r])
              /\ Second(c, release[r])' <=> Second(c, release[r])
              /\ Third(c, release[r])' <=> Third(c, release[r])
  BY <1>3 DEF First, Second, Third, ExpectedFields, RucioDatasets, Listed, Registered, Collides,
       ValidDoi, BareLinks, Known, ReleaseSlugs, Related, Partners, Partner, Min
<1>11. RowDone(r)'
  BY <1>3, <1>7, <1>10 DEF RowDone
<1>12. WorkDone(r)'
  BY <1>3, <1>6, <1>8, <1>9 DEF WorkDone
<1> QED BY <1>1, <1>3, <1>6, <1>11, <1>12, StepEnough

\* A press without error counts, one with an error begins anew.
LEMMA FinishEnough == ASSUME EnoughInv, NEW r \in Releases, Finish(r) PROVE EnoughInv'
<1> DEFINE w == session[r]
           row == [release[r] EXCEPT !.records = w.records, !.documents = w.documents,
                                     !.max_recid = w.max_recid, !.status = "DRAFT", !.errors = TRUE]
           count == IF w.errors THEN 0 ELSE presses[r] + 1
           new == release'[r]
<1>1. TypeInv /\ TypeInv'
  BY FinishTyped DEF EnoughInv
<1>2. /\ release' = [release EXCEPT ![r] = IF w.errors THEN row ELSE Validate(row)]
      /\ session' = [session EXCEPT ![r] = Closed]
      /\ presses' = [presses EXCEPT ![r] = count]
      /\ UNCHANGED <<pids, upload>> /\ w.open /\ w.todo = {}
  BY DEF Finish
<1>3. DOMAIN release[r] = RowFields /\ release[r].valid \in Validations /\ presses[r] \in Nat
  BY <1>1 DEF TypeInv, RowOK
<1>4. \A c \in Enabled \cap Fixable :
        /\ release[r].valid[c] => First(c, w)
        /\ \/ w.errors
           \/ /\ First(c, w)
              /\ presses[r] >= 1 => Second(c, w)
              /\ presses[r] >= 2 => Third(c, w)
  BY <1>2 DEF EnoughInv, WorkDone
<1> HIDE DEF w
<1>5. /\ DOMAIN row = RowFields /\ row.records = w.records /\ row.documents = w.documents
      /\ row.valid = release[r].valid
  BY <1>3 DEF RowFields
<1> HIDE DEF row, count
<1>6. /\ new = IF w.errors THEN row ELSE Validate(row)
      /\ presses'[r] = count /\ ~session'[r].open
      /\ \A s \in Releases \ {r} :
            release'[s] = release[s] /\ session'[s] = session[s] /\ presses'[s] = presses[s]
  BY <1>1, <1>2 DEF TypeInv, Closed
<1>7. /\ new.records = w.records /\ new.documents = w.documents
      /\ w.errors => new.valid = release[r].valid
      /\ ~w.errors => \A c \in Enabled : new.valid[c] = Passes(c, w.records, w.documents)
  <2>1. CASE w.errors
    BY <1>5, <1>6, <2>1
  <2>2. CASE ~w.errors
    BY <1>3, <1>5, <1>6, <2>2, Validates
  <2> QED BY <2>1, <2>2
<1> HIDE DEF new
<1>8. ASSUME NEW c \in Enabled \cap Fixable
      PROVE  /\ new.valid[c] => First(c, new)
             /\ count >= 1 => First(c, new) /\ (new.valid[c] => Second(c, new) /\ Third(c, new))
             /\ count >= 2 => Second(c, new)
             /\ count >= 3 => Third(c, new)
  <2>1. /\ First(c, new) <=> First(c, w)
        /\ Second(c, new) <=> Second(c, w)
        /\ Third(c, new) <=> Third(c, w)
    BY <1>7, SameContents
  <2>2. CASE w.errors
    <3>1. ~(count >= 1) /\ ~(count >= 2) /\ ~(count >= 3)
      BY <2>2 DEF count
    <3> QED BY <1>4, <1>7, <2>1, <2>2, <3>1
  <2>3. CASE ~w.errors
    <3>1. (count >= 2 => presses[r] >= 1) /\ (count >= 3 => presses[r] >= 2)
      BY <1>3, <2>3 DEF count
    <3>2. new.valid[c] => First(c, w) /\ Second(c, w) /\ Third(c, w)
      BY <1>7, <2>3, PassesDone
    <3> QED BY <1>4, <2>1, <2>3, <3>1, <3>2
  <2> QED BY <2>2, <2>3
<1>9. ASSUME NEW c
      PROVE  /\ First(c, release[r])' <=> First(c, new)
             /\ Second(c, release[r])' <=> Second(c, new)
             /\ Third(c, release[r])' <=> Third(c, new)
  BY <1>2 DEF new, First, Second, Third, ExpectedFields, RucioDatasets, Listed, Registered, Collides,
       ValidDoi, BareLinks, Known, ReleaseSlugs, Related, Partners, Partner, Min
<1>10. RowDone(r)'
  BY <1>6, <1>8, <1>9 DEF RowDone, new
<1> QED BY <1>1, <1>2, <1>6, <1>10, StepEnough

\* What the first press does depends on nothing outside.
LEMMA OutsideEnough ==
    ASSUME EnoughInv, TypeInv', UNCHANGED <<release, session, upload>>, presses' = [r \in Releases |-> 0]
    PROVE  EnoughInv'
<1>1. ASSUME NEW r \in Releases PROVE RowDone(r)' /\ (session[r].open => WorkDone(r))'
  <2>1. presses'[r] = 0 /\ ~(0 >= 1) /\ ~(0 >= 2) /\ ~(0 >= 3)
    OBVIOUS
  <2>2. ASSUME NEW c
        PROVE  /\ First(c, release[r])' <=> First(c, release[r])
               /\ First(c, session[r])' <=> First(c, session[r])
    BY DEF First, ExpectedFields, RucioDatasets, Listed
  <2>3. RowDone(r)'
    BY <2>1, <2>2 DEF EnoughInv, RowDone
  <2>4. (session[r].open => WorkDone(r))'
    BY <2>1, <2>2 DEF EnoughInv, WorkDone
  <2> QED BY <2>3, <2>4
<1> QED BY <1>1 DEF EnoughInv

\* Every step keeps the invariant.
LEMMA NextEnough == ASSUME EnoughInv, [Next]_vars PROVE EnoughInv'
<1>1. TypeInv /\ TypeInv'
  BY NextTyped DEF EnoughInv
<1>2. ASSUME NEW r \in Releases, Press(r) PROVE EnoughInv'
  BY <1>2, PressEnough
<1>3. ASSUME NEW r \in Releases, Finish(r) PROVE EnoughInv'
  BY <1>3, FinishEnough
<1>4. ASSUME NEW r \in Releases, NEW check \in Fixable, Fix(r, check) PROVE EnoughInv'
  BY <1>4, FixEnough
<1>5. ASSUME NEW r \in Releases, NEW check \in Fixable, FixRaises(r, check) PROVE EnoughInv'
  <2>1. /\ UNCHANGED <<release, pids, upload, presses>> /\ ~session'[r].open
        /\ \A s \in Releases \ {r} : session'[s] = session[s]
    BY <1>1, <1>5 DEF FixRaises, TypeInv, Closed
  <2>2. ASSUME NEW c
        PROVE  /\ First(c, release[r])' <=> First(c, release[r])
               /\ Second(c, release[r])' <=> Second(c, release[r])
               /\ Third(c, release[r])' <=> Third(c, release[r])
    BY <2>1 DEF First, Second, Third, ExpectedFields, RucioDatasets, Listed, Registered, Collides,
         ValidDoi, BareLinks, Known, ReleaseSlugs, Related, Partners, Partner, Min
  <2>3. RowDone(r)'
    BY <2>1, <2>2 DEF EnoughInv, RowDone
  <2> QED BY <1>1, <2>1, <2>3, StepEnough
<1>6. ASSUME NEW other \in Others, Register(other[1], other[2]) PROVE EnoughInv'
  BY <1>1, <1>6, OutsideEnough DEF Register
<1>7. ASSUME NEW image \in Images, UploadImage(image) PROVE EnoughInv'
  BY <1>1, <1>7, OutsideEnough DEF UploadImage
<1>8. CASE UNCHANGED vars
  <2>1. UNCHANGED <<release, session, pids, images, upload, presses>>
    BY <1>8 DEF vars
  <2>2. ASSUME NEW r \in Releases PROVE RowDone(r)' /\ (session[r].open => WorkDone(r))'
    <3>1. ASSUME NEW c, NEW x
          PROVE  /\ First(c, x)' <=> First(c, x')
                 /\ Second(c, x)' <=> Second(c, x')
                 /\ Third(c, x)' <=> Third(c, x')
      BY <2>1 DEF First, Second, Third, ExpectedFields, RucioDatasets, Listed, Registered, Collides,
           ValidDoi, BareLinks, Known, ReleaseSlugs, Related, Partners, Partner, Min
    <3>2. RowDone(r) /\ (session[r].open => WorkDone(r))
      BY DEF EnoughInv
    <3> QED BY <2>1, <3>1, <3>2 DEF RowDone, WorkDone
  <2> QED BY <1>1, <2>2 DEF EnoughInv
<1> QED BY <1>2, <1>3, <1>4, <1>5, <1>6, <1>7, <1>8 DEF Next

(* After three presses without error nothing is left that the fixes can      *)
(* repair, in whatever order they run (Release.fix_checks): what the first   *)
(* press does is never undone, so the second press works on slugs, titles    *)
(* and shapes of recids that stay, and the third on recids that stay.  It    *)
(* holds for releases that are repaired at the same time, too.               *)
THEOREM FixIsEnoughAlways == Spec => []FixIsEnough
<1>1. Init => EnoughInv
  BY InitEnough
<1>2. EnoughInv /\ [Next]_vars => EnoughInv'
  BY NextEnough
<1>3. EnoughInv => FixIsEnough
  BY InvEnough
<1> QED BY <1>1, <1>2, <1>3, PTL DEF Spec

=============================================================================
