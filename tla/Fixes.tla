------------------------------- MODULE Fixes -------------------------------
(***************************************************************************)
(* The validations of a release and the button that repairs what can be    *)
(* repaired (cernopendata/modules/releases/validations, Release.fix_checks *)
(* and Release.validate).  A press locks the release, lets every failing   *)
(* validation change the records and documents of the session, in the      *)
(* order in which the database returns them, and validates the outcome.    *)
(* Meanwhile the rest of the portal registers PIDs, the images of the      *)
(* documents come and go, and other releases are repaired.                 *)
(***************************************************************************)
EXTENDS Naturals, Sequences, FiniteSets, FiniteSetsExt

CONSTANTS
    Releases,           \* releases of one experiment
    Uploads,            \* Uploads[r]: the contents r may be created with
    Existing, Others,   \* <<pid_type, pid>>: what is, and may be registered by others
    Slugs, Images,      \* of the documents
    Datasets,           \* the names that titles begin with
    Uris, Tree,         \* the files, and those below each directory
    Stored,             \* the files that belong to records of the portal
    DidTitle, DidFiles, \* what Rucio knows of its datasets
    Suffixes,           \* the suffixes of the DOIs
    Enabled,            \* the validations that are enabled
    Production,         \* INSTANCE_NAME is opendata
    Overlap,            \* releases may be repaired at the same time
    Faults,             \* what may go wrong in this instance
    MaxPresses          \* bound on presses: the presses in a row of one release

Standard == {"experiment", "metadata", "cms"}
Fixable == Standard \cup {"recid", "doi", "cms_2016", "expand_files", "files",
                          "rucio", "slug", "doc_links"}
Checks == Fixable \cup {"missing_files", "duplicate_files", "rec_schema",
                        "doc_schema", "image_references"}
Dirs == DOMAIN Tree
FixFaults == {"listing_fails", "stat_fails", "checksum_fails", "rucio_fails"}

\* A recid is <<form, number>>: "exp" for <experiment>-<number>, "plain" for
\* digits alone, "odd" for anything else.  A DOI is <<prefix, suffix>>.  A file
\* is <<uri, state>>, "bare" without its size or a good checksum.
\* A title is <<dataset, tier>>, the tier being a format of the CMS data or none.
Title == (Datasets \cup {"none"}) \X {"mini", "nano", "none"}
Record == [recid : {"none", "exp", "plain", "odd"} \X Nat, title : Title, described : Title,
           relation : {"none", "exp", "plain", "odd"} \X Nat,
           fields : SUBSET Standard, claims : BOOLEAN, listed : BOOLEAN,
           files : SUBSET ((Uris \cup Dirs) \X {"whole", "bare"}), rucio : DOMAIN DidFiles \cup {"none"},
           doi : {"none", "odd", "ours", "theirs"} \X (Suffixes \cup {"none"}), schema : BOOLEAN]
Document == [slug : Slugs \cup {"none"}, source : Slugs \cup {"none"}, fields : SUBSET Standard,
             links : SUBSET (Slugs \X {"absolute", "bare"}), images : SUBSET Images, schema : BOOLEAN]

ASSUME EnabledAssumption == Enabled \subseteq Checks
ASSUME FixFaultsAssumption == Faults \subseteq FixFaults /\ {Production, Overlap} \subseteq BOOLEAN
ASSUME TreeAssumption == \A d \in Dirs : Tree[d] \subseteq Uris /\ d \notin Uris
ASSUME UploadsAssumption ==
    /\ IsFiniteSet(Releases)
    /\ \A r \in Releases : \A u \in Uploads[r] :
            /\ u.records \in Seq(Record) /\ u.documents \in Seq(Document)
            /\ \A i \in DOMAIN u.records : ~u.records[i].listed => u.records[i].files = {}
ASSUME PidsAssumption ==
    /\ IsFiniteSet(Existing)
    /\ \A pid \in Existing \cup Others :
            pid[1] \in {"recid", "docid", "doi"} /\ (pid[1] = "recid" => pid[2][2] \in Nat)
ASSUME DidsAssumption ==
    \A did \in DOMAIN DidFiles : DidFiles[did] \subseteq Uris /\ DidTitle[did] \in Title
ASSUME BoundAssumption == MaxPresses \in Nat

VARIABLES
    release,    \* the committed row of every release
    session,    \* what the press that is going on has loaded and changed
    pids,       \* the registered PIDs
    images,     \* the images that can be found on the disk
    upload,     \* the records every release was created with
    presses     \* presses without error since something outside changed

vars == <<release, session, pids, images, upload, presses>>

-----------------------------------------------------------------------------
(* What the validations accept.                                             *)

NoRecid == <<"none", 0>>
NoTitle == <<"none", "none">>
NoDoi == <<"none", "none">>
Uri(file) == file[1]
UrisOf(record) == {Uri(file) : file \in record.files}
Wildcards(record) == UrisOf(record) \cap Dirs

\* PIDValidation._duplicate_pids, _numeric_collisions
Registered(record) == record.recid \in pids.recid
Collides(record) ==
    record.recid[1] = "exp" /\ <<"plain", record.recid[2]>> \in pids.recid

ValidRecid(records) ==
    \A i \in DOMAIN records :
        /\ records[i].recid[1] = "exp"
        /\ ~Registered(records[i]) /\ ~Collides(records[i])
        /\ \A j \in DOMAIN records \ {i} : records[j].recid # records[i].recid

ValidSlug(docs) ==
    \A i \in DOMAIN docs :
        /\ docs[i].slug \notin pids.docid \cup {"none"}
        /\ \A j \in DOMAIN docs \ {i} : docs[j].slug # docs[i].slug

\* The suffix counts whatever the prefix; "none" has none.
ValidDoi(records) ==
    LET with == {i \in DOMAIN records : records[i].doi # NoDoi} IN
    \A i \in with :
        /\ records[i].doi[1] # "odd"
        /\ Production => records[i].doi[1] = "ours"
        /\ records[i].doi[2] \notin pids.doi
        /\ \A j \in with \ {i} : records[j].doi[2] # records[i].doi[2]

\* CMS_2016_Simulated.get_relations: the first record of the other tier
OtherTier(tier) == IF tier = "mini" THEN "nano" ELSE "mini"
Partners(records, i) ==
    {j \in DOMAIN records :
        /\ records[i].title[2] \in {"mini", "nano"}
        /\ records[j].title = <<records[i].title[1], OtherTier(records[i].title[2])>>}
Partner(records, i) == records[Min(Partners(records, i))]

ValidCms2016(records) ==
    \A i \in DOMAIN records :
        /\ Partners(records, i) # {}
        /\ records[i].described = records[i].title
        /\ records[i].relation = Partner(records, i).recid
        /\ records[i].relation # NoRecid

ReleaseSlugs(docs) == {docs[i].slug : i \in DOMAIN docs} \ {"none"}
Known(docs) == ReleaseSlugs(docs) \cup pids.docid
BareLinks(doc) == {link \in doc.links : link[2] = "bare"}
ValidDocLinks(docs) ==
    \A i \in DOMAIN docs : BareLinks(docs[i]) = {} /\ \A link \in docs[i].links : link[1] \in Known(docs)

ExpandDirectories(records) == \A i \in DOMAIN records : Wildcards(records[i]) = {}
ValidFiles(records) ==
    \A i \in DOMAIN records : \A file \in records[i].files : file[2] = "whole"
Listed(record) == record.rucio = "none" \/ record.listed
RucioDatasets(records) == \A i \in DOMAIN records : Listed(records[i])
MissingFiles(records) ==
    \A i \in DOMAIN records :
        records[i].claims => records[i].files # {} \/ records[i].rucio # "none"
DuplicateFiles(records) == \A i \in DOMAIN records : UrisOf(records[i]) \cap Stored = {}
Schema(items) == \A i \in DOMAIN items : items[i].schema
ImageReferences(docs) == \A i \in DOMAIN docs : docs[i].images \subseteq images

\* The standard fields hold what the experiment and the portal expect.
ExpectedFields(check, records, docs) ==
    /\ \A i \in DOMAIN records : check \in records[i].fields
    /\ check = "experiment" => \A i \in DOMAIN docs : check \in docs[i].fields

Passes(check, records, docs) ==
    CASE check \in Standard -> ExpectedFields(check, records, docs)
      [] check = "recid" -> ValidRecid(records)
      [] check = "doi" -> ValidDoi(records)
      [] check = "cms_2016" -> ValidCms2016(records)
      [] check = "expand_files" -> ExpandDirectories(records)
      [] check = "files" -> ValidFiles(records)
      [] check = "rucio" -> RucioDatasets(records)
      [] check = "missing_files" -> MissingFiles(records)
      [] check = "duplicate_files" -> DuplicateFiles(records)
      [] check = "rec_schema" -> Schema(records)
      [] check = "doc_schema" -> Schema(docs)
      [] check = "slug" -> ValidSlug(docs)
      [] check = "doc_links" -> ValidDocLinks(docs)
      [] check = "image_references" -> ImageReferences(docs)

\* Release.validate: a disabled validation keeps the status it had, and the
\* errors are no longer those of a fix
Validate(row) ==
    LET valid == [c \in Checks |-> IF c \in Enabled THEN Passes(c, row.records, row.documents)
                                   ELSE row.valid[c]]
    IN  [row EXCEPT !.valid = valid, !.errors = FALSE,
                    !.status = IF \A c \in Enabled : valid[c] THEN "READY" ELSE "DRAFT"]

-----------------------------------------------------------------------------
(* The fixes, as what they make of the session w of a release; the ones     *)
(* that ask a storage, Rucio or a generator have several outcomes.          *)

Fails(w, some) == [w EXCEPT !.errors = @ \/ some]

\* (mutant) the numbers that other releases have been given are forgotten.
NextRecidStartOfPids(w) ==
    1 + Max({w.max_recid} \cup {pid[2] : pid \in {p \in pids.recid : p[1] \in {"exp", "plain"}}})

\* ValidRecid.next_recid_start: the row of another session is not seen
NextRecidStart(w) ==
    1 + Max({w.max_recid} \cup {release[r].max_recid : r \in Releases}
            \cup {pid[2] : pid \in {p \in pids.recid : p[1] \in {"exp", "plain"}}})

Renumber(record) ==
    Registered(record) \/ Collides(record) \/ record.recid[1] \notin {"exp", "plain"}

Renumbered(records, start) ==
    LET before(i) == {j \in DOMAIN records : j < i /\ Renumber(records[j])} IN
    [i \in DOMAIN records |-> [records[i] EXCEPT !.recid =
        <<"exp", IF Renumber(records[i]) THEN start + Cardinality(before(i)) ELSE @[2]>>]]

FixRecid(w) ==
    LET start == NextRecidStart(w)
        count == Cardinality({i \in DOMAIN w.records : Renumber(w.records[i])})
    IN  [w EXCEPT !.records = Renumbered(w.records, start),
                  !.max_recid = IF count = 0 THEN @ ELSE start + count - 1]

\* The DOI of the record i, after those of the records before it: a suffix is
\* taken when one of them has it now, or when it is registered.
NewDoi(records, fresh, doi, i) ==
    LET own == records[i].doi
        used == {doi[j][2] : j \in {k \in 1..(i - 1) : records[k].doi # NoDoi}}
    IN  IF own = NoDoi THEN NoDoi
        ELSE IF own[1] = "odd" \/ own[2] \in used \cup pids.doi THEN <<"ours", fresh[i]>>
        ELSE IF Production THEN <<"ours", own[2]>>
        ELSE own

Replaced(records, fresh) ==
    LET doi[i \in DOMAIN records] == NewDoi(records, fresh, doi, i)
    IN  [i \in DOMAIN records |-> [records[i] EXCEPT !.doi = doi[i]]]

\* generate_doi, for every record that may need one
FreshDois(records) == [DOMAIN records -> Suffixes \ pids.doi]

FixDoi(w) ==
    {LET records == Replaced(w.records, fresh)
     IN  Fails([w EXCEPT !.records = records], ~ValidDoi(records)) :
         fresh \in FreshDois(w.records)}

WithField(item, check) == [item EXCEPT !.fields = @ \cup {check}]

FixStandard(check, w) ==
    [w EXCEPT !.records = [i \in DOMAIN @ |-> WithField(@[i], check)],
              !.documents = IF check # "experiment" THEN @
                            ELSE [i \in DOMAIN @ |-> WithField(@[i], check)]]

\* A record without title, or a partner without recid, is a KeyError.
Cms2016Raises(records) ==
    \E i \in DOMAIN records :
        \/ records[i].title = NoTitle
        \/ Partners(records, i) # {} /\ Partner(records, i).recid = NoRecid

\* (mutant) a relation that is there is kept.
DescribedOnce(records, i) ==
    [records[i] EXCEPT !.described = records[i].title,
                       !.relation = IF Partners(records, i) = {} \/ @ # NoRecid THEN @
                                    ELSE Partner(records, i).recid]

\* The texts of a record name its dataset and point to its partner.
Described(records, i) ==
    [records[i] EXCEPT !.described = records[i].title,
                       !.relation = IF Partners(records, i) = {} THEN @ ELSE Partner(records, i).recid]

FixCms2016(w) ==
    Fails([w EXCEPT !.records = [i \in DOMAIN @ |-> Described(@, i)]],
          \E i \in DOMAIN w.records : Partners(w.records, i) = {})

\* CheckExpandDirectories._walk: the listing may stop half way
Listings(d) ==
    {[found |-> Tree[d], failed |-> FALSE]}
    \cup IF "listing_fails" \in Faults THEN [found : SUBSET Tree[d], failed : {TRUE}] ELSE {}
States == {"whole"} \cup IF "checksum_fails" \in Faults THEN {"bare"} ELSE {}

Expanded(record, listing, state) ==
    LET found == UNION {listing[d].found : d \in Wildcards(record)} IN
    IF found = {} THEN record
    ELSE [record EXCEPT !.files = {file \in @ : Uri(file) \notin Dirs}
                                  \cup {<<uri, state[uri]>> : uri \in found}]

\* (mutant) a listing that fails is only logged.
ExpandQuietly(w, listing, state) ==
    [w EXCEPT !.records = [i \in DOMAIN w.records |-> Expanded(w.records[i], listing, state)]]

ExpandAll(w, listing, state) ==
    Fails([w EXCEPT !.records = [i \in DOMAIN w.records |-> Expanded(w.records[i], listing, state)]],
          \E d \in DOMAIN listing : listing[d].failed)

FixExpandFiles(w) ==
    LET dirs == UNION {Wildcards(w.records[i]) : i \in DOMAIN w.records} IN
    {ExpandAll(w, walk[1], walk[2]) :
        walk \in {l \in [dirs -> UNION {Listings(d) : d \in dirs}] :
                      \A d \in dirs : l[d] \in Listings(d)} \X [Uris -> States]}

\* ValidFiles.fix: a path that cannot be read is an error, a wildcard always
Measured(file, read, state) ==
    IF Uri(file) \in read THEN <<Uri(file), state[Uri(file)]>> ELSE file

Bare(record) == {file \in record.files : file[2] = "bare"}

MeasureAll(w, wanted, read, state) ==
    LET files(record) == (record.files \ Bare(record))
                         \cup {Measured(file, read, state) : file \in Bare(record)}
    IN  Fails([w EXCEPT !.records = [i \in DOMAIN w.records |->
                    [w.records[i] EXCEPT !.files = files(w.records[i])]]],
              read # wanted)

FixFiles(w) ==
    LET wanted == {Uri(file) : file \in UNION {Bare(w.records[i]) : i \in DOMAIN w.records}}
        reads == IF "stat_fails" \in Faults THEN SUBSET (wanted \ Dirs) ELSE {wanted \ Dirs}
    IN  {MeasureAll(w, wanted, seen[1], seen[2]) : seen \in reads \X [Uris -> States]}

FixRucio(w) ==
    LET From(record) ==
            IF Listed(record) THEN record
            ELSE [record EXCEPT !.title = DidTitle[record.rucio], !.described = NoTitle,
                                !.listed = TRUE, !.claims = DidFiles[record.rucio] # {},
                                !.files = DidFiles[record.rucio] \X {"whole"}]
    IN  [w EXCEPT !.records = [i \in DOMAIN @ |-> From(@[i])]]

Slugged(doc) == [doc EXCEPT !.slug = IF @ = "none" THEN doc.source ELSE @]
FixSlug(w) ==
    Fails([w EXCEPT !.documents = [i \in DOMAIN @ |-> Slugged(@[i])]],
          \E i \in DOMAIN w.documents : Slugged(w.documents[i]).slug = "none")

\* _rewrite_bare_slugs
Rewritten(doc, known) ==
    [doc EXCEPT !.links =
        {IF link[1] \in known THEN <<link[1], "absolute">> ELSE link : link \in @}]
FixDocLinks(w) ==
    [w EXCEPT !.documents = [i \in DOMAIN @ |-> Rewritten(@[i], Known(w.documents))]]

\* The sessions a fix may leave
Fixes(check, w) ==
    CASE check \in Standard -> {FixStandard(check, w)}
      [] check = "recid" -> {FixRecid(w)}
      [] check = "doi" -> FixDoi(w)
      [] check = "cms_2016" -> {FixCms2016(w)}
      [] check = "expand_files" -> FixExpandFiles(w)
      [] check = "files" -> FixFiles(w)
      [] check = "rucio" -> {FixRucio(w)}
      [] check = "slug" -> {FixSlug(w)}
      [] check = "doc_links" -> {FixDocLinks(w)}

\* A fix that raises ends the request: nothing catches it.
Raises(check, w) ==
    \/ check = "cms_2016" /\ Cms2016Raises(w.records)
    \/ check = "rucio" /\ "rucio_fails" \in Faults
    \/ /\ check = "expand_files" /\ "stat_fails" \in Faults
       /\ \E i \in DOMAIN w.records : \E d \in Wildcards(w.records[i]) : Tree[d] # {}

-----------------------------------------------------------------------------
(* The button.                                                              *)

\* create_validations: the validations of a new release, which have not passed
Validations == [Checks -> BOOLEAN]
NewValidations == [c \in Checks |-> FALSE]

Closed == [open |-> FALSE, records |-> <<>>, documents |-> <<>>,
           max_recid |-> 0, todo |-> {}, errors |-> FALSE]

Init ==
    /\ pids = [type \in {"recid", "docid", "doi"} |-> {pid[2] : pid \in {p \in Existing : p[1] = type}}]
    /\ images = {}
    /\ \E u \in [Releases -> UNION {Uploads[r] : r \in Releases}] :
        /\ \A r \in Releases : u[r] \in Uploads[r]
        /\ upload = [r \in Releases |-> u[r].records]
        /\ release = [r \in Releases |->
              Validate([status |-> "DRAFT", records |-> u[r].records, documents |-> u[r].documents,
                        valid |-> NewValidations, max_recid |-> 0, errors |-> FALSE])]
    /\ session = [r \in Releases |-> Closed]
    /\ presses = [r \in Releases |-> 0]

\* (mutant) the fixes begin without the lock.
PressUnlocked(r) ==
    /\ release[r].status \in {"DRAFT", "READY"}
    /\ ~session[r].open /\ (Overlap \/ \A s \in Releases : ~session[s].open)
    /\ presses[r] < MaxPresses
    /\ session' = [session EXCEPT ![r] =
          [open |-> TRUE, records |-> release[r].records, documents |-> release[r].documents,
           max_recid |-> release[r].max_recid, errors |-> FALSE,
           todo |-> {c \in Enabled \cap Fixable : ~release[r].valid[c]}]]
    /\ UNCHANGED <<release, pids, images, upload, presses>>

\* The lock is committed before the fixes begin.
Press(r) ==
    /\ release[r].status \in {"DRAFT", "READY"}
    /\ Overlap \/ \A s \in Releases : ~session[s].open
    /\ presses[r] < MaxPresses
    /\ release' = [release EXCEPT ![r].status = "EDITING"]
    /\ session' = [session EXCEPT ![r] =
          [open |-> TRUE, records |-> release[r].records, documents |-> release[r].documents,
           max_recid |-> release[r].max_recid, errors |-> FALSE,
           todo |-> {c \in Enabled \cap Fixable : ~release[r].valid[c]}]]
    /\ UNCHANGED <<pids, images, upload, presses>>

Fix(r, check) ==
    /\ check \in session[r].todo
    /\ check = "cms_2016" => ~Cms2016Raises(session[r].records)
    /\ \E w \in Fixes(check, session[r]) :
          session' = [session EXCEPT ![r] = [w EXCEPT !.todo = @ \ {check}]]
    /\ UNCHANGED <<release, pids, images, upload, presses>>

FixRaises(r, check) ==
    /\ check \in session[r].todo
    /\ Raises(check, session[r])
    /\ session' = [session EXCEPT ![r] = Closed]
    /\ UNCHANGED <<release, pids, images, upload, presses>>

\* Release.fix_checks: the errors of the fixes, or else a validation
Finish(r) ==
    LET w == session[r]
        row == [release[r] EXCEPT !.records = w.records, !.documents = w.documents,
                                  !.max_recid = w.max_recid,
                                  !.status = "DRAFT", !.errors = TRUE]
    IN  /\ w.open /\ w.todo = {}
        /\ release' = [release EXCEPT ![r] = IF w.errors THEN row ELSE Validate(row)]
        /\ session' = [session EXCEPT ![r] = Closed]
        /\ presses' = [presses EXCEPT ![r] = IF w.errors THEN 0 ELSE @ + 1]
        /\ UNCHANGED <<pids, images, upload>>

\* Another release is staged, or a fixture is loaded.
Register(pid_type, pid) ==
    /\ <<pid_type, pid>> \in Others /\ pid \notin pids[pid_type]
    /\ pids' = [pids EXCEPT ![pid_type] = @ \cup {pid}]
    /\ presses' = [r \in Releases |-> 0]
    /\ UNCHANGED <<release, session, images, upload>>

UploadImage(image) ==
    /\ image \notin images
    /\ images' = images \cup {image}
    /\ presses' = [r \in Releases |-> 0]
    /\ UNCHANGED <<release, session, pids, upload>>

Next ==
    \/ \E r \in Releases :
        \/ Press(r) \/ Finish(r)
        \/ \E check \in Fixable : Fix(r, check) \/ FixRaises(r, check)
    \/ \E other \in Others : Register(other[1], other[2])
    \/ \E image \in Images : UploadImage(image)

Spec == Init /\ [][Next]_vars

-----------------------------------------------------------------------------
(* Type invariant: the shape of the rows, of the sessions and of the        *)
(* registry, whatever the fixes do to them.                                 *)
SequenceOf(seq, S) == \A i \in DOMAIN seq : seq[i] \in S

TypeOK ==
    /\ \A r \in Releases :
        /\ SequenceOf(release[r].records, Record) /\ SequenceOf(release[r].documents, Document)
        /\ release[r].status \in {"DRAFT", "READY", "EDITING"}
        /\ release[r].valid \in Validations /\ release[r].max_recid \in Nat
        /\ SequenceOf(session[r].records, Record) /\ SequenceOf(session[r].documents, Document)
        /\ session[r].todo \subseteq Enabled \cap Fixable /\ session[r].errors \in BOOLEAN
        /\ session[r].open => release[r].status = "EDITING"
        /\ presses[r] \in 0..MaxPresses
    /\ images \subseteq Images /\ \A other \in Others : other[1] \in DOMAIN pids

\* The record has the number it was uploaded with.
Brought(r, i) == release[r].records[i].recid[2] = upload[r][i].recid[2]

(* Two fixes never give one number (ValidRecid.next_recid_start): of two     *)
(* records, of one release or of two, that share a recid one brought it      *)
(* along.  The counter does not look at what the uploads bring along.        *)
NumbersStayApart ==
    \A r, s \in Releases :
        \A i \in DOMAIN release[r].records, j \in DOMAIN release[s].records :
            <<r, i>> # <<s, j>> /\ release[r].records[i].recid = release[s].records[j].recid
                => Brought(r, i) \/ Brought(s, j)

(* A press that makes a release READY has lost none of the files that the    *)
(* release had, or pointed to with its directories, when it was pressed: a    *)
(* listing that fails half way, in whichever directory of whichever record,   *)
(* keeps the release in DRAFT (CheckExpandDirectories.fix).  The wildcard is  *)
(* gone by then, and a later press asks for no more than what was found.      *)
Promised(record) == UNION {IF uri \in Dirs THEN Tree[uri] ELSE {uri} : uri \in UrisOf(record)}
KeptFiles(old, new) == \A i \in DOMAIN old : Promised(old[i]) \subseteq UrisOf(new[i])
PressesKeepFiles ==
    [][\A r \in Releases :
          release[r].status = "EDITING" /\ release'[r].status = "READY"
              => KeptFiles(release[r].records, release'[r].records)]_vars

(* The fixes undo each other's work (a renumbered record leaves the          *)
(* relations to it behind, a slug makes links fixable), but not forever:     *)
(* after three presses without error, nothing that can be fixed is left.     *)
Related(records) ==
    \A i \in DOMAIN records : Partners(records, i) # {} =>
        records[i].relation = Partner(records, i).recid /\ records[i].described = records[i].title
Repaired(records, docs) ==
    /\ \A check \in Standard \cap Enabled : ExpectedFields(check, records, docs)
    /\ "recid" \in Enabled => \A i \in DOMAIN records :
            records[i].recid[1] = "exp" /\ ~Registered(records[i]) /\ ~Collides(records[i])
    /\ "doi" \in Enabled => ValidDoi(records)
    /\ "cms_2016" \in Enabled => Related(records)
    /\ "rucio" \in Enabled => RucioDatasets(records)
    /\ "doc_links" \in Enabled => \A i \in DOMAIN docs : \A link \in BareLinks(docs[i]) : link[1] \notin Known(docs)
Enough == 3
FixIsEnough ==
    \A r \in Releases : presses[r] >= Enough => Repaired(release[r].records, release[r].documents)

=============================================================================
