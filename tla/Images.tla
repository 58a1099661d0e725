------------------------------- MODULE Images -------------------------------
(***************************************************************************)
(* The pictures of the documents of one release: the handlers of           *)
(* releases/views.py that upload, list, rename and delete them, those that *)
(* add and replace the documents they hang from, and the deletion of the   *)
(* release itself.  The pictures are files below                           *)
(* CERNOPENDATA_IMAGES_PATH/<release>/<slug of a document>; no row of the  *)
(* database knows of them and no handler takes the lock of the release, so *)
(* the requests of the curators interleave between any two system calls.   *)
(***************************************************************************)
EXTENDS Naturals, Sequences, FiniteSets, Functions, SequencesExt

CONSTANTS
    Curators,       \* who sends the requests
    Slugs, Names,   \* of documents and of pictures (after secure_filename)
    Bad,            \* a file that is no picture or is too large
    Uploads,        \* what one request may upload: sequences of Names and Bad
    FirstDocs,      \* slugs of the documents that the release is created with
    Faults,         \* what may go wrong in this instance
    MaxDocs,        \* bound on the documents of the release
    MaxRequests     \* bound on the requests of a behaviour

ImageFaults == {"save_fails", "dies", "rmtree_fails"}

ASSUME BadAssumption == Bad \notin Names
ASSUME UploadsAssumption == Uploads \subseteq Seq(Names \cup {Bad})
ASSUME ImageFaultsAssumption == Faults \subseteq ImageFaults
ASSUME BoundsAssumption == MaxDocs \in Nat /\ MaxRequests \in Nat
ASSUME DocsAssumption == FirstDocs \in Seq(Slugs) /\ Len(FirstDocs) <= MaxDocs

VARIABLES
    exists,     \* the row of the release is there
    docs,       \* slugs of its documents, in order
    dirs,       \* slugs that have a directory
    disk,       \* <<slug, name>> -> picture, for every file
    local,      \* what the request of a curator knows and does next
    requests,   \* requests so far
    told,       \* <<slug, name>> -> picture: what curators were told is there
    crowded,    \* files that two requests worked on at the same time
    renamed     \* slugs that a replaced document gave up

vars == <<exists, docs, dirs, disk, local, requests, told, crowded, renamed>>
files == <<dirs, disk>>
row == <<exists, docs>>

-----------------------------------------------------------------------------
(* A picture is the number of the request that brought it and the name it   *)
(* had there; a file whose writing was cut short is Torn.                   *)

Torn == <<0, Bad>>
Pictures == ((1 .. MaxRequests) \X Names) \cup {Torn}
Paths == Slugs \X Names
Column == <<"documents", "column">>   \* of the row, for the handlers of documents

Idle == [at |-> "idle", slug |-> Bad, names |-> <<>>, nr |-> 0,
         seen |-> {}, saved |-> <<>>, read |-> <<>>]
At(c, step) == local[c].at = step

NamesIn(s) == {p[2] : p \in {q \in DOMAIN disk : q[1] = s}}

\* the file p now holds x, whatever it held
Put(f, p, x) == [q \in DOMAIN f \cup {p} |-> IF q = p THEN x ELSE f[q]]

\* what list_images answers: the files of the documents that are there
Listed == {p \in DOMAIN disk : p[1] \in Range(docs)}

\* the files that a request is about, and the column of the documents
Touched(step) ==
    CASE step.at = "idle" -> {}
      [] step.at = "write" -> {Column}
      [] step.at \in {"rmtree", "commit"} -> Paths
      [] OTHER -> {step.slug} \X (Range(step.names) \ {Bad})

\* a request is accepted: _get_release finds the row
Begin(c, step) ==
    /\ local[c] = Idle /\ exists
    /\ requests < MaxRequests
    /\ requests' = requests + 1
    /\ local' = [local EXCEPT ![c] = [step EXCEPT !.nr = requests + 1]]
    /\ crowded' = crowded \cup (Touched(step) \cap UNION {Touched(local[d]) : d \in Curators})

Request(at, slug, names) == [Idle EXCEPT !.at = at, !.slug = slug, !.names = names]

\* the answer, whether it is a success or an error
Answer(c) == local' = [local EXCEPT ![c] = Idle]

-----------------------------------------------------------------------------
(* upload_image *)

BeginUpload(c) ==
    /\ \E s \in Range(docs), names \in Uploads : Begin(c, Request("prepare", s, names))
    /\ UNCHANGED <<row, files, told, renamed>>

\* the directory is made and listed, whatever becomes of the pictures
Prepare(c) ==
    LET s == local[c].slug IN
    /\ At(c, "prepare")
    /\ dirs' = dirs \cup {s}
    /\ local' = [local EXCEPT ![c].at = "save", ![c].seen = NamesIn(s)]
    /\ UNCHANGED <<row, disk, requests, told, crowded, renamed>>

Saving(c) == At(c, "save") /\ Len(local[c].saved) < Len(local[c].names)
Upcoming(c) == local[c].names[Len(local[c].saved) + 1]
Acceptable(c) == Upcoming(c) # Bad /\ Upcoming(c) \notin local[c].seen

\* the files are saved one by one; what is on the disk is not looked at again
Save(c) ==
    LET name == Upcoming(c) IN
    /\ Saving(c) /\ Acceptable(c) /\ local[c].slug \in dirs
    /\ disk' = Put(disk, <<local[c].slug, name>>, <<local[c].nr, name>>)
    /\ local' = [local EXCEPT ![c].saved = Append(@, name), ![c].seen = @ \cup {name}]
    /\ UNCHANGED <<row, dirs, requests, told, crowded, renamed>>

\* the files that were saved before the error stay
SaveRefused(c) ==
    /\ Saving(c) /\ ~(Acceptable(c) /\ local[c].slug \in dirs)
    /\ Answer(c)
    /\ UNCHANGED <<row, files, requests, told, crowded, renamed>>

CutShort(c) == disk' = Put(disk, <<local[c].slug, Upcoming(c)>>, Torn)

\* (mutant) the loop goes on with the next picture.
SaveFailsQuietly(c) ==
    /\ "save_fails" \in Faults
    /\ Saving(c) /\ Acceptable(c) /\ local[c].slug \in dirs
    /\ CutShort(c) \/ UNCHANGED disk
    /\ local' = [local EXCEPT ![c].saved = Append(@, Upcoming(c))]
    /\ UNCHANGED <<row, dirs, requests, told, crowded, renamed>>

SaveFails(c) ==
    /\ "save_fails" \in Faults
    /\ Saving(c) /\ Acceptable(c) /\ local[c].slug \in dirs
    /\ CutShort(c) \/ UNCHANGED disk
    /\ Answer(c)
    /\ UNCHANGED <<row, dirs, requests, told, crowded, renamed>>

Uploaded(c) ==
    LET stored == {local[c].slug} \X Range(local[c].saved) IN
    /\ At(c, "save") /\ ~Saving(c)
    /\ told' = [p \in DOMAIN told \cup stored |->
                   IF p \in stored THEN <<local[c].nr, p[2]>> ELSE told[p]]
    /\ Answer(c)
    /\ UNCHANGED <<row, files, requests, crowded, renamed>>

-----------------------------------------------------------------------------
(* delete_image and rename_image *)

BeginDelete(c) ==
    /\ \E s \in Range(docs), n \in Names : Begin(c, Request("unlink", s, <<n>>))
    /\ UNCHANGED <<row, files, told, renamed>>

Unlink(c) ==
    LET p == <<local[c].slug, local[c].names[1]>> IN
    /\ At(c, "unlink") /\ p \in DOMAIN disk
    /\ disk' = Restrict(disk, DOMAIN disk \ {p})
    /\ told' = Restrict(told, DOMAIN told \ {p})
    /\ local' = [local EXCEPT ![c].at = "rmdir"]
    /\ UNCHANGED <<row, dirs, requests, crowded, renamed>>

\* (mutant) the directory is removed without a look at what is in it.
RmdirAlways(c) ==
    /\ At(c, "rmdir")
    /\ dirs' = dirs \ {local[c].slug}
    /\ Answer(c)
    /\ UNCHANGED <<row, disk, requests, told, crowded, renamed>>

Rmdir(c) ==
    /\ At(c, "rmdir")
    /\ dirs' = dirs \ {s \in {local[c].slug} : NamesIn(s) = {}}
    /\ Answer(c)
    /\ UNCHANGED <<row, disk, requests, told, crowded, renamed>>

BeginRename(c) ==
    /\ \E s \in Range(docs), old, new \in Names : Begin(c, Request("check", s, <<old, new>>))
    /\ UNCHANGED <<row, files, told, renamed>>

Source(c) == <<local[c].slug, local[c].names[1]>>
Target(c) == <<local[c].slug, local[c].names[2]>>

\* (mutant) the new name is not looked for.
RefusedWithoutSource(c) == Source(c) \notin DOMAIN disk

\* it is 404 without the source and 409 with the target, or nothing to do
Refused(c) == Source(c) \notin DOMAIN disk \/ Target(c) \in DOMAIN disk

Check(c) ==
    /\ At(c, "check") /\ ~Refused(c)
    /\ local' = [local EXCEPT ![c].at = "rename"]
    /\ UNCHANGED <<row, files, requests, told, crowded, renamed>>

\* os.rename replaces what has come to the new name since the check
Rename(c) ==
    LET kept == DOMAIN disk \ {Source(c)} IN
    /\ At(c, "rename") /\ Source(c) \in DOMAIN disk
    /\ disk' = Put(Restrict(disk, kept), Target(c), disk[Source(c)])
    /\ told' = Put(Restrict(told, kept \cap DOMAIN told), Target(c), disk[Source(c)])
    /\ Answer(c)
    /\ UNCHANGED <<row, dirs, requests, crowded, renamed>>

NotThere(c) ==
    /\ \/ At(c, "unlink") /\ Source(c) \notin DOMAIN disk
       \/ At(c, "check") /\ Refused(c)
       \/ At(c, "rename") /\ Source(c) \notin DOMAIN disk
    /\ Answer(c)
    /\ UNCHANGED <<row, files, requests, told, crowded, renamed>>

-----------------------------------------------------------------------------
(* add_documents and update_document: read the column, validate, write it  *)

BeginAdd(c) ==
    /\ Len(docs) < MaxDocs
    /\ \E s \in Slugs : Begin(c, [Request("write", Bad, <<s>>) EXCEPT !.read = docs])
    /\ UNCHANGED <<row, files, told, renamed>>

BeginReplace(c) ==
    /\ \E s, t \in Slugs :
           /\ s \in Range(docs)
           /\ Begin(c, [Request("write", Bad, <<t, s>>) EXCEPT !.read = docs])
    /\ UNCHANGED <<row, files, told, renamed>>

\* (mutant) the column is replaced by the new document.
EditedAlone(read, names) == {<<names[1]>>}

\* append the document, or put it in the place of the first with the old slug
Edited(read, names) ==
    IF Len(names) = 1 THEN {Append(read, names[1])}
    ELSE {ReplaceAt(read, i, names[1]) :
              i \in {k \in DOMAIN read : read[k] = names[2] /\ \A j \in 1 .. (k - 1) : read[j] # names[2]}}

\* the whole column is written; the directory of a slug is not renamed
WriteDocs(c) ==
    /\ At(c, "write") /\ exists
    /\ docs' \in Edited(local[c].read, local[c].names)
    /\ renamed' = renamed \cup Range(Tail(local[c].names))
    /\ Answer(c)
    /\ UNCHANGED <<exists, files, requests, told, crowded>>

\* the row went away meanwhile: the commit fails
WriteFails(c) ==
    /\ At(c, "write") /\ ~exists
    /\ Answer(c)
    /\ UNCHANGED <<row, files, requests, told, crowded, renamed>>

-----------------------------------------------------------------------------
(* delete_release, of a release in DRAFT or READY *)

BeginDiscard(c) ==
    /\ Begin(c, Request("rmtree", Bad, <<>>))
    /\ UNCHANGED <<row, files, told, renamed>>

\* (mutant) only the directories of the documents are removed.
RmtreeOfDocs(c) ==
    /\ At(c, "rmtree")
    /\ dirs' = dirs \ Range(docs) /\ told' = <<>>
    /\ disk' = Restrict(disk, DOMAIN disk \ Listed)
    /\ local' = [local EXCEPT ![c].at = "commit"]
    /\ UNCHANGED <<row, requests, crowded, renamed>>

\* the pictures go first, and no handler is asked to stop
Rmtree(c) ==
    /\ At(c, "rmtree")
    /\ dirs' = {} /\ disk' = <<>> /\ told' = <<>>
    /\ local' = [local EXCEPT ![c].at = "commit"]
    /\ UNCHANGED <<row, requests, crowded, renamed>>

\* some of the tree cannot be removed: a warning in the log
RmtreeFails(c) ==
    /\ "rmtree_fails" \in Faults
    /\ At(c, "rmtree")
    /\ \E left \in SUBSET DOMAIN disk :
           /\ disk' = Restrict(disk, left)
           /\ dirs' \in {d \in SUBSET dirs : {p[1] : p \in left} \subseteq d}
    /\ told' = <<>>
    /\ local' = [local EXCEPT ![c].at = "commit"]
    /\ crowded' = crowded \cup DOMAIN disk'
    /\ UNCHANGED <<row, requests, renamed>>

\* the row goes, or the commit of a second deletion fails
Commit(c) ==
    /\ At(c, "commit")
    /\ exists' = FALSE
    /\ Answer(c)
    /\ UNCHANGED <<docs, files, requests, told, crowded, renamed>>

-----------------------------------------------------------------------------
\* the worker of the request is lost; the file it was writing may be cut short
Dies(c) ==
    /\ "dies" \in Faults /\ local[c] # Idle
    /\ \/ UNCHANGED disk
       \/ Saving(c) /\ Acceptable(c) /\ local[c].slug \in dirs /\ CutShort(c)
    /\ Answer(c)
    /\ UNCHANGED <<row, dirs, requests, told, crowded, renamed>>

Init ==
    /\ exists = TRUE /\ docs = FirstDocs
    /\ dirs = {} /\ disk = <<>> /\ told = <<>>
    /\ local = [c \in Curators |-> Idle]
    /\ requests = 0 /\ crowded = {} /\ renamed = {}

Handler(c) ==
    \/ BeginUpload(c) \/ Prepare(c) \/ Save(c) \/ SaveRefused(c) \/ SaveFails(c) \/ Uploaded(c)
    \/ BeginDelete(c) \/ Unlink(c) \/ Rmdir(c)
    \/ BeginRename(c) \/ Check(c) \/ Rename(c) \/ NotThere(c)
    \/ BeginAdd(c) \/ BeginReplace(c) \/ WriteDocs(c) \/ WriteFails(c)
    \/ BeginDiscard(c) \/ Rmtree(c) \/ RmtreeFails(c) \/ Commit(c)
    \/ Dies(c)

Next == \E c \in Curators : Handler(c)
Spec == Init /\ [][Next]_vars

-----------------------------------------------------------------------------
(* Properties                                                               *)

TypeOK ==
    /\ exists \in BOOLEAN /\ requests \in 0 .. MaxRequests
    /\ docs \in Seq(Slugs) /\ Len(docs) <= MaxDocs
    /\ dirs \subseteq Slugs /\ renamed \subseteq Slugs
    /\ DOMAIN disk \subseteq dirs \X Names /\ Range(disk) \subseteq Pictures
    /\ DOMAIN told \subseteq Paths /\ Range(told) \subseteq Pictures
    /\ crowded \subseteq Paths \cup {Column}

\* A picture of which a curator was told that it is stored (upload_image,
\* rename_image) is on the disk, and it is that picture, whatever the other
\* requests do to other files of the same directory: no rmdir, no refused or
\* broken upload and no change of the documents takes it away.  What overlapping
\* requests do to one and the same file is not promised.
Stored == \A p \in DOMAIN told \ crowded : p \in DOMAIN disk /\ disk[p] = told[p]

\* list_images shows every picture on the disk of a release that exists, unless
\* update_document has given its document another slug or two requests have
\* written the documents at the same time.
NoneHidden ==
    exists /\ Column \notin crowded => \A p \in DOMAIN disk : p \in Listed \/ p[1] \in renamed

\* When delete_release is done and no request is left, no picture of the
\* release is left either, but for those that were on their way during the
\* deletion and those that rmtree could not remove.
GoneWithRelease ==
    ~exists /\ (\A c \in Curators : local[c] = Idle) => DOMAIN disk \subseteq crowded

\* No step makes a picture disappear, under whatever name, but unlink and
\* rmtree, and but for files on which two requests overlapped: the look for the
\* names in upload_image and rename_image is enough for one request at a time.
PicturesSurvive ==
    [][\A p \in DOMAIN disk \ crowded :
           \/ disk[p] \in Range(disk')
           \/ \E c \in Curators :
                  \/ At(c, "rmtree") /\ local'[c].at = "commit"
                  \/ At(c, "unlink") /\ local'[c].at = "rmdir" /\ Source(c) = p]_vars
=============================================================================
