# The CERN Open Data portal in TLA+

This directory specifies the parts of the portal that keep state and are changed
by several actors at once: the **cold storage**, which moves the files of a record
between disk and tape; the **releases**, with which the curators of an experiment
bring records into the portal, their validations and fixes and their pictures; the
**catalogue** of records, PIDs, files and search documents, which the commands
`cernopendata fixtures` and `cernopendata datacite` fill; and the nightly task that
compares the catalogue with a **dump of EOS**. The modules are checked by TLC on small
instances; for the cold storage, the releases, the catalogue, the dump and the pictures the
invariants are also proved with TLAPS, for every number of records, files, requests and
processes (releases: for one curator, and any number of entries and tasks).

Paths are relative to `src/cernopendata/`.

## The system

| Component | Code | State | Operations | Modelled |
|---|---|---|---|---|
| Requests and transfers | `cold_storage/service.py`, `tasks.py`, `api.py`, `models.py` | tables `cold_request`, `cold_transfer` | one pass of the celery task `check_transfers`: poll the transfers, start submitted requests, complete running ones | `ColdStorage` |
| Storage manager and catalogue | `cold_storage/manager.py`, `catalog.py`, `storage.py` | tags of the file versions, JSON of the records, the files on disk and on tape | move a record (stage, archive), clear the hot copy, reindex | `ColdStorage` |
| FTS | `cold_storage/transfer/fts.py` | jobs, outside the portal | submit, poll | `ColdStorage` (external) |
| Command line of the cold storage | `cold_storage/cli.py` | none | `archive`, `stage`, `clear-hot`, `process-requests`, `process-transfers` | `ColdStorage` |
| Stage view | `modules/records/utils.py` | files a request | `stage` | `ColdStorage` |
| Releases | `modules/releases/api.py`, `views.py`, `tasks.py` | table `releases`: JSON of the entries, status, errors | 11 handlers and the tasks `stage_release`, `publish_release` | `Release` |
| Pictures of the documents | `modules/releases/views.py`, `api.py` | a directory for each slug | upload, list, rename, delete; what replacing a document and deleting a release do to them | `Images` |
| Validations and fixes | `modules/releases/validations/` | `valid`, the entries, `max_recid` | validate; press *fix* | `Fixes`; as the quality of an entry in `Release` |
| Catalogue | `modules/fixtures/cli.py`, `modules/records/minters/`, `api.py` | PIDs, rows, buckets and their objects, search index | `records`, `docs`, `glossary` in six modes | `Catalogue`; one entry at a time in `Release` |
| DataCite | `modules/datacite/` | DOIs, here and at DataCite | `register`, `update`, `sync-pidstore` | `Catalogue`, `Release` |
| File indices | `api.py` | rows of `FileIndexMetadata`, the buckets they own | create, delete, availability | `Catalogue` |
| EOS dumps | `tasks.py` | two search indices | `process_eos_dump` | `EosDump` |
| Serializers, search, pages, themes, legacy URLs | `modules/records`, `views.py`, ... | none of their own | conversions and rendering | no |

**How they interact.** The cold storage is one database and one external service.
A user's request is a row with status `submitted`; a pass of the celery task turns it
into transfers (`started`) and, once the availability of its record is no longer
`requested`, completes it. The operators' commands go through the same manager and
catalogue without filing a request. The manager decides from the *JSON of the record*,
which is a dump of the *tags* of its files, which are meant to say what is *on disk
and on tape*: three copies of one fact, each written at another moment. The row of a record has a version
counter: a process that saves a record which another one has saved since it was read raises, and loses its transaction.
A release is one row. The web requests edit it, mostly by reading the whole JSON and
writing the whole JSON; staging and publishing lock it with a status
(`STAGING`, `PUBLISHING`) and leave the work to a celery task, which creates the
records in the portal or makes them public. The fixes of a release change its entries one validation
after the other in one session, and take numbers and slugs that the rest of the portal takes too.
The pictures of its documents are files that no row knows of; they hang from the slugs of the documents.
Everything meets in the catalogue: releases and loaders create and delete its records,
the cold storage changes their tags and JSON, DataCite is told of their DOIs, and the
EOS dump maps the files on EOS to them.

**What is hard.** Passes that overlap with each other and with commands; a decision
taken from a JSON that somebody else has changed since; crashes and refused saves between an effect
(file removed, entry indexed) and its commit; an FTS that forgets, refuses, cancels
or cannot be asked; the row lock of a release that is followed by a check of
what was read before it; celery tasks that fail half way or are lost; fixes that undo each other's
work; a loader that commits a record in two halves and indexes it after both; a dump that asks
the database in one step and writes the indices in a later one, in a bulk that may stop half way; file operations that check first
and act later. `PROJECT.json` lists each hazard at its line with the properties that cover it.

**What makes it correct.**
- Cold storage: no file is ever without a copy; the catalogue never says *archived* of
  a file that is not on tape, and the JSON never promises a copy that the tags do not; nothing is
  transferred twice or beyond the threshold; every request ends, and brings its files back.
- Releases: the portal has all the records of a staged release, or none; a preview always
  belongs to a release that can publish it or take it back; what is public stays
  public; one task at a time; a task always gives the release back.
- Fixes: no two fixes give one number; no press that makes a release READY loses files; a few presses repair what can be repaired.
- Pictures: what a curator was told is stored stays, is listed, and goes with the release.
- Catalogue: a PID always leads to a live record, and a live record has all its PIDs; after a command
  that ended well, row, buckets and index agree; a registered DOI is known to DataCite.
- EOS dumps: a dump that succeeds covers all its files and puts none into both indices; what the
  catalogue keeps is mapped in the end.

## The modules

```
TieredStorage        copies on disk and tape: what the cold storage promises
  ^ implemented by
ColdStorage          requests, transfers, catalogue, commands, FTS, crashes
  ^ extended by      MCColdStorage (instances)   ColdStorageProofs (theorems)
                                                   ^ ColdServiceProofs  ^ ColdJsonProofs

ReleaseLifecycle     what a release promises about the records of the portal
  ^ implemented by
Release              the row, the views, the celery tasks, index and DataCite
  ^ extended by      MCRelease (instances)     ReleaseProofs (theorems)

Fixes                the validations and the fix button of several releases
  ^ extended by      MCFixes (instances)       FixesProofs (theorems)

Images               the pictures, next to the changes of documents and releases
  ^ extended by      MCImages (instances)      ImagesProofs (theorems)

Catalogue            loaders, file indices, DataCite, disks that are cleared
  ^ extended by      MCCatalogue (instances)   CatalogueProofs (theorems)
  ^ composed with the nightly task by
EosDump              the two indices, next to everything the catalogue does
  ^ extended by      MCEosDump (instances)     EosDumpProofs (theorems; uses CatalogueProofs)
```

A definition whose comment begins with `(mutant)` is a plausible mistake in the definition below
it; no specification uses it. It is there to show that a property would notice the mistake.

### ColdStorage

| Variable | Code |
|---|---|
| `live`, `tags`, `json`, `avail` | records; `ObjectVersionTag`s of the files; the tags in the JSON of the record; its `availability` |
| `requests`, `rows` | `RequestMetadata` and `TransferMetadata` rows |
| `hot`, `cold` | the storages: files on disk, on tape |
| `jobs` | FTS |
| `fresh` | for each record, the processes whose object of it is its current row: what the version counter of the row compares |
| `local` | a process: where it is in the code (`pc`), and its local variables |

A step is what the code does between two commits or external effects.
`pending` holds the tag changes not committed yet and `queue` the records to reindex
(`Catalog.reindex_queue`); `snap` is the JSON that was read at the start of a move and
from which the rest of it decides. A pass of the service is
`ProcessTransfers`, `TransferDone/Failed/Pending`, `EndTransfers`; then `CheckSubmitted`,
`TakeRequest`, the move of one record (`SkipFile`, `RegisterCopy`, `NeedTransfer`,
`SubmitJob/SubmitFails`, `CreateTransfer`, `CloseRecord`), `CloseRequest`; then
`CheckRunning`, `CheckRequest`, `SaveAvailability`, `MarkAsCompleted`. A command is the same move
with other options, or the pieces of the pass, or `clear_hot`. `Crash` forgets a
process at any point; `CheckRequestRaises` is the exception the code does not catch.

Every save of a record is two steps, for others may act between them. `Reads` notes that a process has the
row as it is; `reindex_entries` dumps the records in its queue (`Dump`, with the tags of that moment) and then
saves them with the tags it has to commit (`SaveRecords`), `save_record_availability` does the same with the availability.
The save needs the row to be the one that was read (`CanSave`), and makes every other object of it an old one (`Saved`);
otherwise it raises: the tags that were not committed, the queue and the rest of the pass are lost, and what was done
outside the database is not. Passes, commands, the stage view and the deletion of a record all save rows.

Abstracted: an FTS job is an identifier that is used once; a transfer holds one file, as in the code;
archive requests are left out (no code files one, commands archive directly), so are the mails (a failing one is
only logged, so that nothing can be said of them), the number of failed transfers that a request shows,
`--limit`, the `cold_location` table, sizes, the search index and the listing commands.

### Release

| Variable | Code |
|---|---|
| `row` | the row: `exists`, `status`, `items` (the JSON of records and documents), `strict` (the optional validation is enabled), `dup` (the PID validation failed), `errors` (`num_errors` is not 0), `named` (name, link or description were edited) |
| `portal` | for each PID: free, a preview of the release, public, or something else's |
| `index`, `dois` | search index, DataCite |
| `local` | requests of curators and celery tasks |

An entry has a *quality*: `bad` (a required validation rejects it), `odd` (an optional one
does), `ok`, or `doi`. The session of SQLAlchemy is part of the model because
the code relies on it: columns are those read when the request began until its next
commit (`seen`), a column that ends up with the value it was read with is not written (`Net`), the
JSON of the entries is always written whole (`flag_modified`), `SELECT ... FOR UPDATE`
does not refresh an object that is loaded, and a handler that validates flushes, so
that it holds the row until it commits (`RowIsLocked`).

Each request is `Begin`, `Load` (the status the view asks for), `Lock` for the
handlers that take it, then `Edit` + `CommitEdit` for the seven that validate,
`ReadEntries` + `CommitDois`/`CommitRollback`/`CommitDelete`, or `Send`. A task is `Start`, then
`StageEntries` (one transaction), or `PublishEntry` for each entry (index and
DataCite are told at once) and `PublishRelease`; failure at any point is `Fails`,
`GetAgain`, `MarkFailed`. `EditMetadata` is the one handler that looks at no status and that the page offers in every one,
also for a published release; it writes columns of its own. `Dies` is a request that fails at any point, also after its
lock (`request_fails`), or a worker that is lost. `ViaPage` restricts the curators to pages: a page offers what it shows in
the status of the release when it is opened (`Begin`), and its request may come when the release has moved on (with one curator: only by
a task). `Shown` joins the navigation, the body and the menu of the page. Without `ViaPage` any request may come at any
time, as from a script.

Abstracted: one release; the values of name, link and description, the history; the content rules of the
validations, which are in `Fixes`; the order of entries; two equal PIDs inside one upload are an entry that is `bad`;
the number of errors is zero or not. `Renumbered` gives any free recid where the code takes the
next one; an `odd` record gets no DOI.

### Fixes

| Variable | Code |
|---|---|
| `release` | the committed rows: records, documents, `valid` for each validation, `max_recid`, status, errors |
| `session` | what the press that is going on has loaded and changed, and the validations it still has to fix |
| `pids`, `images` | PIDs registered by the rest of the portal, pictures on the disk |
| `upload`, `presses` | for the properties: what the release was created with, presses since the world last changed |

`Press` takes the lock and commits; `Fix(r, check)` is the `fix` of one failing validation on
the entries of the session, in any order, for the database gives none; `FixRaises` is one that
raises, after which the session is lost and the lock stays; `Finish` validates and commits. Each of
the 14 validations has its rule (`ValidRecid`, `ValidCms2016`, ...) and, where it has one,
its fix (`FixRecid`, `FixCms2016`, ...), in the terms in which they disturb each other: a
number, a title, a relation that carries the number of another record, a DOI with prefix and suffix, the
list of files with wildcards and bare entries, slugs and links. The standard fields that a fix fills
are a set of the checks they satisfy; a schema is met or not. `Register` and `UploadImage` are the
rest of the portal.

### Images

| Variable | Code |
|---|---|
| `exists`, `docs` | the row of the release, the slugs of its documents |
| `dirs`, `disk` | the directories below `CERNOPENDATA_IMAGES_PATH/<release>` and their files |
| `local` | each request: the call it makes next, what it has listed, saved and read |
| `told` | for the properties: what curators were told is there |
| `crowded`, `renamed` | for the properties: files (or the column of the documents) two requests were about at once; slugs that were given up |

A step is one system call, or one access to the row: an upload is `Prepare` (make and list the
directory), a `Save` for each picture, `Uploaded`; a deletion `Unlink`, `Rmdir`; a rename `Check`,
`Rename`. `add_documents` and `update_document` read the column of the documents when they begin and write all of it
(`WriteDocs`); `delete_release` removes the tree (`Rmtree`) and commits (`Commit`). A file is written in
place, so a save that fails or dies may leave it `Torn`. Names are those after
`secure_filename`; `Bad` stands for what `_validate_image` refuses.

### Catalogue

| Variable | Code |
|---|---|
| `pids` | `PersistentIdentifier`: `recid`, `docid`, `termid`, and `oai` of a record |
| `rows` | `RecordMetadata`: live or deleted, the version, the JSON with what it says of its files (`seen`) |
| `store` | the buckets of the record and of its file indices: their objects, which of them are tagged `hot_deleted`, a generation, for they are made anew each time, and the `older` versions that are not the head of their key |
| `strays` | `FileInstance` rows without an object |
| `search` | the documents of OpenSearch with their external version |
| `dois`, `hot` | DOIs as PIDs and at DataCite; the files on disk |
| `local` | each command: mode, entries left, the row it has read, the JSON it has in memory |

`Read` looks for the PID and loads the row, `Create` mints, stores and commits; a replacement with files is
`ReplaceFiles`, which commits through the file indices, and then `UpdateRow`; `Delete` removes
rows, objects and PIDs; `Index` is the call after the commit. An object has the last part of the URI (`Filename`) as
its key: of several files of a record with one name the last is the head, the others are older versions, which
neither a replacement nor a deletion removes (`Stored`). `Skip` and `Refuse` are the modes that go on and those
that end the command. The version counter of the row (external: SQLAlchemy) is what ends a
command that writes a row another one has changed (`Current`). `Register`, `RegisterCommits`, `RegisterDies`,
`UpdateDoi`, `SyncPidstore` are the commands of `datacite`, `ClearHot` what the cold storage does to these rows.

### EosDump

`EosDump` adds to the catalogue the two indices `mapping` and `dark`, the times of access
on EOS (`accessed`), and the `task`: `StartDump` reads the dump,
`CompareWithMapping` takes a batch and brings the times in the mapping up to date, `QueryDatabase` looks the
unknown files up, `WriteIndices` is the bulk. Between any two of these the loaders take steps, so
what the database answered is old when it is written. What `update_by_query` does not
update is only logged (`refused`). A batch that raises is counted, and the next one is processed: before the database
is asked (`CompareFails`), or in the bulk (`BatchFails`), which is sent in chunks and stops after the first with a
refused item, so that any of the items may be done and the others not.

## The runs

All runs finish within seconds to a few minutes. In the passing runs nothing is found; the three runs
that end in a violation each show a disagreement between the code and what it says of itself.

| Run | Question | Instance |
|---|---|---|
| `ColdRecovery` | no duplicate transfer, availability, completion of requests, with every fault and deletion | the service alone, 1 record, 2 files, 2 requests, 2 jobs, threshold 2 |
| `ColdTape` | no data loss, tape honesty, JSON that promises no more than the tags, refinement of `TieredStorage`: the parts of `TapeInv` that readers see | 1 file; all commands, options and faults |
| `ColdProgress` | every request is completed, every requested file arrives on disk; the threshold is respected | fair, transfers that fail or are canceled, threshold 1 for 2 files, 2 requests, 3 jobs |
| `ReleaseCurator` | portal and release agree; refinement of `ReleaseLifecycle` | 1 curator on the page, every handler, every fault, 3 tasks, a PID that is taken |
| `ReleaseTeam` | a task gives the release back | 2 curators, 2 tasks, fair, failing requests and tasks |
| `Fixes` | no two fixes give one number; no press loses files; three presses are enough | 2 releases of several uploads, all validations, Rucio and listings may fail (a listing also half way), PIDs and pictures that appear |
| `Images` | what was announced is stored, listed, and goes with the release | 2 curators, 2 documents, 2 names, 4 requests, every fault |
| `Catalogue` | PIDs resolve; a clean load agrees; DataCite knows what is registered | 2 loaders, 3 of 9 commands in any order, 2 rows, every fault, DataCite and `ClearHot` at any time |
| `EosDump` | a good dump covers its files, and puts none into both indices; what is kept is mapped in the end | 1 loader, 2 commands, two files of one name, batches of 2 of 3 files, crashes, partial bulks and refused updates |

| Run (violation) | What the code does |
|---|---|
| `ColdService` | `clear_hot` removes a file and then cannot save its tag, for the service has saved the record meanwhile: online, and not on disk |
| `ReleaseTwoTasks` | the lock lets two requests through that loaded the release before it |
| `CatalogueTape` | loading a record again forgets that its files are only on tape |

**Where a passing property stops holding.** The passing runs leave out actors or faults that the code does not
protect itself from. Put back, each of them is a behaviour a maintainer should know of:

- With `stage` among `CliOps`, `ThresholdRespected` fails: the
  command looks at no threshold. Two operators who archive one record at the same time both find its
  files not scheduled, and both move them (`NoDuplicateTransfer`); a crash between the call of FTS and the commit of the
  transfer leaves a job that no row knows of, which that property, being about rows, does not count. With two `Beats` the
  passes overlap, and the slower writes `started` over `completed`. With `delete_record` among the faults
  of a fair run, a started request for a deleted record raises in every later pass and the requests
  behind it are never served (`RequestsComplete`). A version conflict in `reindex_entries`, or a deleted record in its
  queue, ends the pass and leaves the JSON of all the records of the queue behind their tags until something
  dumps them again: `JsonPromisesNoMore` says that this is so only in the harmless direction. A job that FTS cancels is
  polled by every pass and never closed, its record stays `requested`, and it takes its room under the threshold for
  ever: `RequestsComplete` and `RequestedFilesArrive` except it (`Stuck`).
- With `ViaPage = FALSE` a published release can be changed, for the views that add entries ask for no status, and
  a rollback after such an edit deletes records the release has not staged. With two `Curators`
  who edit, one of two records added at the same time is lost. After a publication that failed half way and a
  rollback, the search index still has the entries that had been told to it. A request that raises after its lock (`views.py`:
  `update_records`, `bulk_edit_records_apply`, `fix_checks`) leaves the release `EDITING`, with nothing that takes it
  back: `TransitionsEnd` is therefore about tasks.
- With `Overlap = TRUE` two releases that are fixed at the same time read the same maximum and give the same
  numbers (`NumbersStayApart`). Even one after the other they may give a number that a record has brought along, of
  the same release or of another: the counter looks at what fixes have given and at what is registered, not at the
  entries. Within a release no further press repairs that, for a recid that has the pattern and is not
  registered is left as it is; `NumbersStayApart` and the `recid` part of `Repaired` are worded accordingly. A press whose listing
  fails half way leaves the release a `DRAFT` without its wildcards; the next press finds nothing to expand and makes it
  `READY` without the missing files. `PressesKeepFiles` is about one press: the error of the fix is what it checks.
- With two loaders, `PathsHeld` fails: a record that is deleted while another command replaces its files
  keeps the new objects. With one, older versions stay behind too (`Namesakes`), and no record that lists them can be loaded again. `CleanLoadAgrees` only speaks of commands that ran alone: with a writer in between, the
  index keeps the older JSON under the newer version. A file that fails to load stays a stray, and its
  unique URI ends every later load that lists it. `--skip-files` loses the tags in the JSON and the availability.
- A bulk that stops half way puts a file into the mapping and leaves it among the dark ones, and later dumps never look a mapped
  file up again: it is in both for ever. `OnlyFailuresDouble` says that only a dump that reports a failed batch can do
  that. For the same reason a mapping to a record that is deleted afterwards stays: `CataloguedIsMapped` says that a file is
  mapped, not to which record.
- Requests about one picture are told contradictory things: two uploads of one name both succeed and one
  replaces the other; a rename replaces what came to the new name since it looked. `crowded` takes
  these out of `Stored` and `PicturesSurvive`. A document that is given another slug leaves its pictures
  where no handler looks (`renamed`). If the commit of `delete_release` fails, the release is there
  without its pictures; an upload accepted before it makes the directory again. An upload that failed
  at its second picture and is sent again is refused with 409, for the first is there.

**Bounds.** `Requests` and `Jobs` bound the requests and jobs ever made, `Tasks` the celery tasks ever
sent (`TaskLeft`); `MaxCommands` the commands, `MaxRequests` the requests about
pictures, `MaxDocs` the documents, `MaxPresses` the presses in a row; the rest of the state is finite by itself.
Two files of one record are what it takes for a record to be partly moved, for a pass to
stop in the middle of it, and for a reindex queue that is shorter than the work; two
requests are a race for one record; a threshold of 1 for two files makes every pass run out
of room, one of 2 lets a request start while its transfers run.
A file's copies do not depend on other files, so `ColdTape` needs only one, and can afford every command, option and
fault; the proofs remove the bound. For a release, a free recid, a taken one and a document are the cases
that PID validation, numbering and staging tell apart, and three tasks allow
stage, failure or rollback, stage again and publish. The passing run has one curator
because with two the lock does not hold (`ReleaseTwoTasks`), and what it protects
falls with it. Two releases suffice for numbers that meet; `Enough` is 3 because
numbers, relations and texts depend on each other in a chain of that length, and `MaxPresses` is one more. The one directory of the instance has two
files, so that a listing may fail with none, one or both of them found.
Three commands create, replace and delete a record, or let two loaders meet on one
PID after a first that died; two rows are one that is reused by a PID and one that was deleted.
Three files, one of which is ignored, and batches of two with two to come make a whole batch, and
a dump without a cleared file a smaller one. Four requests about pictures are an upload, a rename that races with
another request, and a deletion; the proofs remove all bounds of the catalogue, the dump and the pictures.
Deadlock is checked in the cold storage; the other systems may stop: when their tasks, presses, commands or
requests are used up, or the release is deleted.

**Fairness.** `ColdStorage`: weak fairness of the steps of the service (celery beat starts the task
every period and a worker runs it) and of the end of each FTS job. Nothing is assumed of users,
operators, failures or crashes. With a crash at every pass no progress is possible, so
liveness is checked without crashes. `Release`: weak fairness of each request that is being served
and of each task in a worker. `TransitionsEnd` assumes that no worker is lost: then the code has
nothing that takes the release out of `STAGING` or `PUBLISHING`. Requests may fail in it, at any point. `EosDump`: weak fairness of the task (it
is in the schedule of celery beat, `config.py`), and that there is always another dump in which no batch fails: any dump may
have failing batches, but not every dump from some night on. It is an assumption about the search engine, and needed: files that
a bulk refuses every night are never mapped. Nothing is assumed of the loaders, which may stop or crash anywhere.
`Catalogue`, `Fixes` and `Images` are checked for safety only: their commands and requests are started by people.

## The proofs

`ColdStorageProofs` proves for every value of the constants that satisfies the
assumptions in `ColdStorage` (`RecordOf` is a function from files to records; `Jobs` is finite;
the threshold is positive; `None` is not a name of anything; the options, limits and faults are among those that exist):

| Theorem | Statement |
|---|---|
| `TypeCorrect` | `Spec => []TypeOK` |
| `TapesSound` | `Spec => []TapeInv` |
| `NoFileIsLost` | `Spec => []NoDataLoss` |
| `CatalogIsHonest` | `Spec => []ColdIsOnTape` |
| `StorageIsTiered` | `Spec => TieredSpec` |

*No file is lost* is not inductive. `clear_hot` removes a file from disk because the JSON it read when
it began said `uri_cold`; between that and the removal, other processes have acted. So
the invariant `TapeInv` also has that what the catalogue calls archived is on tape
(`ColdIsOnTape`), in the tags and in the JSON, and that so is what a process has *read* to be
archived (`snap`), what it is about to enter as archived (`pending`), and what a finished archive
job stands for (`WorkIsOnTape`). It is kept because the tape never loses a file: `cold` only grows,
so a belief that was true when formed remains so. `TypeOK` comes first, with
`InHand`: a process has what the code it has come to will use. The proof has a lemma for
each group of actions (`MoveOnTape`, `RequestOnTape`, `TransferOnTape`, `ClearOnTape`,
`CommandOnTape`, `WorldOnTape`) and a step for each action in it.
`StorageIsTiered` follows: the storage is changed by a copy that ends and by `clear_hot`, and
`TapeInv` gives their guards in `TieredStorage`.
TLC checks `TapeInv` in `ColdTape`, but for `WorkIsOnTape`, which only the proof needs.

`ColdServiceProofs` is about what the service promises, and needs
less company than the model allows, as "Where a passing property stops holding" shows, so each theorem names the company
it holds in: `OneMover` is one process in `Beats`, and any operators who archive and clear files and process transfers,
with every fault; `OneArchiver` is that no two operators archive. `ColdJsonProofs` needs no such hypothesis. That is all the
company of the runs, so each property of theirs that is not liveness has its theorem.

| Theorem | Statement |
|---|---|
| `RequestedStays` | `OneMover => (Spec => []RequestedWhileStaging)` |
| `NoFileMovesTwice` | `OneMover /\ OneArchiver => (Spec => []NoDuplicateTransfer)` |
| `ThresholdHolds` | `OneMover => (Spec => []ThresholdRespected)` |
| `CompletionIsSettled` | `OneMover => (Spec => SettledWhenCompleted)` |
| `JsonIsHonest` | `Spec => []JsonPromisesNoMore` |

For the first four, `ServiceInv` says what the pass relies on between two of its commits: a request in service is
still submitted (`ServingOK`), the room left and the transfers under way make up no more than the threshold
(`CountingOK`: others can only end transfers), the file handed to FTS is still not scheduled when its transfer is
committed (`SubmittingOK`), and a request about to be completed is settled (`CompletingOK`). A pass that archives runs
through the same code next to it, so `ArchivingOK` says that it serves no request and that its job is one of archiving:
the transfers it creates are not counted. `SaversOK` is what the version counter gives: an availability that was computed, and is still to
be saved, says `requested` of a record that is being staged, unless the row was saved by somebody else since it was read, and
then it will not be saved. All steps that start no staging are one lemma, `CalmKeepsWorkers`.
The service by itself only gives that no file is staged twice (`StagedOnce`); `ArchiveInv` adds that none is archived
twice, for the file in the hands of the only archiver is still not scheduled (`ArchiverOK`).

`JsonPromisesNoMore` is about a dump that is made in one step and saved in another, while any other process
commits tags. `SavingOK` says of a process about to save that the tags of its commit confirm what it has dumped, for each
record whose row nobody has saved since it was read. Copies that are added (`RetagConfirms`) keep that; `clear_hot`, which takes one
away, saves the record of each file it tags in the same commit (`ClearingOK`), and so makes every other dump of it an old one. `SavingKept` is
the lemma for the processes that do not act.

`ReleaseProofs` proves `AlwaysTypeOK` for any curators and either value of `ViaPage`, and the others for
`OneCurator`: one curator, who uses the page, with any records, documents and tasks, and under every fault.

| Theorem | Statement |
|---|---|
| `AlwaysTypeOK` | `Spec => []TypeOK` |
| `AlwaysRegistered`, `AlwaysPublic`, `AlwaysNoOrphans` | `StagedIsRegistered`, `PublishedIsPublic`, `NoOrphans` |
| `AlwaysOnlyValidated`, `AlwaysOneTask` | `OnlyValidated`, `OneTask` |
| `Implements` | `Spec => LifecycleSpec`: the release is a `ReleaseLifecycle` |

None of these is inductive: what keeps the portal and the row together is what every process knows
of the row while it is between two commits. `Core` says it: the previews are exactly the entries of a row that is
`STAGED` or `PUBLISHING` (`Previews`); a task that is not finished is the only one, no request
is made next to it, and the status is the one the lock gave (`Underway`), so that the entries the task copied at its
start are still those of the row, and those it has not to do any more are in the index; a request sees the status
the page showed, and what it is about to write was made of the row as it is (`Asked`, `Prepared`). There is a
lemma for each action, all with the conclusion `Kept`: `Core` again, a step of the lifecycle or none, and no change
of a row that is published, but of its metadata (`EditMetadataKeeps`). The assumption is needed: with two curators `OneTask` fails (`ReleaseTwoTasks`),
and without the page the previews are not the entries of the row.

`CatalogueProofs` proves, for any rows, files, loaders and commands, and under every fault:

| Theorem | Statement |
|---|---|
| `CatalogueTyped` | `CatalogueSpec => []CatalogueTypeOK` |
| `PidsAlwaysResolve` | `CatalogueSpec => []PidsResolve` |
| `RegisteredIsKnown` | `CatalogueSpec => []RegisteredAtDataCite` |
| `CleanLoads` | `CatalogueSpec => []CleanLoadAgrees` |
| `FilesAreHeld` | with one loader, `CatalogueSpec => []PathsHeld` |

A command relies on what it has read only as far as the version counter protects it: `Relies` says
that a row whose version is still the one that was read is the row the command knows, and that
a row in whose second half it is (`written`) still leads back to its PID. `PidsResolve` is kept with it by
`Create` (the PIDs are free when they are minted) and `Delete` (all of them go).
For a command that is `alone` the stronger `Undisturbed` holds at each of its steps: buckets, memory and row
follow each other, and everything it has written so far is in the index. `PathsHeld` adds to that
that with one loader no row is deleted between the two halves of a replacement, and `OlderAreNamesakes` that a file only
becomes an older version next to a file of the same name in one upload. Names are only compared with
`"none"` and with each other, so the assumptions are the named `ASSUME`s of `Catalogue`.

`EosDumpProofs` proves `TaskOnlyReads`, that the task with its commands is an implementation of the commands
alone (each behaviour of `EosDump!Spec` is one of `CatalogueSpec`, so that the theorems above carry over, as
`FilesAreHeldMeanwhile` does for `PathsHeld`), and with it `DumpsCover` and
`NeverDoubled` (`OnlyFailuresDouble`) for any batch size, any number of files and every fault. The invariant says at each step of the task that
each file of the dump is left, in the batch, or already written with the time of the dump unless the index refused it, or else a batch has
failed; and that the files for which the database is asked are not in the mapping, so that a bulk that succeeds takes out of the dark files all that it maps.

`ImagesProofs` proves `AlwaysTypeOK`, `AlwaysStored`, `AlwaysNoneHidden`, `AlwaysGoneWithRelease` and
`AlwaysPicturesSurvive` for any number of curators, requests, documents and names. None of the
properties is inductive. `Met` says that two requests about one file are in `crowded`, and
so gives each request its own files: `OthersSound` uses it to show once and for all that what a request believes
(`Sound`: what it has saved is there, the listing it goes by still holds, the name it
renames to is still free) is not disturbed by the steps of others. `Reachable` ties the files on the disk and the requests to
the documents, as long as nobody writes the column of the documents over another's; `Going` says that
after the tree was removed only crowded files are written. `IInv` is the conjunction, and
`StepInv` has a lemma for each action.

`FixesProofs` proves, for any finite set of releases and any uploads, registered PIDs, validations, trees of files and
datasets:

| Theorem | Statement |
|---|---|
| `TypeOKAlways` | `Spec => []TypeOK` |
| `NumbersStayApartAlways` | `~Overlap => (Spec => []NumbersStayApart)` |
| `PressesKeepFilesAlways` | if `expand_files` is enabled, `Spec => PressesKeepFiles` |
| `FixIsEnoughAlways` | `Spec => []FixIsEnough` |

They share `FixFrames`: each of the eleven fixes only writes its own columns (`RecordWrites`, `DocumentWrites`), whatever the
storages, Rucio and the generator of DOIs answer, and takes no error back. So an invariant about some columns
needs a closer look only at the fixes that write them. The assumptions are the named `ASSUME`s of `Fixes`: the uploads
are sequences of records and documents, directories are not files, Rucio's datasets have files and titles, registered
numbers are naturals.

- `TypeInv` says that a row, and the session of a press, always have as many records as were uploaded, each of them a
  `Record`. The DOIs a fix gives depend on each other, and have to be shown to exist before they can be typed (`DoisExist`).
- `NumbersInv` says of a row, and of the session of a press, that the counter is at least every number a fix has
  given in it (`CounterOK`), that these differ, and that they differ from those of the other releases (`Differ`).
  `StartIsAbove` is the step that matters: the maximum of the three queries is above all of them, because
  a press commits before the next one begins. `RecidFixed` counts on from there.
- `FilesInv` says that a press, as long as none of its fixes has reported an error, still promises the files that the row
  did when it was pressed (`Promised`: the files, and those of the directories), in whatever order the fixes run. It is not
  that they are there, for that is only true once the directories are gone. `ExpandedKeeps`, `MeasuredKeeps` and
  `DatasetKeeps` are the three fixes that rewrite lists; the last is only given records without a list, and those have no files (`Unlisted`).
  A listing that fails is an error of the fix, and then nothing is claimed but that the release does not become `READY`.
- `EnoughInv` says what each press has achieved. What the first does (`First`: fields, the pattern of recids, slugs,
  datasets) depends on nothing outside and is never undone (`FirstKept`), so from the second press on slugs, titles and
  patterns stay as they are. `Second` (free recids, valid DOIs, links) depends on the registered PIDs, which do not change
  while presses are counted, and on slugs (`SecondKept`); `Third` (relations) on recids and titles, and by
  then neither changes (`TitlesSettled`, `RelatedKept`). The invariant carries this through a press: a validation
  is still to be fixed, or an error was noted, or its part is done (`WorkDone`). Neither the order of the fixes nor other presses
  matter, so this theorem, unlike that of the numbers, also covers `Overlap`.

Model-checked only: liveness (out of the prover's reach) and releases with two curators.

## Not modelled

- Archive requests (nothing files one), subscriptions (an address appended to a request) and the mails, statistics of staging and
  the local `cp` transfers of the cold storage.
- What the name, link and description of a release say, its history and preview; the wording the validations ask for.
- `fixtures pids` (a migration that reads every row), the listing commands, the generated DOI of a record without one.
- The parsing of the lines of an EOS dump, and two dumps at once (the schedule starts one a day; two would overwrite
  each other's times of access).
- Serializers, OAI, OpenAIRE, search configuration, legacy URLs, markdown, pages, themes and JavaScript: conversions
  and rendering that keep no state. Authorisation: every curator may act on the release.
- The iteration over file indices and the listing of a record's files, which read and change nothing.

## Plan

Done: `ColdStorage` with `TieredStorage`, `ColdStorageProofs`, `ColdServiceProofs` and
`ColdJsonProofs`; `Release` with `ReleaseLifecycle` and `ReleaseProofs`; `Fixes` with `FixesProofs`;
`Catalogue` with `CatalogueProofs`; `EosDump` with `EosDumpProofs`; `Images` with `ImagesProofs`. What is left:

- `ColdStorage` over the buckets of `Catalogue` rather than one tag for each file, so that a record that is
  loaded again meets transfers that are under way.
- `OnlineMeansHot` without its one way to fail: what `clear_hot` would have to do first.
- Theorems with more company: what of `Release` holds with two curators, and what of the cold storage with two movers.
