---------------------------- MODULE ColdStorage ----------------------------
(***************************************************************************)
(* The cold storage of the portal (cernopendata/cold_storage): the files   *)
(* of a record live on disk (hot), on tape (cold) or on both, and four     *)
(* kinds of actor move them around over one database:                      *)
(*                                                                         *)
(*   users       the "stage" view, which files a request for a record      *)
(*   Beats       runs of the celery task check_transfers; several run at   *)
(*               the same time when a pass outlives the beat's period      *)
(*   Operators   command-line sessions of "cernopendata cold ..."          *)
(*   FTS         the external service that does the copies                 *)
(*                                                                         *)
(* A step of a process is what the code does between two commits or two    *)
(* external effects.  Tag changes that wait for a commit are kept in the   *)
(* process (pending), as is everything else a crash forgets.               *)
(***************************************************************************)
EXTENDS Naturals, FiniteSets

CONSTANTS
    Records, Files,     \* the catalogue
    RecordOf,           \* the record every file belongs to
    Requests, Jobs,     \* the identifiers of requests and of FTS jobs (bounds)
    Beats, Operators,   \* the processes
    CliOps, CliOptions, \* the commands the operators give, their options
    CliLimits,          \* and their --max_transfers, 0 for none
    Threshold,          \* COLD_ACTIVE_STAGING_TRANSFERS_THRESHOLD
    Faults,             \* what may go wrong in this instance
    None

Procs == Beats \cup Operators
Tags == {"uri_cold", "hot_deleted"}
AllCliOps == {"stage", "archive", "clear_hot",
              "process_requests", "process_transfers"}
\* ColdStorageActions
Actions == {"stage", "archive", "clear_hot"}
AllFaults == {"job_fails", "poll_fails", "submit_fails", "remove_fails",
              "job_canceled", "crash", "delete_record"}
Options == [register: BOOLEAN, force: BOOLEAN, dry: BOOLEAN]

ASSUME RecordOfAssumption == RecordOf \in [Files -> Records]
ASSUME JobsAssumption == IsFiniteSet(Jobs)
ASSUME ThresholdAssumption == Threshold \in Nat \ {0}
ASSUME CliAssumption ==
    CliOps \subseteq AllCliOps /\ CliOptions \subseteq Options /\ CliLimits \subseteq Nat
ASSUME FaultsAssumption == Faults \subseteq AllFaults
ASSUME NoneAssumption == None \notin Records \cup Files \cup Requests \cup Jobs

VARIABLES
    live,       \* the records that have not been deleted
    tags,       \* the ObjectVersionTags of every file
    json,       \* the tags of the file, as dumped in the JSON of its record
    avail,      \* the "availability" in the JSON of every record
    requests,   \* cold_request: the requests of the users
    rows,       \* cold_transfer: the transfer of every FTS job
    hot, cold,  \* the files that are on disk, and on tape
    jobs,       \* the jobs of FTS
    fresh,      \* the processes whose object of a record is its current row
    local       \* the state of every process

storage == <<hot, cold>>
catalog == <<live, tags, json, avail>>
vars == <<catalog, requests, rows, storage, jobs, fresh, local>>

FilesOf(r) == {f \in Files : RecordOf[f] = r}

\* What a request or a command can name: a record, or one file index of it.
Selections(r) == {FilesOf(r)} \cup {{f} : f \in FilesOf(r)}

-----------------------------------------------------------------------------
(* The state of a process.  left is the number of transfers it may still   *)
(* create, 0 meaning "no limit" in a command, as max_transfers does.  snap  *)
(* holds the tags of the files as read from the JSON of the record, and in  *)
(* the end what is going to be saved there, with the availabilities in avl. *)

ServiceOptions == [register |-> TRUE, force |-> FALSE, dry |-> FALSE]

Idle == [pc |-> "idle", act |-> "stage", opt |-> ServiceOptions,
         req |-> None, rec |-> None, files |-> {}, snap |-> [f \in Files |-> {}],
         file |-> None, job |-> None, left |-> 0,
         todo |-> {}, polls |-> {}, pending |-> {}, queue |-> {},
         avl |-> [r \in Records |-> "online"]]

At(p, label) == local[p].pc = label
Becomes(p, l) == local' = [local EXCEPT ![p] = l]
LocalOnly == UNCHANGED <<catalog, requests, rows, storage, jobs, fresh>>

-----------------------------------------------------------------------------
(* Queries.                                                                *)

\* Requests in a status, and transfers of an action that have not finished.
WithStatus(s) == {q \in Requests : requests[q].status = s}
Ongoing(act) == {j \in Jobs : rows[j] = "ongoing" /\ jobs[j].act = act}
JobsOn(r) == {j \in Jobs : jobs[j].file # None /\ RecordOf[jobs[j].file] = r}
IsScheduled(f, act) == \E j \in Ongoing(act) : jobs[j].file = f

\* _is_qos: is the file, with these tags, already where the action puts it?
IsQos(t, act) == IF act = "archive" THEN "uri_cold" \in t ELSE "hot_deleted" \notin t

\* (mutant) Only the requests count, not the transfers under way.
AvailabilityByRequest(r, js) ==
    IF \E q \in WithStatus("submitted") : requests[q].rec = r THEN "requested"
    ELSE IF \A f \in FilesOf(r) : "hot_deleted" \notin js[f] THEN "online" ELSE "partial"

\* MultiURIFileObject.availability
FileAvailability(t) == IF "hot_deleted" \in t THEN "on demand" ELSE "online"

\* The availabilities that the file indices of the record count.
FileKinds(r, js) == {FileAvailability(js[f]) : f \in FilesOf(r)}

\* check_availability: what the files of the record say, unless something is
\* being staged.  It looks at the JSON of the files, here js, not at their tags.
Availability(r, js) ==
    LET kinds == FileKinds(r, js)
        staging == \/ \E q \in WithStatus("submitted") : requests[q].rec = r
                   \/ Ongoing("stage") \cap JobsOn(r) # {}
    IN  IF staging THEN "requested"
        ELSE IF "on demand" \notin kinds THEN "online"
        ELSE IF "online" \notin kinds THEN "on demand" ELSE "partial"

-----------------------------------------------------------------------------
(* Updates of the catalogue.                                               *)

\* (mutant) The tag of clear_hot is misspelt.
RetagMisspelt(t, act) == CASE act = "archive"   -> t \cup {"uri_cold"}
                           [] act = "stage"     -> t \ {"hot_deleted"}
                           [] act = "clear_hot" -> t \cup {"deleted"}

\* What the end of an action does to the tags of one file.
Retag(t, act) == CASE act = "archive"   -> t \cup {"uri_cold"}
                   [] act = "stage"     -> t \ {"hot_deleted"}
                   [] act = "clear_hot" -> t \cup {"hot_deleted"}

\* The tags after the commit of the pending changes of a process.
Committed(l) ==
    [f \in Files |-> IF f \in l.pending /\ RecordOf[f] \in live
                        THEN Retag(tags[f], l.act) ELSE tags[f]]

-----------------------------------------------------------------------------
(* The row of a record has a version counter (version_id_col).  Whoever has *)
(* read the row can save it as long as nobody has saved it since; the save  *)
(* of an older object raises StaleDataError, and its transaction is lost.   *)

\* The process reads the rows of the records, and forgets those it had.
Reads(p, recs) ==
    fresh' = [r \in Records |-> IF r \in recs \cap live THEN fresh[r] \cup {p}
                                                     ELSE fresh[r] \ {p}]

Forgets(p) == Reads(p, {})

\* (mutant) The version counter is not looked at.
SavesAnyway(p, recs) == recs \subseteq live

\* Nobody has saved one of the records since the process has read them.
CanSave(p, recs) == \A r \in recs : p \in fresh[r]

\* The rows of the records change: every object of them is an old one.
Saved(recs) == fresh' = [r \in Records |-> IF r \in recs THEN {} ELSE fresh[r]]

\* flush_indices: the JSON of the records takes the tags that the database has.
Flushed(recs, ts) == [f \in Files |-> IF RecordOf[f] \in recs THEN ts[f] ELSE {}]

\* reindex_entries, first half: the record is dumped again, with the tags of
\* the database and those the process has still to commit.
Dump(l) ==
    LET ts == Committed(l)
    IN  [l EXCEPT !.pc = "save", !.snap = Flushed(l.queue, ts),
                  !.avl = [r \in Records |-> IF r \in l.queue
                                             THEN Availability(r, ts) ELSE "online"]]

-----------------------------------------------------------------------------
(* The catalogue starts with records whose files are on disk, archived, or  *)
(* archived and cleared from disk; the JSON is up to date.                   *)

\* "cold list --verify": where the tags of a file say that it has a copy.
OnDiskSays(t) == "hot_deleted" \notin t
OnTapeSays(t) == "uri_cold" \in t

Init ==
    /\ live = Records
    /\ tags \in [Files -> {{}, {"uri_cold"}, Tags}]
    /\ json = tags
    /\ hot = {f \in Files : OnDiskSays(tags[f])}
    /\ cold = {f \in Files : OnTapeSays(tags[f])}
    /\ requests = [q \in Requests |-> [status |-> "none", rec |-> None,
                                       files |-> {}]]
    /\ rows = [j \in Jobs |-> "none"]
    /\ jobs = [j \in Jobs |-> [state |-> "unused", file |-> None, act |-> "stage"]]
    /\ avail = [r \in Records |-> Availability(r, json)]
    /\ fresh = [r \in Records |-> {}]
    /\ local = [p \in Procs |-> Idle]

-----------------------------------------------------------------------------
(* Users, curators and FTS.                                                 *)

\* The view "stage": file a request and mark the record, in one commit.  A view
\* whose object of the record is an old one raises, and nothing is filed.
Stage(r, sel, q) ==
    /\ r \in live /\ requests[q].status = "none"
    /\ requests' = [requests EXCEPT ![q] = [status |-> "submitted", rec |-> r,
                                            files |-> sel]]
    /\ avail' = [avail EXCEPT ![r] = "requested"]
    /\ Saved({r})
    /\ UNCHANGED <<live, tags, json, rows, storage, jobs, local>>

\* delete_record of the fixtures: the rows of the files go, the copies stay.
DeleteRecord(r) ==
    /\ "delete_record" \in Faults /\ r \in live
    /\ live' = live \ {r}
    /\ tags' = [f \in Files |-> IF RecordOf[f] = r THEN {} ELSE tags[f]]
    /\ Saved({r})
    /\ UNCHANGED <<json, avail, requests, rows, storage, jobs, local>>

\* A job of FTS ends.  It can only copy what exists.
JobFinishes(j) ==
    LET f == jobs[j].file
        source == IF jobs[j].act = "stage" THEN cold ELSE hot
    IN  /\ jobs[j].state = "active" /\ f \in source
        /\ jobs' = [jobs EXCEPT ![j].state = "finished"]
        /\ hot' = IF jobs[j].act = "stage" THEN hot \cup {f} ELSE hot
        /\ cold' = IF jobs[j].act = "archive" THEN cold \cup {f} ELSE cold
        /\ UNCHANGED <<catalog, requests, rows, fresh, local>>

JobFails(j) ==
    LET source == IF jobs[j].act = "stage" THEN cold ELSE hot
    IN  /\ jobs[j].state = "active"
        /\ "job_fails" \in Faults \/ jobs[j].file \notin source
        /\ jobs' = [jobs EXCEPT ![j].state = "failed"]
        /\ UNCHANGED <<catalog, requests, rows, storage, fresh, local>>

\* An administrator of FTS cancels the job.
JobCanceled(j) ==
    /\ "job_canceled" \in Faults /\ jobs[j].state = "active"
    /\ jobs' = [jobs EXCEPT ![j].state = "canceled"]
    /\ UNCHANGED <<catalog, requests, rows, storage, fresh, local>>

-----------------------------------------------------------------------------
(* ColdStorageManager._move_record: create a copy of the files of a record. *)
(* The files and their tags are read once, from the JSON of the record.     *)

\* The process p starts to move the files sel of the record r.
Moving(l, r, sel) ==
    [l EXCEPT !.rec = r, !.pc = "move",
              !.files = IF r \in live THEN sel ELSE {},
              !.snap = IF r \in live
                         THEN [f \in Files |-> IF f \in sel THEN json[f] ELSE {}]
                         ELSE @]

Drop(l, f) == [l EXCEPT !.files = @ \ {f}, !.snap[f] = {}]

\* (mutant) The copy is always looked for on disk.
VerifyOnDisk(l, f) == ~l.opt.force /\ f \in hot

\* verify_file, which "force" leaves out: the copy is already in the storage.
VerifyFile(l, f) == ~l.opt.force /\ f \in (IF l.act = "stage" THEN hot ELSE cold)

\* (mutant) The transfers that are under way are not looked at.
MustMoveAgain(l, f) == ~IsQos(l.snap[f], l.act)

\* The file f has to be moved, and nobody has started yet.
MustMove(l, f) == ~IsQos(l.snap[f], l.act) /\ ~IsScheduled(f, l.act)

\* Nothing to do for the file: it is there or scheduled, or it has a copy that
\* may not be registered, or this is a dry run.
SkipFile(p, f) ==
    LET l == local[p]
    IN  /\ l.pc = "move" /\ f \in l.files
        /\ \/ ~MustMove(l, f)
           \/ VerifyFile(l, f) /\ ~l.opt.register
           \/ ~VerifyFile(l, f) /\ l.opt.dry
        /\ Becomes(p, Drop(l, f))
        /\ LocalOnly

\* The copy of the file exists: add_copy.
RegisterCopy(p, f) ==
    LET l == local[p]
        found == RecordOf[f] \in live
    IN  /\ l.pc = "move" /\ f \in l.files
        /\ MustMove(l, f) /\ VerifyFile(l, f) /\ l.opt.register
        /\ Becomes(p, [Drop(l, f) EXCEPT
                    !.pending = IF found THEN @ \cup {f} ELSE @,
                    !.queue = IF found THEN @ \cup {l.rec} ELSE @])
        /\ LocalOnly

\* There is no copy of the file: a transfer is needed.
NeedTransfer(p, f) ==
    LET l == local[p]
    IN  /\ l.pc = "move" /\ f \in l.files
        /\ MustMove(l, f) /\ ~VerifyFile(l, f) /\ ~l.opt.dry
        /\ Becomes(p, [Drop(l, f) EXCEPT !.pc = "submit_job", !.file = f])
        /\ LocalOnly

\* move_function: FTS accepts the job ...
SubmitJob(p, j) ==
    LET l == local[p]
    IN  /\ l.pc = "submit_job" /\ jobs[j].state = "unused"
        /\ jobs' = [jobs EXCEPT ![j] =
                        [state |-> "active", file |-> l.file, act |-> l.act]]
        /\ Becomes(p, [l EXCEPT !.pc = "create_transfer", !.job = j])
        /\ UNCHANGED <<catalog, requests, rows, storage, fresh>>

\* ... or _submit swallows the error and the file is passed over.  Once all
\* the identifiers of Jobs are used every submission is refused.
SubmitFails(p) ==
    /\ At(p, "submit_job")
    /\ "submit_fails" \in Faults \/ \A j \in Jobs : jobs[j].state # "unused"
    /\ Becomes(p, [local[p] EXCEPT !.pc = "move", !.file = None])
    /\ LocalOnly

\* Transfer.create, whose commit also saves the copies registered so far.  The
\* row of the record is read again after the commit, its files are not.
CreateTransfer(p) ==
    LET l == local[p]
        full == l.left = 1
    IN  /\ l.pc = "create_transfer"
        /\ rows' = [rows EXCEPT ![l.job] = "ongoing"]
        /\ tags' = Committed(l)
        /\ Becomes(p, [l EXCEPT !.pc = "move", !.file = None, !.job = None,
                          !.pending = {},
                          !.left = IF l.left = 0 THEN 0 ELSE l.left - 1,
                          !.files = IF full THEN {} ELSE @,
                          !.snap = IF full THEN [f \in Files |-> {}] ELSE @])
        /\ Reads(p, {l.rec})
        /\ UNCHANGED <<live, json, avail, requests, storage, jobs>>

\* What follows the reindex: the pass closes the request it serves, everything
\* else has ended.
AfterSave(l) ==
    IF l.req = None THEN Idle
    ELSE [l EXCEPT !.pc = "close_request", !.pending = {}, !.queue = {},
                   !.snap = Idle.snap, !.avl = Idle.avl]

\* reindex_entries.  A record that has been deleted meanwhile makes it raise,
\* and an empty queue leaves it with nothing to do.
ReindexEntries(p) ==
    LET l == local[p]
    IN  \/ l.queue = {} /\ Becomes(p, AfterSave(l)) /\ Forgets(p)
        \/ l.queue # {} /\ l.queue \subseteq live /\ Becomes(p, Dump(l)) /\ UNCHANGED fresh
        \/ ~(l.queue \subseteq live) /\ Becomes(p, Idle) /\ Forgets(p)

\* The end of _move_record: reindex what was registered.
CloseRecord(p) ==
    /\ At(p, "move") /\ local[p].files = {}
    /\ ReindexEntries(p)
    /\ UNCHANGED <<catalog, requests, rows, storage, jobs>>

\* reindex_entries, second half: record.commit() and the commit of the tags.
\* When the record was saved by somebody else since it was read, all is undone.
SaveRecords(p) ==
    LET l == local[p]
    IN  /\ l.pc = "save"
        /\ IF CanSave(p, l.queue)
           THEN /\ tags' = Committed(l)
                /\ json' = [f \in Files |->
                                IF RecordOf[f] \in l.queue THEN l.snap[f] ELSE json[f]]
                /\ avail' = [r \in Records |->
                                IF r \in l.queue THEN l.avl[r] ELSE avail[r]]
                /\ Becomes(p, AfterSave(l)) /\ Saved(l.queue)
           ELSE Becomes(p, Idle) /\ Forgets(p) /\ UNCHANGED <<tags, json, avail>>
        /\ UNCHANGED <<live, requests, rows, storage, jobs>>

-----------------------------------------------------------------------------
(* RequestService.check_submitted.                                          *)

RunsRequests(p) == p \in Beats \/ "process_requests" \in CliOps

\* (mutant) The active transfers are not counted.
WholeRoom == Threshold

\* How many transfers may be added: the threshold less the active transfers.
Room == LET active == Cardinality(Ongoing("stage"))
        IN  IF active < Threshold THEN Threshold - active ELSE 0

\* Count the active transfers, and take the submitted requests if there is room.
CheckSubmitted(p) ==
    /\ At(p, "idle") /\ RunsRequests(p)
    /\ Becomes(p, [Idle EXCEPT !.pc = "submitted", !.left = Room,
                               !.todo = IF Room > 0 THEN WithStatus("submitted")
                                        ELSE {}])
    /\ LocalOnly

TakeRequest(p, q) ==
    LET l == local[p]
    IN  /\ l.pc = "submitted" /\ q \in l.todo /\ l.left > 0
        /\ Becomes(p, [Moving(l, requests[q].rec, requests[q].files) EXCEPT
                    !.req = q, !.todo = @ \ {q}])
        /\ Reads(p, {requests[q].rec})
        /\ UNCHANGED <<catalog, requests, rows, storage, jobs>>

\* (mutant) The request is started although the room ran out.
CloseRequestEarly(p) ==
    LET l == local[p]
    IN  /\ l.pc = "close_request"
        /\ requests' = [requests EXCEPT ![l.req].status = "started"]
        /\ Becomes(p, [l EXCEPT !.pc = "submitted", !.req = None, !.rec = None])
        /\ UNCHANGED <<catalog, rows, storage, jobs, fresh>>

\* (mutant) The request is only started if something was transferred.
CloseRequestIfMoved(p) ==
    LET l == local[p]
    IN  /\ l.pc = "close_request"
        /\ requests' = [requests EXCEPT ![l.req].status =
                IF \E f \in requests[l.req].files : IsScheduled(f, "stage")
                THEN "started" ELSE @]
        /\ Becomes(p, [l EXCEPT !.pc = "submitted", !.req = None, !.rec = None])
        /\ UNCHANGED <<catalog, rows, storage, jobs, fresh>>

\* The request stays submitted when the room ran out while it was served.
CloseRequest(p) ==
    LET l == local[p]
    IN  /\ l.pc = "close_request"
        /\ requests' = [requests EXCEPT ![l.req].status =
                            IF l.left = 0 THEN @ ELSE "started"]
        /\ Becomes(p, [l EXCEPT !.pc = "submitted", !.req = None, !.rec = None])
        /\ UNCHANGED <<catalog, rows, storage, jobs, fresh>>

-----------------------------------------------------------------------------
(* RequestService.check_running.                                            *)

\* Look at the requests that have started.
CheckRunning(p) ==
    LET l == local[p]
    IN  /\ l.pc = "submitted" /\ (l.todo = {} \/ l.left = 0)
        /\ Becomes(p, [Idle EXCEPT !.pc = "running", !.todo = WithStatus("started")])
        /\ LocalOnly

\* Look at one started request, and at the JSON of its record: an online record
\* is not looked at further, the availability of any other is computed again.
CheckRequest(p, q) ==
    LET l == local[p]
        r == requests[q].rec
    IN  /\ l.pc = "running" /\ q \in l.todo /\ r \in live
        /\ Becomes(p, [l EXCEPT !.todo = @ \ {q}, !.req = q,
                          !.pc = IF avail[r] = "online" THEN "complete"
                                 ELSE "save_availability",
                          !.avl[r] = IF avail[r] = "online" THEN @
                                     ELSE Availability(r, json)])
        /\ Reads(p, {r})
        /\ UNCHANGED <<catalog, requests, rows, storage, jobs>>

\* save_record_availability: the pass ends here when the record was saved by
\* somebody else, and the request waits when something is still being staged.
SaveAvailability(p) ==
    LET l == local[p]
        r == requests[l.req].rec
        waits == l.avl[r] = "requested"
    IN  /\ l.pc = "save_availability"
        /\ IF CanSave(p, {r})
           THEN /\ avail' = [avail EXCEPT ![r] = l.avl[r]]
                /\ Becomes(p, [l EXCEPT !.pc = IF waits THEN "running" ELSE "complete",
                                        !.req = IF waits THEN None ELSE @,
                                        !.avl = Idle.avl])
                /\ Saved({r})
           ELSE Becomes(p, Idle) /\ Forgets(p) /\ UNCHANGED avail
        /\ UNCHANGED <<live, tags, json, requests, rows, storage, jobs>>

\* get_record raises when the record has been deleted: the pass is over.
CheckRequestRaises(p, q) ==
    /\ At(p, "running") /\ q \in local[p].todo /\ requests[q].rec \notin live
    /\ Becomes(p, Idle)
    /\ LocalOnly

\* mark_as_completed.  Its mail to the subscribers, whose failure is only
\* logged, leaves no trace in the portal.
MarkAsCompleted(p) ==
    /\ At(p, "complete")
    /\ requests' = [requests EXCEPT ![local[p].req].status = "completed"]
    /\ Becomes(p, [local[p] EXCEPT !.pc = "running", !.req = None])
    /\ Forgets(p)
    /\ UNCHANGED <<catalog, rows, storage, jobs>>

\* The celery task goes on with the transfers, the command is over.
EndRunning(p) ==
    /\ At(p, "running") /\ local[p].todo = {}
    /\ Becomes(p,
            IF p \in Beats
            THEN [Idle EXCEPT !.pc = "poll",
                              !.polls = {j \in Jobs : rows[j] = "ongoing"}]
            ELSE Idle)
    /\ LocalOnly

-----------------------------------------------------------------------------
(* TransferService.process_transfers.                                       *)

ProcessTransfers(p) ==
    /\ At(p, "idle") /\ p \in Operators /\ "process_transfers" \in CliOps
    /\ Becomes(p, [Idle EXCEPT !.pc = "poll",
                         !.polls = {j \in Jobs : rows[j] = "ongoing"}])
    /\ LocalOnly

Polling(p, j) == At(p, "poll") /\ j \in local[p].polls

\* FTS says that the job is done: close the transfer and add the copy.
TransferDone(p, j) ==
    LET f == jobs[j].file
        found == RecordOf[f] \in live
    IN  /\ Polling(p, j) /\ jobs[j].state = "finished"
        /\ rows' = [rows EXCEPT ![j] = "done"]
        /\ tags' = IF found THEN [tags EXCEPT ![f] = Retag(@, jobs[j].act)] ELSE tags
        /\ Becomes(p, [local[p] EXCEPT
                !.polls = @ \ {j},
                !.queue = IF found THEN @ \cup {RecordOf[f]} ELSE @])
        /\ UNCHANGED <<live, json, avail, requests, storage, jobs, fresh>>

\* FTS says that the job failed ("failed"), or cannot be asked ("lost"): the
\* transfer is finished either way.
TransferFailed(p, j) ==
    \E s \in {"failed", "lost"} :
        /\ Polling(p, j)
        /\ IF s = "failed" THEN jobs[j].state = "failed" ELSE "poll_fails" \in Faults
        /\ rows' = [rows EXCEPT ![j] = s]
        /\ Becomes(p, [local[p] EXCEPT !.polls = @ \ {j}])
        /\ UNCHANGED <<catalog, requests, storage, jobs, fresh>>

\* Any other state is taken as it is, also that of a job that was canceled: the
\* transfer will be looked at again by the next pass.
TransferPending(p, j) ==
    /\ Polling(p, j) /\ jobs[j].state \in {"active", "canceled"}
    /\ Becomes(p, [local[p] EXCEPT !.polls = @ \ {j}])
    /\ LocalOnly

\* The records are reindexed in one transaction, after all the transfers, whose
\* tags have been committed before.
EndTransfers(p) ==
    LET l == local[p]
    IN  /\ l.pc = "poll" /\ l.polls = {}
        /\ IF l.queue # {} /\ l.queue \subseteq live
           THEN Becomes(p, Dump(l)) /\ Reads(p, l.queue)
           ELSE Becomes(p, Idle) /\ UNCHANGED fresh
        /\ UNCHANGED <<catalog, requests, rows, storage, jobs>>

-----------------------------------------------------------------------------
(* The commands of the operators: "cold stage", "archive" and "clear_hot".  *)

CommandMove(p, act, r, sel, opt, limit) ==
    /\ At(p, "idle") /\ act \in CliOps /\ r \in live
    /\ Becomes(p,
            Moving([Idle EXCEPT !.act = act, !.opt = opt, !.left = limit], r, sel))
    /\ Reads(p, {r})
    /\ UNCHANGED <<catalog, requests, rows, storage, jobs>>

CommandClearHot(p, r, sel, opt) ==
    /\ At(p, "idle") /\ "clear_hot" \in CliOps /\ r \in live
    /\ Becomes(p, [Moving([Idle EXCEPT !.act = "clear_hot", !.opt = opt], r, sel) EXCEPT
                !.pc = "clear"])
    /\ Reads(p, {r})
    /\ UNCHANGED <<catalog, requests, rows, storage, jobs>>

\* (mutant) Any file on disk can be cleared, on tape or not.
ClearableOnDisk(t) == IsQos(t, "stage")

\* The file is on tape and on disk, says its record.
Clearable(t) == IsQos(t, "archive") /\ IsQos(t, "stage")

ClearSkips(p, f) ==
    LET l == local[p]
    IN  /\ l.pc = "clear" /\ f \in l.files /\ ~Clearable(l.snap[f])
        /\ Becomes(p, Drop(l, f))
        /\ LocalOnly

\* os.remove first, whose failure is only logged, then the tag.  When the tag
\* cannot be set the command returns, and forgets the tags it had to commit.
ClearFile(p, f) ==
    LET l == local[p]
        tagged == /\ RecordOf[f] \in live
                  /\ "hot_deleted" \in tags[f] => l.opt.force
    IN  /\ l.pc = "clear" /\ f \in l.files /\ Clearable(l.snap[f])
        /\ hot' \in (IF l.opt.dry THEN {hot}
                     ELSE {hot \ {f}} \cup
                          (IF "remove_fails" \in Faults THEN {hot} ELSE {}))
        /\ IF tagged
           THEN /\ Becomes(p, [Drop(l, f) EXCEPT !.pending = @ \cup {f},
                                                !.queue = @ \cup {l.rec}])
                /\ UNCHANGED fresh
           ELSE Becomes(p, Idle) /\ Forgets(p)
        /\ UNCHANGED <<catalog, requests, rows, cold, jobs>>

CloseClear(p) ==
    /\ At(p, "clear") /\ local[p].files = {}
    /\ ReindexEntries(p)
    /\ UNCHANGED <<catalog, requests, rows, storage, jobs>>

-----------------------------------------------------------------------------
\* A process dies.  Its uncommitted changes and its queue are lost.
Crash(p) ==
    /\ "crash" \in Faults /\ ~At(p, "idle")
    /\ Becomes(p, Idle)
    /\ Forgets(p)
    /\ UNCHANGED <<catalog, requests, rows, storage, jobs>>

MoveStep(p) ==
    \/ \E f \in Files : SkipFile(p, f) \/ RegisterCopy(p, f) \/ NeedTransfer(p, f)
    \/ \E j \in Jobs : SubmitJob(p, j)
    \/ SubmitFails(p) \/ CreateTransfer(p) \/ CloseRecord(p) \/ SaveRecords(p)

RequestStep(p) ==
    \/ CheckSubmitted(p) \/ CloseRequest(p) \/ CheckRunning(p)
    \/ \E q \in Requests :
         TakeRequest(p, q) \/ CheckRequest(p, q) \/ CheckRequestRaises(p, q)
    \/ SaveAvailability(p) \/ MarkAsCompleted(p) \/ EndRunning(p)

TransferStep(p) ==
    \/ ProcessTransfers(p) \/ EndTransfers(p)
    \/ \E j \in Jobs : TransferDone(p, j) \/ TransferFailed(p, j) \/ TransferPending(p, j)

ClearStep(p) ==
    \/ \E f \in Files : ClearSkips(p, f) \/ ClearFile(p, f)
    \/ CloseClear(p)

Command(p) ==
    \E r \in Records : \E sel \in Selections(r), opt \in CliOptions :
        \/ \E act \in {"stage", "archive"}, limit \in CliLimits :
             CommandMove(p, act, r, sel, opt, limit)
        \/ CommandClearHot(p, r, sel, opt)

Service(p) == MoveStep(p) \/ RequestStep(p) \/ TransferStep(p)

JobEnds(j) == JobFinishes(j) \/ JobFails(j) \/ JobCanceled(j)

Next ==
    \/ \E p \in Procs : Service(p) \/ Crash(p)
    \/ \E p \in Operators : ClearStep(p) \/ Command(p)
    \/ \E j \in Jobs : JobEnds(j)
    \/ \E r \in Records : \E sel \in Selections(r), q \in Requests : Stage(r, sel, q)
    \/ \E r \in Records : DeleteRecord(r)

Spec == Init /\ [][Next]_vars

\* Celery runs the task again and again, and FTS ends every job.
Fairness ==
    /\ \A p \in Beats : WF_vars(Service(p))
    /\ \A j \in Jobs : WF_vars(JobEnds(j))

FairSpec == Spec /\ Fairness

-----------------------------------------------------------------------------
(* Types.                                                                   *)

Labels == {"idle", "submitted", "move", "submit_job", "create_transfer",
           "save", "close_request", "running", "save_availability", "complete",
           "poll", "clear"}

RecordAvailability == {"online", "on demand", "partial", "requested"}

LocalType ==
    [pc: Labels, act: Actions, opt: Options,
     req: Requests \cup {None}, rec: Records \cup {None},
     files: SUBSET Files, snap: [Files -> SUBSET Tags],
     file: Files \cup {None}, job: Jobs \cup {None}, left: Nat,
     todo: SUBSET Requests, polls: SUBSET Jobs, pending: SUBSET Files,
     queue: SUBSET Records, avl: [Records -> RecordAvailability]]

\* A process has in hand what the code it has come to is going to use.
InHand(l) ==
    /\ l.pc \in {"move", "submit_job", "create_transfer", "clear"} => l.rec \in Records
    /\ l.pc \in {"submitted", "move", "submit_job", "create_transfer", "close_request"}
            => l.act # "clear_hot"
    /\ l.pc = "clear" => l.act = "clear_hot" /\ l.req = None
    /\ l.pc = "save" /\ l.act = "clear_hot" => l.req = None
    /\ l.pc = "poll" => l.req = None
    /\ l.pc \in {"submit_job", "create_transfer"} => l.file \in Files
    /\ l.pc = "create_transfer" => l.job \in Jobs
    /\ l.pc \in {"close_request", "save_availability", "complete"} => l.req \in Requests
    /\ l.req # None => requests[l.req].status # "none"
    /\ \A q \in l.todo : requests[q].status # "none"

DbTypeOK ==
    /\ live \subseteq Records
    /\ tags \in [Files -> SUBSET Tags] /\ json \in [Files -> SUBSET Tags]
    /\ avail \in [Records -> RecordAvailability]
    /\ rows \in [Jobs -> {"none", "ongoing", "done", "failed", "lost"}]
    /\ hot \subseteq Files /\ cold \subseteq Files
    /\ jobs \in [Jobs -> [state: {"unused", "active", "finished", "failed", "canceled"},
                          file: Files \cup {None}, act: {"stage", "archive"}]]
    /\ \A j \in Jobs : jobs[j].state # "unused" => jobs[j].file \in Files
    /\ fresh \in [Records -> SUBSET Procs]

RequestTypeOK ==
    /\ requests \in [Requests ->
            [status: {"none", "submitted", "started", "completed"},
             rec: Records \cup {None}, files: SUBSET Files]]
    /\ \A q \in Requests : requests[q].status # "none" => requests[q].rec \in Records

ProcessTypeOK ==
    /\ local \in [Procs -> LocalType]
    /\ \A p \in Procs : InHand(local[p])

\* Every variable holds a value of the columns and locals it stands for, and
\* every process what the code it has come to is going to use.
TypeOK == DbTypeOK /\ RequestTypeOK /\ ProcessTypeOK

-----------------------------------------------------------------------------
(* Safety.                                                                  *)

\* A file is never lost: whatever the commands, the passes, FTS and crashes do
\* to each other, every file keeps a copy on disk or on tape (clear_hot removes
\* files from disk on the word of a JSON read earlier).
NoDataLoss == \A f \in Files : f \in hot \cup cold

\* What the catalogue says to be archived is on tape.
ColdIsOnTape == \A f \in Files : "uri_cold" \in tags[f] \cup json[f] => f \in cold

\* So is what a process has read to be archived, and the copies that are about
\* to be entered in the catalogue.
LocalOnTape(l) ==
    /\ \A f \in Files : "uri_cold" \in l.snap[f] => f \in cold
    /\ l.act = "archive" => l.pending \subseteq cold

WorkIsOnTape ==
    /\ \A p \in Procs : LocalOnTape(local[p])
    /\ \A j \in Jobs : jobs[j].act = "archive" /\ jobs[j].state = "finished"
            => jobs[j].file \in cold

\* What holds together, and is kept by every step.
TapeInv == TypeOK /\ NoDataLoss /\ ColdIsOnTape /\ WorkIsOnTape

\* The storage behaves as TieredStorage promises, whoever acts on it.
Tiered == INSTANCE TieredStorage WITH Files <- Files, hot <- hot, cold <- cold
TieredSpec == Tiered!Spec

\* The JSON never promises a copy that the tags do not: a file shown as online
\* has not been cleared, a file shown with a copy on tape has one.  The JSON may
\* be behind its tags, but only by copies that have been added since.
JsonPromisesNoMore ==
    \A f \in Files : RecordOf[f] \in live =>
        /\ OnDiskSays(json[f]) => OnDiskSays(tags[f])
        /\ OnTapeSays(json[f]) => OnTapeSays(tags[f])

\* MultiURIFileObject: "If the file is available, the availability will be
\* `online`".  A file that is not tagged as cleared can be read from disk, unless
\* a clear_hot that removed it has still to commit.
OnlineMeansHot ==
    \A f \in Files :
        \/ RecordOf[f] \notin live \/ "hot_deleted" \in tags[f] \/ f \in hot
        \/ \E p \in Procs : local[p].act = "clear_hot" /\ f \in local[p].pending

\* check_availability: "If there are staging requests or transfers that have
\* not finished, it should be in requested", at any time and not only then.
RequestedWhileStaging ==
    \A r \in live :
        (\/ \E q \in Requests : requests[q].status = "submitted" /\ requests[q].rec = r
         \/ \E j \in Jobs : /\ rows[j] = "ongoing" /\ jobs[j].act = "stage"
                            /\ RecordOf[jobs[j].file] = r) => avail[r] = "requested"

\* COLD_ACTIVE_STAGING_TRANSFERS_THRESHOLD: "Maximum number of transfers that
\* should be active at a given moment".
ThresholdRespected == Cardinality(Ongoing("stage")) <= Threshold

\* is_scheduled: no file has two unfinished transfers of one action.
NoDuplicateTransfer ==
    \A i, j \in Jobs :
        (i # j /\ rows[i] = "ongoing" /\ rows[j] = "ongoing"
               /\ jobs[i].act = jobs[j].act) => jobs[i].file # jobs[j].file

-----------------------------------------------------------------------------
(* Steps.                                                                   *)

Completes(q) == requests[q].status # "completed" /\ requests'[q].status = "completed"

\* A request is not completed under the transfers of its own files.
SettledWhenCompleted ==
    [][\A q \in Requests : Completes(q) =>
         \A f \in requests[q].files : ~IsScheduled(f, "stage")]_vars

-----------------------------------------------------------------------------
(* Liveness.                                                                *)

\* Transfers that cannot end: FTS has canceled their jobs.
Stuck == \E j \in Jobs : jobs[j].state = "canceled"

\* Every request for a record that is not deleted is completed in the end, unless
\* FTS cancels a job: its transfer is polled for ever, and keeps the requests for
\* its record waiting as well as those for which it leaves no room.
RequestsComplete ==
    \A q \in Requests : requests[q].status = "submitted" ~>
        (requests[q].status = "completed" \/ requests[q].rec \notin live \/ Stuck)

\* A file that is requested gets its copy on disk, and the tags that say so, unless
\* a transfer fails or is canceled, and also when a pass has no room for all the
\* files or is ended by a version conflict.
RequestedFilesArrive ==
    \A q \in Requests : \A f \in Files :
        (requests[q].status = "submitted" /\ f \in requests[q].files) ~>
            \/ f \in hot /\ "hot_deleted" \notin tags[f]
            \/ \E j \in Jobs : jobs[j].state = "failed"
            \/ Stuck

=============================================================================
