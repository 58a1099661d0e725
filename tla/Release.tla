------------------------------ MODULE Release ------------------------------
(***************************************************************************)
(* The releases of the curators (cernopendata/modules/releases): one       *)
(* release is a row of the database with its records and documents, which  *)
(* the views edit, and which two celery tasks bring into the portal.       *)
(*                                                                         *)
(*   Curators   the pages that are open: each shows the release as it was  *)
(*              when it was opened, and ends with a request, however late    *)
(*   Tasks      the celery tasks stage_release and publish_release         *)
(*                                                                         *)
(* The views read the row through the session of SQLAlchemy.  Two of its   *)
(* habits are kept here, for the code relies on them: the columns read at  *)
(* the start of a request are used until the next commit, and a column is  *)
(* only written when its new value differs from the one that was read.     *)
(***************************************************************************)
EXTENDS Naturals, FiniteSets, Functions

CONSTANTS
    Records, Docs,      \* the recids and the slugs an upload may contain
    Existing,           \* those the portal has given to something else
    Qualities,          \* the qualities of the entries that are uploaded
    Curators, Tasks,    \* the processes; Tasks bounds the tasks ever sent
    Handlers,           \* the requests the curators make
    ViaPage,            \* TRUE when they only press what their page shows
    Faults              \* what may go wrong in this instance

Entries == Records \cup Docs
Procs == Curators \cup Tasks
Statuses == {"DRAFT", "READY", "EDITING", "STAGING", "STAGED", "PUBLISHING", "PUBLISHED"}

Locking == {"update_records", "bulk", "fix_checks", "stage", "publish"}
Validating == {"update_records", "bulk", "fix_checks", "add_records",
               "add_documents", "update_document", "enable_validation"}
Others == {"generate_doi", "rollback", "delete", "update_release"}
AllHandlers == Locking \cup Validating \cup Others
AllFaults == {"stage_fails", "publish_fails", "doi_fails", "request_fails", "task_lost"}

ASSUME EntriesAssumption == Records \cap Docs = {} /\ Existing \subseteq Records \cup Docs
ASSUME ProcsAssumption == Curators \cap Tasks = {}
ASSUME QualitiesAssumption == Qualities \subseteq {"bad", "odd", "ok", "doi"}
ASSUME HandlersAssumption == Handlers \subseteq AllHandlers /\ ViaPage \in BOOLEAN
ASSUME ReleaseFaultsAssumption == Faults \subseteq AllFaults

VARIABLES
    row,        \* the release and its validations
    portal,     \* the records of the database, by their registered PIDs
    index,      \* the entries that are in the search index
    dois,       \* the DOIs that DataCite knows
    local       \* the state of every process

vars == <<row, portal, index, dois, local>>
published == <<portal, index, dois>>

-----------------------------------------------------------------------------
(* An entry is absent, "bad" when a validation rejects it, "odd" when only  *)
(* an optional one does, "ok", or ok with a DOI.                            *)

QualitiesOf(i) == IF i \in Docs THEN Qualities \ {"doi"} ELSE Qualities
Items == {its \in [Entries -> Qualities \cup {"absent", "ok", "doi"}] :
             \A d \in Docs : its[d] # "doi"}
NoItems == [i \in Entries |-> "absent"]
In(its) == {i \in Entries : its[i] # "absent"}

\* strict: the optional validation is enabled; dup: the validation of the
\* PIDs has failed; errors: num_errors is not 0; named: the name, the link or the
\* description has been edited.
Blank == [exists |-> FALSE, status |-> "DRAFT", items |-> NoItems, strict |-> FALSE,
          dup |-> FALSE, errors |-> FALSE, named |-> FALSE]

Idle == [pc |-> "idle", op |-> "none", seen |-> Blank, out |-> Blank, todo |-> {}]

At(p, label) == local[p].pc = label
Becomes(p, l) == local' = [local EXCEPT ![p] = l]
Ends(p) == Becomes(p, Idle)

-----------------------------------------------------------------------------
(* Release.validate.                                                        *)

\* The PIDs that are taken.  PIDValidation does not look when the release, as
\* it was read, is staged.
Taken(status, its) ==
    IF status = "STAGED" THEN {} ELSE {i \in In(its) : portal[i] # "none"}

\* The DOIs that are registered as PIDs are always an error.
DoiTaken(its) == {i \in In(its) : its[i] = "doi" /\ i \in dois /\ portal[i] = "public"}

\* (mutant) The last of the validations decides.
ValidatedLast(r, its, strict) ==
    LET wrong == Taken(r.status, its) # {}
    IN  [r EXCEPT !.items = its, !.strict = strict, !.dup = wrong, !.errors = wrong,
                  !.status = IF wrong THEN "DRAFT" ELSE "READY"]

\* The row r with the items its, validated again.
Validated(r, its, strict) ==
    LET wrong == \/ \E i \in Entries : its[i] = "bad" \/ (strict /\ its[i] = "odd")
                 \/ Taken(r.status, its) \cup DoiTaken(its) # {}
    IN  [r EXCEPT !.items = its, !.strict = strict,
                  !.dup = Taken(r.status, its) # {}, !.errors = wrong,
                  !.status = IF wrong THEN "DRAFT" ELSE "READY"]

Init ==
    /\ portal = [i \in Entries |-> IF i \in Existing THEN "other" ELSE "none"]
    /\ index = Existing /\ dois = {}
    /\ \E its \in [Entries -> Qualities \cup {"absent"}] :
         /\ its \in Items
         /\ row = Validated([Blank EXCEPT !.exists = TRUE], its, FALSE)
    /\ local = [p \in Procs |-> Idle]

-----------------------------------------------------------------------------
(* The columns.                                                             *)

\* A column that was read as old and set to new; now is its current value.
Net(old, new, now) == IF new = old THEN now ELSE new

\* The entries in the columns that a handler writes.
Columns(op) ==
    IF op \in {"fix_checks", "add_documents", "update_document"} THEN Entries ELSE Records

\* The row once a handler that read seen has flushed out.  more stands for the
\* number of errors, which may differ although neither is 0.
Flushed(op, seen, out, more) ==
    [row EXCEPT !.items = [i \in Entries |-> IF i \in Columns(op) THEN out.items[i]
                                             ELSE row.items[i]],
                !.strict = Net(seen.strict, out.strict, @),
                !.dup = Net(seen.dup, out.dup, @),
                !.errors = IF seen.errors /\ out.errors /\ more THEN TRUE
                           ELSE Net(seen.errors, out.errors, @),
                !.status = Net(seen.status, out.status, @)]

-----------------------------------------------------------------------------
(* A request: _get_release, and the lock of the handlers that take one.     *)

\* The navigation of the page has one button for the next step, and rollback.
NextAction(op) == IF op = "stage" THEN {"READY"} ELSE {"STAGED"}

\* Its body can be edited in two statuses; the validations are also there while
\* the release is EDITING.
Editable(op) == IF op \in {"fix_checks", "enable_validation"} THEN {"DRAFT", "READY", "EDITING"}
                ELSE {"DRAFT", "READY"}

\* The statuses in which the page shows the button of a handler.
Shown(op) == IF op \in {"stage", "publish", "rollback", "generate_doi"}
             THEN NextAction(op) ELSE Editable(op)

\* The statuses a handler asks _get_release, or delete and rollback, to check.
Needs(op) == CASE op = "stage" -> {"READY"}
               [] op \in {"publish", "rollback", "generate_doi"} -> {"STAGED"}
               [] op \in {"fix_checks", "enable_validation", "delete"} -> {"DRAFT", "READY"}
               [] OTHER -> Statuses

LockStatus(op) == CASE op = "stage" -> "STAGING"
                    [] op = "publish" -> "PUBLISHING"
                    [] OTHER -> "EDITING"

\* (bound) A request to stage or publish is only made when a task is left.
TaskLeft ==
    Cardinality({t \in Tasks : At(t, "idle")}) >
    Cardinality({p \in Curators : local[p].op \in {"stage", "publish"}})

\* A curator opens a page, for the request that they will make with it.
Begin(p, op) ==
    /\ At(p, "idle") /\ op \in Handlers \ {"update_release"}
    /\ op \in {"stage", "publish"} => TaskLeft
    /\ ViaPage => row.exists /\ row.status \in Shown(op)
    /\ Becomes(p, [Idle EXCEPT !.pc = "load", !.op = op])
    /\ UNCHANGED <<row, published>>

\* The request: Release.get; the status is checked, or the request is refused.
Load(p) ==
    LET l == local[p]
    IN  /\ l.pc = "load"
        /\ IF row.exists /\ row.status \in Needs(l.op)
           THEN Becomes(p, [l EXCEPT !.pc = IF l.op \in Locking THEN "lock" ELSE "read",
                                     !.seen = [row EXCEPT !.items = NoItems]])
           ELSE Ends(p)
        /\ UNCHANGED <<row, published>>

\* The handlers that validate flush before it: they hold the row until they
\* commit, and nobody else can write it.
RowIsLocked(p) ==
    \E q \in Procs \ {p} : At(q, "commit") /\ local[q].op \in Validating

\* update_release: "Edit metadata" is in every status, and no status is checked.
\* It reads and writes three columns that no other handler does.
EditMetadata(p) ==
    /\ At(p, "idle") /\ "update_release" \in Handlers
    /\ row.exists /\ ~RowIsLocked(p)
    /\ row' = [row EXCEPT !.named = TRUE]
    /\ UNCHANGED <<published, local>>

\* (mutant) The row is locked, the status stays.
LockOnly(p) ==
    LET l == local[p]
    IN  /\ l.pc = "lock"
        /\ IF row.exists /\ ~RowIsLocked(p)
           THEN Becomes(p, [l EXCEPT !.seen = Blank,
                        !.pc = IF l.op \in {"stage", "publish"} THEN "send" ELSE "read"])
           ELSE Ends(p)
        /\ UNCHANGED <<row, published>>

\* lock: SELECT ... FOR UPDATE NOWAIT, then a check of the status that was read
\* before, then a commit of the new one.
Lock(p) ==
    LET l == local[p]
    IN  /\ l.pc = "lock"
        /\ IF row.exists /\ ~RowIsLocked(p)
           THEN /\ row' = [row EXCEPT !.status = Net(l.seen.status, LockStatus(l.op), @)]
                /\ Becomes(p, [l EXCEPT !.seen = Blank,
                        !.pc = IF l.op \in {"stage", "publish"} THEN "send" ELSE "read"])
           ELSE Ends(p) /\ UNCHANGED row
        /\ UNCHANGED published

\* The views stage and publish clear the errors and send the task.
Send(p, t) ==
    LET l == local[p]
    IN  /\ l.pc = "send" /\ At(t, "idle")
        /\ row.exists /\ ~RowIsLocked(p)
        /\ row' = [row EXCEPT !.errors = FALSE]
        /\ local' = [local EXCEPT ![p] = Idle,
                                  ![t] = [Idle EXCEPT !.pc = "queued", !.op = l.op]]
        /\ UNCHANGED published

\* The release is deleted before the task can be sent.
SendFails(p) ==
    /\ At(p, "send") /\ ~row.exists
    /\ Ends(p) /\ UNCHANGED <<row, published>>

-----------------------------------------------------------------------------
(* What the handlers do to the entries.                                     *)

\* The recid validation renumbers the records whose recid is taken (bound: when
\* there are recids left).
Renumbered(its) ==
    LET taken == Taken("EDITING", its) \cap Records
        free == {i \in Records : its[i] = "absent" /\ portal[i] = "none"}
        moved(g) == [i \in Entries |->
                        IF i \in taken THEN "absent"
                        ELSE IF i \in Range(g) THEN its[CHOOSE j \in taken : g[j] = i]
                        ELSE its[i]]
    IN  IF Cardinality(free) < Cardinality(taken) THEN {its}
        ELSE {moved(g) : g \in Injection(taken, free)}

\* The fixes of the other validations repair some of the entries.
Repaired(its) ==
    {[i \in Entries |-> IF i \in S THEN "ok" ELSE its[i]] :
        S \in SUBSET {i \in Entries : its[i] \in {"bad", "odd"}}}

\* update_records replaces the records, by at least one.
Replaced(its) ==
    {new \in Items : /\ \A d \in Docs : new[d] = its[d]
                     /\ \E i \in Records : new[i] # "absent"
                     /\ \A i \in Records : new[i] \in Qualities \cup {"absent"}}

\* bulk_update sets or deletes fields of all the records, but not their recids
\* and DOIs: they all become bad, or those that were are mended.
BulkEdited(its) ==
    {[i \in Entries |-> IF i \in Records \cap In(its) /\ (q = "bad" \/ its[i] = "bad")
                        THEN q ELSE its[i]] : q \in Qualities \ {"doi"}}

\* add_records and add_documents.
Appended(its, kind) ==
    UNION {{[its EXCEPT ![i] = q] : q \in QualitiesOf(i)} : i \in kind \ In(its)}

\* update_document, which may change the slug.
DocumentReplaced(its) ==
    {new \in Items : \E d \in Docs \cap In(its), e \in Docs :
        /\ e = d \/ its[e] = "absent"
        /\ \E q \in QualitiesOf(e) : new = [its EXCEPT ![d] = "absent", ![e] = q]}

\* fix_checks: the validations that have failed fix what they can.
Fixed(its, dup) ==
    UNION {Repaired(new) : new \in IF dup THEN Renumbered(its) ELSE {its}}

\* generate_doi: the chosen records whose metadata DataCite accepts get a DOI.
WithDois(its) ==
    {[i \in Entries |-> IF i \in S THEN "doi" ELSE its[i]] :
        S \in SUBSET {i \in Records : its[i] = "ok"}}

\* The entries that a handler can make of its.
Edited(op, its, dup) ==
    CASE op = "update_records"    -> Replaced(its)
      [] op = "bulk"              -> BulkEdited(its)
      [] op = "add_records"       -> Appended(its, Records)
      [] op = "add_documents"     -> Appended(its, Docs)
      [] op = "update_document"   -> DocumentReplaced(its)
      [] op = "fix_checks"        -> Fixed(its, dup)
      [] op = "enable_validation" -> {its}

\* Read the entries, edit them and validate the release.  After a lock the
\* whole row is read again.
Edit(p) ==
    LET l == local[p]
        r == IF l.op \in Locking THEN row
             ELSE [row EXCEPT !.status = l.seen.status, !.errors = l.seen.errors]
        stricts == IF l.op = "enable_validation" THEN BOOLEAN ELSE {row.strict}
        edited == Edited(l.op, row.items, row.dup)
    IN  /\ l.pc = "read" /\ l.op \in Validating
        /\ IF row.exists /\ edited # {}
           THEN \E its \in edited, strict \in stricts :
                   Becomes(p, [l EXCEPT !.pc = "commit", !.out = Validated(r, its, strict),
                                        !.seen = [r EXCEPT !.items = NoItems]])
           ELSE Ends(p)
        /\ UNCHANGED <<row, published>>

\* A fix that fails: the release goes back to DRAFT, its errors are not counted.
FixFails(p) ==
    LET l == local[p]
    IN  /\ l.pc = "read" /\ l.op = "fix_checks" /\ row.exists
        /\ \E i \in Entries : row.items[i] \in {"bad", "doi"}
        /\ \E its \in Fixed(row.items, row.dup) :
             Becomes(p, [l EXCEPT !.pc = "commit",
                    !.seen = [row EXCEPT !.items = NoItems, !.errors = FALSE],
                    !.out = [row EXCEPT !.items = its, !.errors = FALSE,
                                        !.status = "DRAFT"]])
        /\ UNCHANGED <<row, published>>

\* The commit of a handler that validates.  A release that is gone is an error.
CommitEdit(p) ==
    LET l == local[p]
    IN  /\ l.pc = "commit" /\ l.op \in Validating
        /\ Ends(p)
        /\ IF row.exists
           THEN \E more \in BOOLEAN : row' = Flushed(l.op, l.seen, l.out, more)
           ELSE UNCHANGED row
        /\ UNCHANGED published

-----------------------------------------------------------------------------
(* The handlers that do not validate.                                       *)

\* generate_doi, rollback and delete read the entries they are about to change.
ReadEntries(p) ==
    LET l == local[p]
    IN  /\ l.pc = "read" /\ l.op \in {"generate_doi", "rollback", "delete"}
        /\ IF row.exists
           THEN \E its \in IF l.op = "generate_doi" THEN WithDois(row.items) ELSE {row.items} :
                   Becomes(p, [l EXCEPT !.pc = "commit", !.out.items = its])
           ELSE Ends(p)
        /\ UNCHANGED <<row, published>>

\* generate_doi: the records with their DOIs are written back.
CommitDois(p) ==
    LET l == local[p]
    IN  /\ l.pc = "commit" /\ l.op = "generate_doi" /\ ~RowIsLocked(p)
        /\ Ends(p)
        /\ row' = IF row.exists
                    THEN [row EXCEPT !.items = [i \in Entries |->
                            IF i \in Records THEN l.out.items[i] ELSE row.items[i]]]
                    ELSE row
        /\ UNCHANGED published

\* (mutant) The status is left as it is.
CommitRollbackAsStaged(p) ==
    LET l == local[p]
    IN  /\ l.pc = "commit" /\ l.op = "rollback"
        /\ Ends(p)
        /\ IF row.exists /\ \A i \in In(l.out.items) : portal[i] # "none"
           THEN portal' = [i \in Entries |-> IF i \in In(l.out.items) THEN "none"
                                             ELSE portal[i]]
           ELSE UNCHANGED portal
        /\ UNCHANGED <<row, index, dois>>

\* rollback: every entry is deleted from the portal, or none of them is.
CommitRollback(p) ==
    LET l == local[p]
    IN  /\ l.pc = "commit" /\ l.op = "rollback"
        /\ Ends(p)
        /\ IF row.exists /\ \A i \in In(l.out.items) : portal[i] # "none"
           THEN /\ ~RowIsLocked(p)
                /\ portal' = [i \in Entries |-> IF i \in In(l.out.items) THEN "none"
                                                ELSE portal[i]]
                /\ row' = [row EXCEPT !.status = Net(l.seen.status, "READY", @)]
           ELSE UNCHANGED <<row, portal>>
        /\ UNCHANGED <<index, dois>>

\* delete: the row goes, whatever has become of it.
CommitDelete(p) ==
    LET l == local[p]
    IN  /\ l.pc = "commit" /\ l.op = "delete" /\ ~RowIsLocked(p)
        /\ Ends(p)
        /\ row' = Blank
        /\ UNCHANGED published

-----------------------------------------------------------------------------
(* The tasks stage_release and publish_release.                             *)

\* (mutant) A failed publication goes back to READY.
RevertsToReady(op) == "READY"

\* (mutant) There is a status for failures.
RevertsToFailed(op) == "FAILED"

\* (mutant) The failed transition is only recorded.
RevertsToNothing(op) == LockStatus(op)

\* The status a task goes back to when it fails.
Reverts(op) == IF op = "stage" THEN "READY" ELSE "STAGED"

\* The task gets the release, and raises unless it has the status it asks for.
Start(t) ==
    LET l == local[t]
    IN  /\ l.pc = "queued"
        /\ IF ~row.exists THEN Becomes(t, [Idle EXCEPT !.pc = "done"]) /\ UNCHANGED row
           ELSE IF row.status # LockStatus(l.op)
           THEN Becomes(t, [l EXCEPT !.pc = "failed"]) /\ UNCHANGED row
           ELSE IF l.op = "stage" /\ row.errors
           THEN /\ ~RowIsLocked(t)
                /\ row' = [row EXCEPT !.status = "DRAFT"]
                /\ Becomes(t, [l EXCEPT !.pc = "failed"])
           ELSE /\ Becomes(t, [l EXCEPT !.pc = "work", !.seen.status = row.status,
                                        !.out.items = row.items, !.todo = In(row.items)])
                /\ UNCHANGED row
        /\ UNCHANGED published

Finishes(t) == Becomes(t, [Idle EXCEPT !.pc = "done"])
Fails(t) == Becomes(t, [local[t] EXCEPT !.pc = "failed", !.out = Blank, !.todo = {}])

\* (mutant) The records are committed one by one, and one of them fails.
StagePartly(t) ==
    LET l == local[t]
    IN  /\ l.pc = "work" /\ l.op = "stage"
        /\ row.exists
        /\ \E S \in SUBSET l.todo :
             /\ portal' = [i \in Entries |-> IF i \in S THEN "prerelease" ELSE portal[i]]
             /\ IF S = l.todo
                THEN Finishes(t) /\ row' = [row EXCEPT !.status = "STAGED"]
                ELSE Fails(t) /\ UNCHANGED row
        /\ UNCHANGED <<index, dois>>

\* Release.stage: create all the entries in one transaction.  The minter
\* refuses a PID that exists.
StageEntries(t) ==
    LET l == local[t]
    IN  /\ l.pc = "work" /\ l.op = "stage"
        /\ IF row.exists /\ \A i \in l.todo : portal[i] = "none"
           THEN /\ ~RowIsLocked(t)
                /\ portal' = [i \in Entries |-> IF i \in l.todo THEN "prerelease"
                                                ELSE portal[i]]
                /\ row' = [row EXCEPT !.status = Net(l.seen.status, "STAGED", @)]
                /\ Finishes(t)
           ELSE Fails(t) /\ UNCHANGED <<row, portal>>
        /\ UNCHANGED <<index, dois>>

\* Release.publish, entry by entry: the search index and DataCite are told at
\* once, the database at the end.
PublishEntry(t, i) ==
    LET l == local[t]
    IN  /\ l.pc = "work" /\ l.op = "publish" /\ i \in l.todo
        /\ IF portal[i] = "none" THEN Fails(t) /\ UNCHANGED <<index, dois>>
           ELSE /\ index' = index \cup {i}
                /\ \E registered \in IF "doi_fails" \in Faults THEN BOOLEAN ELSE {TRUE} :
                     /\ dois' = IF l.out.items[i] = "doi" /\ registered
                                THEN dois \cup {i} ELSE dois
                     /\ Becomes(t, [l EXCEPT !.todo = @ \ {i},
                            !.out.errors = @ \/ (l.out.items[i] = "doi" /\ ~registered)])
        /\ UNCHANGED <<row, portal>>

\* (mutant) The database is told before the search.
PublishedBefore(t) ==
    LET l == local[t]
    IN  /\ l.pc = "work" /\ l.op = "publish"
        /\ row.exists
        /\ portal' = [i \in Entries |-> IF i \in In(l.out.items) THEN "public" ELSE portal[i]]
        /\ row' = [row EXCEPT !.status = "PUBLISHED"]
        /\ Finishes(t)
        /\ UNCHANGED <<index, dois>>

\* Once every entry is there, the database: all the entries become public.
PublishRelease(t) ==
    LET l == local[t]
    IN  /\ l.pc = "work" /\ l.op = "publish" /\ l.todo = {}
        /\ IF row.exists /\ \A i \in In(l.out.items) : portal[i] # "none"
           THEN /\ ~RowIsLocked(t)
                /\ portal' = [i \in Entries |-> IF i \in In(l.out.items) THEN "public"
                                                ELSE portal[i]]
                /\ row' = [row EXCEPT !.errors = l.out.errors,
                                      !.status = Net(l.seen.status, "PUBLISHED", @)]
                /\ Finishes(t)
           ELSE Fails(t) /\ UNCHANGED <<row, portal>>
        /\ UNCHANGED <<index, dois>>

\* Something else goes wrong in the task: a schema, the search, the database.
WorkFails(t) ==
    /\ At(t, "work")
    /\ \/ local[t].op = "stage" /\ "stage_fails" \in Faults
       \/ local[t].op = "publish" /\ "publish_fails" \in Faults
    /\ Fails(t)
    /\ UNCHANGED <<row, published>>

\* The task rolls back, gets the release again ...
GetAgain(t) ==
    /\ At(t, "failed")
    /\ IF row.exists
       THEN Becomes(t, [local[t] EXCEPT !.pc = "mark", !.out = Blank,
                    !.seen = [Blank EXCEPT !.status = row.status, !.errors = row.errors]])
       ELSE Finishes(t)
    /\ UNCHANGED <<row, published>>

\* ... and mark_staging_failed or mark_publishing_failed takes it back.
MarkFailed(t) ==
    LET l == local[t]
    IN  /\ l.pc = "mark" /\ ~RowIsLocked(t)
        /\ Finishes(t)
        /\ IF row.exists
           THEN \E more \in BOOLEAN :
                   row' = [row EXCEPT !.errors = IF more THEN TRUE ELSE Net(l.seen.errors, TRUE, @),
                                      !.status = Net(l.seen.status, Reverts(l.op), @)]
           ELSE UNCHANGED row
        /\ UNCHANGED published

-----------------------------------------------------------------------------
(* The steps of the processes.                                              *)

\* A request fails, at any point, and its uncommitted changes are lost: nothing
\* takes back what its lock has committed.  A task is lost with the worker.
Dies(p) ==
    /\ \/ p \in Curators /\ "request_fails" \in Faults /\ ~At(p, "idle") /\ Ends(p)
       \/ p \in Tasks /\ "task_lost" \in Faults /\ local[p].pc \notin {"idle", "done"}
            /\ Finishes(p)
    /\ UNCHANGED <<row, published>>

Request(p) ==
    \/ Load(p) \/ Lock(p) \/ Edit(p) \/ FixFails(p) \/ CommitEdit(p) \/ SendFails(p)
    \/ ReadEntries(p) \/ CommitDois(p) \/ CommitRollback(p) \/ CommitDelete(p)
    \/ \E t \in Tasks : Send(p, t)

Task(t) ==
    \/ Start(t) \/ StageEntries(t) \/ PublishRelease(t) \/ WorkFails(t)
    \/ GetAgain(t) \/ MarkFailed(t)
    \/ \E i \in Entries : PublishEntry(t, i)

Next ==
    \/ \E p \in Curators : Request(p) \/ EditMetadata(p) \/ \E op \in Handlers : Begin(p, op)
    \/ \E t \in Tasks : Task(t)
    \/ \E p \in Procs : Dies(p)

Spec == Init /\ [][Next]_vars

\* The web server ends its requests and the celery workers their tasks.
Fairness ==
    /\ \A p \in Curators : WF_vars(Request(p))
    /\ \A t \in Tasks : WF_vars(Task(t))

FairSpec == Spec /\ Fairness

-----------------------------------------------------------------------------
(* Types.                                                                   *)

Row == [exists: BOOLEAN, status: Statuses, items: Items,
        strict: BOOLEAN, dup: BOOLEAN, errors: BOOLEAN, named: BOOLEAN]

Labels == {"idle", "load", "lock", "send", "read", "commit",
           "queued", "work", "failed", "mark", "done"}

\* Every variable holds a value of the columns and locals it stands for.
TypeOK ==
    /\ row \in Row
    /\ portal \in [Entries -> {"none", "prerelease", "public", "other"}]
    /\ index \subseteq Entries /\ dois \subseteq Records
    /\ local \in [Procs -> [pc: Labels, op: AllHandlers \cup {"none"},
                            seen: Row, out: Row, todo: SUBSET Entries]]

-----------------------------------------------------------------------------
(* Safety.                                                                  *)

\* A staged release is complete: the portal has every entry of it, so that it
\* can be published or rolled back.
StagedIsRegistered ==
    row.exists /\ row.status \in {"STAGED", "PUBLISHING", "PUBLISHED"}
        => \A i \in In(row.items) : portal[i] \in {"prerelease", "public"}

\* What is published is public, and in the search.
PublishedIsPublic ==
    row.exists /\ row.status = "PUBLISHED"
        => \A i \in In(row.items) : portal[i] = "public" /\ i \in index

\* A preview in the portal belongs to a release that can still publish it or
\* take it back.
NoOrphans ==
    \A i \in Entries : portal[i] = "prerelease" =>
        row.exists /\ i \in In(row.items) /\ row.status \in {"STAGED", "PUBLISHING"}

\* Nothing that a validation rejects is staged.
OnlyValidated ==
    row.exists /\ row.status \in {"STAGED", "PUBLISHING", "PUBLISHED"}
        => \A i \in Entries : row.items[i] # "bad"

\* lock: a release is staged or published by one task at a time.
OneTask == Cardinality({t \in Tasks : local[t].pc \notin {"idle", "done"}}) <= 1

-----------------------------------------------------------------------------
(* The release is what ReleaseLifecycle promises.                           *)

phase == IF ~row.exists THEN "deleted"
         ELSE IF row.status = "PUBLISHED" THEN "published"
         ELSE IF row.status \in {"STAGED", "PUBLISHING"} THEN "staged" ELSE "draft"

\* The records enter the portal, leave it and become public all together.
Lifecycle == INSTANCE ReleaseLifecycle WITH Entries <- Entries, phase <- phase, portal <- portal
LifecycleSpec == Lifecycle!Spec

-----------------------------------------------------------------------------
(* Progress.                                                                *)

\* The page says that the release is being staged or published, or edited.
Busy == row.exists /\ row.status \in {"EDITING", "STAGING", "PUBLISHING"}

\* A task that was sent and has not yet read the status that it may take back.
Sent(t) == local[t].pc \in {"queued", "work", "failed"}

\* A task gives the release back, done or taken back, whatever fails in the task
\* and whatever the requests do meanwhile that started from an older status, and
\* even when they fail after their lock.
TransitionsEnd == (\E t \in Tasks : Sent(t)) /\ Busy ~> ~Busy

=============================================================================
