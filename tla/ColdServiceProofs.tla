------------------------- MODULE ColdServiceProofs -------------------------
(***************************************************************************)
(* What the services of ColdStorage guarantee when one process at a time   *)
(* brings files back to disk: one run of check_transfers, which never      *)
(* overlaps with the next, and no operator who stages files by hand or     *)
(* runs the requests.  Operators may still archive files, clear them and   *)
(* process transfers, and everything may fail.                             *)
(***************************************************************************)
EXTENDS ColdStorageProofs

OneMover == /\ \A a, b \in Beats : a = b
            /\ CliOps \subseteq {"archive", "clear_hot", "process_transfers"}

-----------------------------------------------------------------------------
(* The inductive invariant.                                                 *)

\* The process is between two commits of a request, or counts transfers.
Serves(l) == \/ l.pc \in {"move", "submit_job", "create_transfer"} /\ l.act # "archive"
             \/ l.pc = "save" /\ l.req # None
             \/ l.pc = "close_request"
Counts(l) == l.pc = "submitted" \/ Serves(l)
Works(l) == Counts(l) \/ l.pc \in {"running", "save_availability", "complete"}

\* The process archives files, or does neither.
Archives(l) == l.pc \in {"move", "submit_job", "create_transfer"} /\ l.act = "archive"
Rests(l) == l.pc \in {"idle", "poll", "clear"} \/ (l.pc = "save" /\ l.req = None)

\* A request in service stays submitted; its files are those of its record.
ServingOK(l) ==
    Serves(l) =>
        /\ l.req \in Requests /\ requests[l.req].status = "submitted"
        /\ l.rec = requests[l.req].rec /\ l.files \subseteq FilesOf(l.rec)
        /\ l.files # {} => l.left > 0

\* The requests that wait are submitted, and there is room for what is left.
CountingOK(l) ==
    Counts(l) =>
        /\ l.act = "stage" /\ l.todo \subseteq WithStatus("submitted") \ {l.req}
        /\ l.left + Cardinality(Ongoing("stage")) <= Threshold

\* What was checked before the call of FTS still holds after it.
SubmittingOK(l) ==
    Serves(l) =>
      /\ l.pc \in {"submit_job", "create_transfer"} =>
        RecordOf[l.file] = l.rec /\ l.left > 0 /\ ~IsScheduled(l.file, "stage")
      /\ l.pc = "create_transfer" =>
        /\ jobs[l.job].file = l.file /\ jobs[l.job].act = "stage"
        /\ jobs[l.job].state # "unused"

\* The files of a request that is about to be completed are settled.
CompletingOK(l) ==
    l.pc = "complete" =>
        \A f \in requests[l.req].files : ~IsScheduled(f, "stage")

\* A pass that archives serves no request, and its job is in the hands of FTS.
ArchivingOK(l) ==
    Archives(l) =>
        /\ l.req = None
        /\ l.pc = "create_transfer" =>
             /\ jobs[l.job].file = l.file /\ jobs[l.job].act = "archive"
             /\ jobs[l.job].state # "unused"

WorkerOK(l) == /\ ServingOK(l) /\ CountingOK(l) /\ SubmittingOK(l)
               /\ CompletingOK(l) /\ ArchivingOK(l)

WorkersOK == /\ \A p \in Procs : Works(local[p]) => p \in Beats
             /\ \A p \in Procs : WorkerOK(local[p])

\* Identifiers of jobs are new, and a request names files of one record.
RowsOK ==
    /\ \A j \in Jobs : jobs[j].state = "unused" => rows[j] # "ongoing"
    /\ \A q \in Requests : requests[q].status # "none"
            => requests[q].files \subseteq FilesOf(requests[q].rec)

\* No two transfers under way bring the same file back.
StagedOnce ==
    \A i, j \in Jobs :
        (i # j /\ rows[i] = "ongoing" /\ rows[j] = "ongoing"
               /\ jobs[i].act = "stage" /\ jobs[j].act = "stage") => jobs[i].file # jobs[j].file

ServiceInv == /\ TypeOK /\ WorkersOK /\ RowsOK
              /\ RequestedWhileStaging /\ StagedOnce /\ ThresholdRespected

\* Something brings files of the record back: a request, or a transfer.
Staging(r) ==
    \/ \E q \in Requests : requests[q].status = "submitted" /\ requests[q].rec = r
    \/ \E j \in Jobs : /\ rows[j] = "ongoing" /\ jobs[j].act = "stage"
                       /\ RecordOf[jobs[j].file] = r

\* The process has computed an availability of the record, to be saved next.
Saves(l, r) == \/ l.pc = "save" /\ r \in l.queue
               \/ l.pc = "save_availability" /\ r = requests[l.req].rec

\* If the row has not changed since, that availability is still the right one.
SaverOK(p) ==
    \A r \in Records :
        p \in fresh[r] /\ Saves(local[p], r) /\ Staging(r) => local[p].avl[r] = "requested"
SaversOK == \A p \in Procs : SaverOK(p)

ServedInv == ServiceInv /\ SaversOK

-----------------------------------------------------------------------------
(* Counting transfers.                                                      *)

\* The transfers under way can be counted, and fewer of them count for less.
LEMMA OngoingFinite ==
    /\ IsFiniteSet(Ongoing("stage")) /\ Cardinality(Ongoing("stage")) \in Nat
    /\ IsFiniteSet(Ongoing("stage"))' /\ Cardinality(Ongoing("stage"))' \in Nat
<1>1. Ongoing("stage") \in SUBSET Jobs /\ Ongoing("stage")' \in SUBSET Jobs
  BY DEF Ongoing
<1> QED BY <1>1, JobsAssumption, FS_Subset, FS_CardinalityType

LEMMA OngoingShrinks ==
    ASSUME Ongoing("stage")' \subseteq Ongoing("stage")
    PROVE  Cardinality(Ongoing("stage"))' <= Cardinality(Ongoing("stage"))
<1>1. IsFiniteSet(Ongoing("stage")) BY OngoingFinite
<1> QED BY <1>1, FS_Subset

\* A process that does not work has nothing to keep.
LEMMA RestOK == ASSUME NEW l, Rests(l) PROVE WorkerOK(l) /\ ~Works(l)
BY DEF Rests, Works, Counts, Serves, Archives, WorkerOK, ServingOK, CountingOK, SubmittingOK,
       CompletingOK, ArchivingOK

-----------------------------------------------------------------------------
(* Steps that neither move files nor decide about a request.                *)

\* A job that FTS has been given keeps its file and its action.
JobsKept ==
    \A j \in Jobs : jobs[j].state # "unused" =>
        /\ jobs'[j].file = jobs[j].file /\ jobs'[j].act = jobs[j].act
        /\ jobs'[j].state # "unused"

\* No transfer to the disk starts, and what is in the tables keeps its meaning.
Calm ==
    /\ \A x \in Procs : \/ local'[x] = local[x] \/ Rests(local'[x])
                        \/ Archives(local'[x]) /\ ArchivingOK(local[x])'
    /\ \A q \in Requests : requests[q].status # "none" => requests'[q] = requests[q]
    /\ \A j \in Jobs : rows'[j] = "ongoing" /\ rows[j] # "ongoing"
            => jobs[j].act = "archive" /\ jobs[j].state # "unused"
    /\ JobsKept

\* Whoever works goes on from what it knows ...
LEMMA CalmKeepsOngoing ==
    ASSUME ServiceInv, Calm
    PROVE  /\ Ongoing("stage")' \subseteq Ongoing("stage")
           /\ \A j \in Ongoing("stage")' : jobs'[j].file = jobs[j].file
           /\ \A f : IsScheduled(f, "stage")' => IsScheduled(f, "stage")
<1>1. ASSUME NEW j \in Ongoing("stage")'
      PROVE  j \in Ongoing("stage") /\ jobs'[j].file = jobs[j].file
  BY <1>1 DEF Calm, JobsKept, Ongoing, ServiceInv, RowsOK
<1> QED BY <1>1 DEF IsScheduled

LEMMA CalmKeepsWorkers ==
    ASSUME ServiceInv, Calm
    PROVE  WorkersOK'
<1>1. Ongoing("stage")' \subseteq Ongoing("stage")
  BY CalmKeepsOngoing
<1>2. \A f : IsScheduled(f, "stage")' => IsScheduled(f, "stage")
  BY CalmKeepsOngoing
<1>3. ASSUME NEW x \in Procs PROVE (Works(local[x]) => x \in Beats)'
  BY DEF Calm, ServiceInv, WorkersOK, Works, Counts, Serves, Rests, Archives
<1>4. ASSUME NEW x \in Procs PROVE WorkerOK(local[x])'
  <2>1. CASE Rests(local'[x])
    BY <2>1 DEF Rests, Serves, Archives, Counts, WorkerOK, ServingOK, CountingOK,
                SubmittingOK, CompletingOK, ArchivingOK
  <2>2. CASE local'[x] = local[x]
    <3> DEFINE l == local[x]
    <3>1. WorkerOK(l) /\ InHand(l) /\ l \in LocalType
      BY DEF ServiceInv, WorkersOK, TypeOK, ProcessTypeOK
    <3>2. \A q \in Requests : requests[q].status # "none" => requests'[q] = requests[q]
      BY DEF Calm
    <3>3. ServingOK(local[x])'
      BY <2>2, <3>1, <3>2 DEF WorkerOK, ServingOK, Serves, FilesOf
    <3>4. CountingOK(local[x])'
      <4>1. Cardinality(Ongoing("stage"))' <= Cardinality(Ongoing("stage"))
        BY <1>1, OngoingShrinks
      <4>2. WithStatus("submitted") \subseteq WithStatus("submitted")'
        BY <3>2 DEF WithStatus
      <4> QED BY <2>2, <3>1, <4>1, <4>2, OngoingFinite, ThresholdAssumption
              DEF WorkerOK, CountingOK, Counts, Serves, LocalType
    <3>5. SubmittingOK(local[x])'
      BY <1>2, <2>2, <3>1 DEF WorkerOK, SubmittingOK, Serves, InHand, Calm, JobsKept
    <3>6. CompletingOK(local[x])'
      BY <1>2, <2>2, <3>1, <3>2, NoneAssumption DEF WorkerOK, CompletingOK, InHand
    <3>7. ArchivingOK(local[x])'
      BY <2>2, <3>1 DEF WorkerOK, ArchivingOK, Archives, InHand, Calm, JobsKept
    <3> QED BY <3>3, <3>4, <3>5, <3>6, <3>7 DEF WorkerOK
  <2>3. CASE Archives(local'[x]) /\ ArchivingOK(local[x])'
    BY <2>3 DEF Archives, Serves, Counts, WorkerOK, ServingOK, CountingOK, SubmittingOK,
                CompletingOK
  <2> QED BY <2>1, <2>2, <2>3 DEF Calm
<1> QED BY <1>3, <1>4 DEF WorkersOK

\* ... and the tables keep their meaning.
LEMMA CalmKeepsRows ==
    ASSUME ServiceInv, Calm,
           \A q \in Requests : requests[q].status = "none" /\ requests'[q].status # "none"
                => requests'[q].files \subseteq FilesOf(requests'[q].rec)
    PROVE  (RowsOK /\ StagedOnce /\ ThresholdRespected)'
<1>1. RowsOK'
  BY DEF ServiceInv, RowsOK, Calm, JobsKept, FilesOf
<1>2. StagedOnce'
  BY CalmKeepsOngoing DEF ServiceInv, StagedOnce, Ongoing
<1>3. ThresholdRespected'
  BY CalmKeepsOngoing, OngoingShrinks, OngoingFinite, ThresholdAssumption
     DEF ServiceInv, ThresholdRespected
<1> QED BY <1>1, <1>2, <1>3

\* A record that is computed again says "requested" when it has to.
LEMMA RequestedComputed ==
    ASSUME ServiceInv, NEW r, NEW ts, Staging(r)
    PROVE  Availability(r, ts) = "requested"
<1>1. ASSUME NEW j \in Jobs, rows[j] = "ongoing", jobs[j].act = "stage",
             RecordOf[jobs[j].file] = r
      PROVE  j \in Ongoing("stage") \cap JobsOn(r)
  <2>1. jobs[j].file \in Files
    BY <1>1 DEF ServiceInv, RowsOK, TypeOK, DbTypeOK
  <2> QED BY <1>1, <2>1, NoneAssumption DEF Ongoing, JobsOn
<1>2. \/ \E q \in WithStatus("submitted") : requests[q].rec = r
      \/ Ongoing("stage") \cap JobsOn(r) # {}
  BY <1>1 DEF WithStatus, Staging
<1> QED BY <1>2 DEF Availability

\* The availabilities that a process has computed are saved in the end: it still
\* has the current rows, or it saves nothing.
LEMMA SavedRequested ==
    ASSUME ServedInv, NEW p \in Procs, SaveRecords(p)
    PROVE  RequestedWhileStaging'
<1> DEFINE l == local[p]
<1>1. /\ live \subseteq Records /\ UNCHANGED <<live, requests, rows, jobs>>
      /\ RequestedWhileStaging /\ SaverOK(p) /\ l.pc = "save"
  BY DEF ServedInv, SaversOK, ServiceInv, TypeOK, DbTypeOK, SaveRecords
<1>2. ASSUME NEW r \in live, Staging(r) PROVE avail'[r] = "requested"
  <2>1. avail[r] = "requested"
    BY <1>1, <1>2 DEF RequestedWhileStaging, Staging
  <2>2. CASE ~CanSave(p, l.queue)
    BY <2>1, <2>2 DEF SaveRecords
  <2>3. CASE CanSave(p, l.queue)
    <3>1. avail'[r] = IF r \in l.queue THEN l.avl[r] ELSE avail[r]
      BY <1>1, <2>3 DEF SaveRecords
    <3>2. r \in l.queue => l.avl[r] = "requested"
      BY <1>1, <1>2, <2>3 DEF CanSave, SaverOK, Saves
    <3> QED BY <2>1, <3>1, <3>2
  <2> QED BY <2>2, <2>3
<1> QED BY <1>1, <1>2 DEF RequestedWhileStaging, Staging

\* A step that starts no transfer and leaves the records alone.
LEMMA CalmRequested ==
    ASSUME ServiceInv, Calm, UNCHANGED avail, live' \subseteq live,
           \A q \in Requests : requests'[q].status = "submitted"
                                => requests[q].status = "submitted"
    PROVE  RequestedWhileStaging'
<1>1. \A q \in Requests : requests'[q].status = "submitted" => requests'[q] = requests[q]
  BY DEF Calm
<1>2. \A j \in Jobs : rows'[j] = "ongoing" /\ jobs'[j].act = "stage"
        => rows[j] = "ongoing" /\ jobs[j].act = "stage" /\ jobs'[j].file = jobs[j].file
  BY CalmKeepsOngoing DEF Ongoing
<1> QED BY <1>1, <1>2 DEF ServiceInv, RequestedWhileStaging

-----------------------------------------------------------------------------
(* The steps, one lemma per component.                                      *)

\* process_transfers only ends transfers, whoever runs it.
LEMMA TransferServes ==
    ASSUME ServiceInv, NEW p \in Procs, TransferStep(p)
    PROVE  ServiceInv' /\ UNCHANGED requests
<1> DEFINE l == local[p]
<1>1. /\ TypeOK /\ l \in LocalType /\ local \in [Procs -> LocalType]
      /\ rows \in [Jobs -> {"none", "ongoing", "done", "failed", "lost"}]
  BY DEF ServiceInv, TypeOK, ProcessTypeOK, DbTypeOK
<1>2. TypeOK'
  BY <1>1, TransferTyped
<1>3. ASSUME NEW m, Becomes(p, m), Rests(m)
      PROVE  \A x \in Procs : local'[x] = local[x] \/ Rests(local'[x])
  BY <1>1, <1>3 DEF Becomes
<1>4. ASSUME Calm, UNCHANGED <<requests, avail, live>> PROVE ServiceInv'
  BY <1>2, <1>4, CalmKeepsWorkers, CalmKeepsRows, CalmRequested DEF ServiceInv
<1>5. Rests(Idle) /\ \A x : Rests([Idle EXCEPT !.pc = "poll", !.polls = x])
  BY DEF Idle, Rests
<1>6. \A x, y : l.pc = "poll" => /\ Rests([l EXCEPT !.polls = x, !.queue = y])
                                /\ Rests([l EXCEPT !.polls = x])
  BY <1>1 DEF LocalType, Rests
<1>7. CASE ProcessTransfers(p)
  <2>1. Calm
    BY <1>3, <1>5, <1>7 DEF ProcessTransfers, LocalOnly, Calm, JobsKept
  <2> QED BY <1>4, <1>7, <2>1 DEF ProcessTransfers, LocalOnly, catalog
<1>8. CASE EndTransfers(p)
  <2>1. Rests(Dump(l))
    BY <1>1, <1>8 DEF EndTransfers, TypeOK, ProcessTypeOK, InHand, Dump, LocalType, Rests
  <2>2. Calm
    BY <1>3, <1>5, <1>8, <2>1 DEF EndTransfers, Calm, JobsKept
  <2> QED BY <1>4, <1>8, <2>2 DEF EndTransfers, catalog
<1>9. ASSUME NEW j \in Jobs, TransferDone(p, j) PROVE ServiceInv' /\ UNCHANGED requests
  <2>1. Calm
    BY <1>1, <1>3, <1>6, <1>9 DEF TransferDone, Polling, At, Calm, JobsKept
  <2> QED BY <1>4, <1>9, <2>1 DEF TransferDone
<1>10. ASSUME NEW j \in Jobs, TransferFailed(p, j) PROVE ServiceInv' /\ UNCHANGED requests
  <2>1. Calm
    BY <1>1, <1>3, <1>6, <1>10 DEF TransferFailed, Polling, At, Calm, JobsKept
  <2> QED BY <1>4, <1>10, <2>1 DEF TransferFailed, catalog
<1>11. ASSUME NEW j \in Jobs, TransferPending(p, j) PROVE ServiceInv' /\ UNCHANGED requests
  <2>1. Calm
    BY <1>1, <1>3, <1>6, <1>11 DEF TransferPending, Polling, At, LocalOnly, Calm, JobsKept
  <2> QED BY <1>4, <1>11, <2>1 DEF TransferPending, LocalOnly, catalog
<1> QED BY <1>7, <1>8, <1>9, <1>10, <1>11 DEF TransferStep

\* Operators who clear or archive files bring none back.
LEMMA OperatorServes ==
    ASSUME ServiceInv, OneMover, NEW p \in Operators, ClearStep(p) \/ Command(p)
    PROVE  ServiceInv' /\ UNCHANGED requests
<1> DEFINE l == local[p]
<1>0. p \in Procs
  BY DEF Procs
<1>1. /\ TypeOK /\ l \in LocalType /\ local \in [Procs -> LocalType]
      /\ rows \in [Jobs -> {"none", "ongoing", "done", "failed", "lost"}]
  BY <1>0 DEF ServiceInv, TypeOK, ProcessTypeOK, DbTypeOK
<1>2. TypeOK'
  BY <1>0, <1>1, ClearTyped, CommandTyped
<1>3. ASSUME NEW m, Becomes(p, m), Rests(m), UNCHANGED <<requests, rows, jobs>>
      PROVE  Calm
  BY <1>0, <1>1, <1>3 DEF Becomes, Calm, JobsKept
<1>4. ASSUME Calm, UNCHANGED <<requests, avail, live>> PROVE ServiceInv'
  BY <1>2, <1>4, CalmKeepsWorkers, CalmKeepsRows, CalmRequested DEF ServiceInv
<1>5. Rests(Idle)
  BY DEF Idle, Rests
<1>6. ASSUME NEW f \in Files, ClearSkips(p, f) PROVE ServiceInv' /\ UNCHANGED requests
  <2>1. Rests(Drop(l, f))
    BY <1>1, <1>6 DEF ClearSkips, Drop, LocalType, Rests
  <2> QED BY <1>3, <1>4, <1>6, <2>1 DEF ClearSkips, LocalOnly, catalog
<1>7. ASSUME NEW f \in Files, ClearFile(p, f) PROVE ServiceInv' /\ UNCHANGED requests
  <2> DEFINE m == [Drop(l, f) EXCEPT !.pending = @ \cup {f}, !.queue = @ \cup {l.rec}]
  <2>1. Rests(m)
    BY <1>1, <1>7 DEF ClearFile, Drop, LocalType, Rests
  <2>2. Becomes(p, m) \/ Becomes(p, Idle)
    BY <1>7 DEF ClearFile
  <2> HIDE DEF m
  <2>3. UNCHANGED <<requests, rows, jobs, avail, live>>
    BY <1>7 DEF ClearFile, catalog
  <2>4. Calm
    <3>1. CASE Becomes(p, m) BY <1>3, <2>1, <2>3, <3>1
    <3>2. CASE Becomes(p, Idle) BY <1>3, <1>5, <2>3, <3>2
    <3> QED BY <2>2, <3>1, <3>2
  <2> QED BY <1>4, <2>3, <2>4
<1>8. CASE CloseClear(p)
  <2>1. l.req = None /\ Rests(Dump(l)) /\ AfterSave(l) = Idle
    BY <1>0, <1>1, <1>8 DEF CloseClear, At, TypeOK, ProcessTypeOK, InHand, Dump, AfterSave,
                            LocalType, Rests
  <2>2. UNCHANGED <<requests, rows, jobs, avail, live>>
    BY <1>8 DEF CloseClear, catalog
  <2>3. Calm
    BY <1>3, <1>5, <1>8, <2>1, <2>2 DEF CloseClear, ReindexEntries
  <2> QED BY <1>4, <2>2, <2>3
<1>9. ASSUME NEW r \in Records, NEW sel, NEW opt, CommandClearHot(p, r, sel, opt)
      PROVE  ServiceInv' /\ UNCHANGED requests
  <2> DEFINE m == [Moving([Idle EXCEPT !.act = "clear_hot", !.opt = opt], r, sel)
                     EXCEPT !.pc = "clear"]
  <2>1. Rests(m)
    BY DEF Moving, Idle, Rests
  <2>2. Becomes(p, m) /\ UNCHANGED <<requests, rows, jobs, avail, live>>
    BY <1>9 DEF CommandClearHot, catalog
  <2> HIDE DEF m
  <2> QED BY <1>3, <1>4, <2>1, <2>2
<1>10. ASSUME NEW r \in Records, NEW sel, NEW opt, NEW limit,
              CommandMove(p, "archive", r, sel, opt, limit)
       PROVE  ServiceInv' /\ UNCHANGED requests
  <2> DEFINE m == Moving([Idle EXCEPT !.act = "archive", !.opt = opt, !.left = limit], r, sel)
  <2>1. m.pc = "move" /\ m.act = "archive" /\ m.req = None
    BY DEF Moving, Idle
  <2>2. Becomes(p, m) /\ UNCHANGED <<requests, rows, jobs, avail, live>>
    BY <1>10 DEF CommandMove, catalog
  <2> HIDE DEF m
  <2>3. Calm
    <3>1. Archives(m)
      BY <2>1 DEF Archives
    <3>2. local'[p] = m /\ \A x \in Procs : x # p => local'[x] = local[x]
      BY <1>0, <1>1, <2>2 DEF Becomes
    <3>3. ArchivingOK(local[p])'
      BY <2>1, <3>2 DEF ArchivingOK
    <3> QED BY <2>2, <3>1, <3>2, <3>3 DEF Calm, JobsKept
  <2> QED BY <1>4, <2>2, <2>3
<1>11. CASE Command(p)
  <2>1. PICK r \in Records : \E sel \in Selections(r), opt \in CliOptions :
            \/ \E act \in {"stage", "archive"}, limit \in CliLimits :
                 CommandMove(p, act, r, sel, opt, limit)
            \/ CommandClearHot(p, r, sel, opt)
    BY <1>11 DEF Command
  <2>2. PICK sel \in Selections(r), opt \in CliOptions :
            \/ \E limit \in CliLimits : CommandMove(p, "archive", r, sel, opt, limit)
            \/ CommandClearHot(p, r, sel, opt)
    BY <2>1 DEF CommandMove, OneMover
  <2> QED BY <1>9, <1>10, <2>2
<1> QED BY <1>6, <1>7, <1>8, <1>11 DEF ClearStep

\* Users, crashes, deletions and FTS.
LEMMA WorldServes ==
    ASSUME ServiceInv, \/ UNCHANGED vars
                       \/ \E p \in Procs : Crash(p)
                       \/ \E r \in Records : \E sel \in Selections(r), q \in Requests :
                            Stage(r, sel, q)
                       \/ \E r \in Records : DeleteRecord(r)
                       \/ \E j \in Jobs : JobEnds(j)
    PROVE  ServiceInv'
<1>1. TypeOK /\ TypeOK'
  <2>1. TypeOK BY DEF ServiceInv
  <2> QED BY <2>1, NextTyped DEF Next
<1>2. ASSUME Calm, UNCHANGED <<requests, avail>>, live' \subseteq live
      PROVE  ServiceInv'
  BY <1>1, <1>2, CalmKeepsWorkers, CalmKeepsRows, CalmRequested DEF ServiceInv
<1>3. CASE UNCHANGED vars
  <2>1. Calm BY <1>3 DEF Calm, JobsKept, vars, catalog, storage
  <2> QED BY <1>2, <1>3, <2>1 DEF vars, catalog
<1>4. ASSUME NEW p \in Procs, Crash(p)
      PROVE  ServiceInv'
  <2>1. Rests(Idle) BY DEF Idle, Rests
  <2>2. Calm BY <1>1, <1>4, <2>1 DEF Crash, Calm, JobsKept, Becomes, TypeOK,
                                       ProcessTypeOK
  <2> QED BY <1>2, <1>4, <2>2 DEF Crash, catalog
<1>5. ASSUME NEW r \in Records, DeleteRecord(r)
      PROVE  ServiceInv'
  <2>1. Calm BY <1>5 DEF DeleteRecord, Calm, JobsKept
  <2> QED BY <1>2, <1>5, <2>1 DEF DeleteRecord
<1>6. ASSUME NEW j \in Jobs, JobEnds(j)
      PROVE  ServiceInv'
  <2>1. Calm
    <3>1. UNCHANGED <<requests, rows, local>>
      BY <1>6 DEF JobEnds, JobFinishes, JobFails, JobCanceled
    <3>2. PICK s \in {"finished", "failed", "canceled"} : jobs' = [jobs EXCEPT ![j].state = s]
      BY <1>6 DEF JobEnds, JobFinishes, JobFails, JobCanceled
    <3>3. jobs \in [Jobs -> [state: {"unused", "active", "finished", "failed", "canceled"},
                            file: Files \cup {None}, act: {"stage", "archive"}]]
      BY <1>1 DEF TypeOK, DbTypeOK
    <3>4. \A i \in Jobs : /\ jobs'[i].file = jobs[i].file /\ jobs'[i].act = jobs[i].act
                          /\ jobs'[i].state = "unused" => jobs[i].state = "unused"
      BY <3>2, <3>3
    <3> QED BY <3>1, <3>4 DEF Calm, JobsKept
  <2> QED BY <1>2, <1>6, <2>1 DEF JobEnds, JobFinishes, JobFails, JobCanceled, catalog
<1>7. ASSUME NEW r \in Records, NEW sel \in Selections(r), NEW q \in Requests,
             Stage(r, sel, q)
      PROVE  ServiceInv'
  <2>1. \A x \in Requests : x # q => requests'[x] = requests[x]
    BY <1>1, <1>7 DEF Stage, TypeOK, RequestTypeOK
  <2>2. requests'[q].rec = r /\ requests'[q].files = sel /\ requests[q].status = "none"
    BY <1>1, <1>7 DEF Stage, TypeOK, RequestTypeOK
  <2>3. sel \subseteq FilesOf(r)
    BY DEF Selections
  <2>4. Calm
    BY <1>7, <2>1, <2>2 DEF Stage, Calm, JobsKept
  <2>5. RequestedWhileStaging'
    <3>1. \A x \in Records : avail'[x] = IF x = r THEN "requested" ELSE avail[x]
      BY <1>1, <1>7 DEF Stage, TypeOK, DbTypeOK
    <3>2. live \subseteq Records BY <1>1 DEF TypeOK, DbTypeOK
    <3> QED BY <1>7, <2>1, <2>2, <3>1, <3>2
            DEF Stage, ServiceInv, RequestedWhileStaging
  <2>6. (RowsOK /\ StagedOnce /\ ThresholdRespected)'
    BY <2>1, <2>2, <2>3, <2>4, CalmKeepsRows DEF FilesOf
  <2> QED BY <1>1, <2>1, <2>2, <2>4, <2>5, <2>6, CalmKeepsWorkers DEF ServiceInv
<1> QED BY <1>3, <1>4, <1>5, <1>6, <1>7

-----------------------------------------------------------------------------
(* The steps of the process that moves the files: the others are elsewhere. *)

\* After a step of the mover nobody else works.
LEMMA WorkerStep ==
    ASSUME ServiceInv, OneMover, NEW p \in Procs, p \in Beats, NEW m,
           Becomes(p, m), WorkerOK(local[p])', JobsKept
    PROVE  WorkersOK'
<1>1. ASSUME NEW x \in Procs, x # p
      PROVE  /\ local'[x] = local[x] /\ ~Works(local[x])
             /\ ArchivingOK(local[x]) /\ InHand(local[x])
  BY <1>1 DEF Becomes, OneMover, ServiceInv, WorkersOK, WorkerOK, TypeOK, ProcessTypeOK
<1>2. ASSUME NEW x \in Procs, x # p PROVE ~Works(local[x])'
  BY <1>1, <1>2 DEF Works, Counts, Serves
<1>3. ASSUME NEW x \in Procs, x # p PROVE WorkerOK(local[x])'
  <2>1. ArchivingOK(local[x])'
    BY <1>1, <1>3 DEF ArchivingOK, Archives, JobsKept, InHand
  <2> QED BY <1>2, <1>3, <2>1 DEF Works, Counts, Serves, WorkerOK, ServingOK, CountingOK,
                                  SubmittingOK, CompletingOK
<1> QED BY <1>2, <1>3 DEF WorkersOK

\* A step of the mover that leaves the tables alone.
LEMMA WorkerReads ==
    ASSUME ServiceInv, OneMover, NEW p \in Procs, p \in Beats, NEW m,
           Becomes(p, m), UNCHANGED <<catalog, requests, rows, jobs>>, TypeOK', WorkerOK(m)
    PROVE  ServiceInv'
<1>1. local'[p] = m
  BY DEF Becomes, ServiceInv, TypeOK, ProcessTypeOK
<1>2. WorkerOK(local[p])'
  <2>1. UNCHANGED <<requests, rows, jobs>> OBVIOUS
  <2>2. Ongoing("stage")' = Ongoing("stage") /\ WithStatus("submitted")' = WithStatus("submitted")
    BY <2>1 DEF Ongoing, WithStatus
  <2>3. \A f : IsScheduled(f, "stage")' = IsScheduled(f, "stage")
    BY <2>1, <2>2 DEF IsScheduled
  <2> QED BY <1>1, <2>1, <2>2, <2>3
          DEF WorkerOK, ServingOK, CountingOK, SubmittingOK, CompletingOK, ArchivingOK,
              Archives, Counts, Serves, FilesOf
<1>3. WorkersOK'
  BY <1>2, WorkerStep DEF JobsKept
<1>4. (RowsOK /\ StagedOnce /\ RequestedWhileStaging)'
  BY DEF ServiceInv, catalog, RowsOK, StagedOnce, RequestedWhileStaging, FilesOf
<1>5. ThresholdRespected'
  <2>1. Ongoing("stage")' = Ongoing("stage")
    BY DEF Ongoing
  <2> QED BY <2>1 DEF ServiceInv, ThresholdRespected
<1> QED BY <1>3, <1>4, <1>5 DEF ServiceInv

\* The manager archives files: no transfer to the disk starts.
LEMMA ArchiveServes ==
    ASSUME ServiceInv, NEW p \in Procs, Archives(local[p]), MoveStep(p)
    PROVE  ServiceInv' /\ UNCHANGED requests
<1> DEFINE l == local[p]
<1>1. /\ TypeOK /\ TypeOK' /\ l \in LocalType /\ InHand(l) /\ ArchivingOK(l)
      /\ local \in [Procs -> LocalType] /\ l.act = "archive" /\ l.req = None
      /\ rows \in [Jobs -> {"none", "ongoing", "done", "failed", "lost"}]
      /\ jobs \in [Jobs -> [state: {"unused", "active", "finished", "failed", "canceled"},
                            file: Files \cup {None}, act: {"stage", "archive"}]]
  BY MoveTyped DEF ServiceInv, WorkersOK, WorkerOK, TypeOK, ProcessTypeOK, DbTypeOK,
                   Archives, ArchivingOK
<1>2. UNCHANGED <<requests, live>>
  BY DEF MoveStep, SkipFile, RegisterCopy, NeedTransfer, SubmitJob, SubmitFails,
         CreateTransfer, CloseRecord, SaveRecords, Archives, LocalOnly, catalog
<1>3. ASSUME Calm, UNCHANGED avail PROVE ServiceInv'
  BY <1>1, <1>2, <1>3, CalmKeepsWorkers, CalmKeepsRows, CalmRequested DEF ServiceInv
<1>4. ASSUME NEW m, Becomes(p, m), m.act = "archive", m.req = None,
             m.pc \in {"move", "submit_job"}, LocalOnly
      PROVE  ServiceInv'
  <2>1. local'[p] = m /\ \A x \in Procs : x # p => local'[x] = local[x]
    BY <1>1, <1>4 DEF Becomes
  <2>2. Calm
    BY <1>4, <2>1 DEF LocalOnly, Calm, JobsKept, Archives, ArchivingOK
  <2> QED BY <1>3, <1>4, <2>2 DEF LocalOnly, catalog
<1>5. ASSUME NEW f \in Files, SkipFile(p, f) PROVE ServiceInv'
  <2>1. Drop(l, f).pc = "move" /\ Drop(l, f).act = "archive" /\ Drop(l, f).req = None
    BY <1>1, <1>5 DEF SkipFile, Drop, LocalType
  <2> QED BY <1>4, <1>5, <2>1 DEF SkipFile
<1>6. ASSUME NEW f \in Files, RegisterCopy(p, f) PROVE ServiceInv'
  <2> DEFINE found == RecordOf[f] \in live
             m == [Drop(l, f) EXCEPT !.pending = IF found THEN @ \cup {f} ELSE @,
                                     !.queue = IF found THEN @ \cup {l.rec} ELSE @]
  <2>1. m.pc = "move" /\ m.act = "archive" /\ m.req = None
    BY <1>1, <1>6 DEF RegisterCopy, Drop, LocalType
  <2>2. Becomes(p, m) /\ LocalOnly
    BY <1>6 DEF RegisterCopy
  <2> HIDE DEF m
  <2> QED BY <1>4, <2>1, <2>2
<1>7. ASSUME NEW f \in Files, NeedTransfer(p, f) PROVE ServiceInv'
  <2>1. LET m == [Drop(l, f) EXCEPT !.pc = "submit_job", !.file = f]
        IN  m.pc = "submit_job" /\ m.act = "archive" /\ m.req = None
    BY <1>1 DEF Drop, LocalType
  <2> QED BY <1>4, <1>7, <2>1 DEF NeedTransfer
<1>8. ASSUME SubmitFails(p) PROVE ServiceInv'
  <2>1. LET m == [l EXCEPT !.pc = "move", !.file = None]
        IN  m.pc = "move" /\ m.act = "archive" /\ m.req = None
    BY <1>1 DEF LocalType
  <2> QED BY <1>4, <1>8, <2>1 DEF SubmitFails
<1>9. ASSUME NEW j \in Jobs, SubmitJob(p, j) PROVE ServiceInv'
  <2>1. /\ local'[p].pc = "create_transfer" /\ local'[p].job = j /\ local'[p].file = l.file
        /\ local'[p].act = "archive" /\ local'[p].req = None
        /\ \A x \in Procs : x # p => local'[x] = local[x]
    BY <1>1, <1>9 DEF SubmitJob, Becomes, LocalType
  <2>2. /\ jobs[j].state = "unused" /\ jobs'[j].file = l.file /\ jobs'[j].act = "archive"
        /\ jobs'[j].state = "active" /\ \A i \in Jobs : i # j => jobs'[i] = jobs[i]
        /\ UNCHANGED <<requests, rows, avail>>
    BY <1>1, <1>9 DEF SubmitJob, catalog
  <2>3. Archives(local'[p]) /\ ArchivingOK(local[p])'
    BY <2>1, <2>2 DEF Archives, ArchivingOK
  <2>4. Calm
    BY <2>1, <2>2, <2>3 DEF Calm, JobsKept
  <2> QED BY <1>3, <2>2, <2>4
<1>10. ASSUME CreateTransfer(p) PROVE ServiceInv'
  <2>1. /\ local'[p].pc = "move" /\ local'[p].act = "archive" /\ local'[p].req = None
        /\ \A x \in Procs : x # p => local'[x] = local[x]
    BY <1>1, <1>10 DEF CreateTransfer, Becomes, LocalType
  <2>2. /\ l.job \in Jobs /\ jobs[l.job].act = "archive" /\ jobs[l.job].state # "unused"
        /\ rows' = [rows EXCEPT ![l.job] = "ongoing"] /\ UNCHANGED <<requests, jobs, avail>>
    BY <1>1, <1>10 DEF CreateTransfer, InHand, Archives, ArchivingOK
  <2>3. Archives(local'[p]) /\ ArchivingOK(local[p])'
    BY <2>1 DEF Archives, ArchivingOK
  <2>4. Calm
    BY <1>1, <2>1, <2>2, <2>3 DEF Calm, JobsKept
  <2> QED BY <1>3, <2>2, <2>4
<1>11. ASSUME CloseRecord(p) PROVE ServiceInv'
  <2>1. AfterSave(l) = Idle /\ Rests(Idle) /\ Rests(Dump(l))
    BY <1>1 DEF AfterSave, Dump, LocalType, Idle, Rests
  <2>2. \/ Becomes(p, Idle) \/ Becomes(p, Dump(l))
    BY <1>11, <2>1 DEF CloseRecord, ReindexEntries
  <2>3. UNCHANGED <<live, avail, requests, rows, jobs>>
    BY <1>11 DEF CloseRecord, catalog
  <2>4. Calm
    BY <1>1, <2>1, <2>2, <2>3 DEF Becomes, Calm, JobsKept
  <2> QED BY <1>3, <2>3, <2>4
<1>12. ~SaveRecords(p)
  BY DEF SaveRecords, Archives
<1> QED BY <1>2, <1>5, <1>6, <1>7, <1>8, <1>9, <1>10, <1>11, <1>12 DEF MoveStep

\* What was registered is saved, by a process that brings no files back.
LEMMA RestSaves ==
    ASSUME ServedInv, NEW p \in Procs, local[p].req = None, SaveRecords(p)
    PROVE  ServiceInv' /\ UNCHANGED requests
<1> DEFINE l == local[p]
<1>1. ServiceInv /\ TypeOK /\ TypeOK' /\ local \in [Procs -> LocalType]
  BY MoveTyped DEF MoveStep, ServedInv, ServiceInv, TypeOK, ProcessTypeOK
<1>2. AfterSave(l) = Idle /\ Rests(Idle)
  BY DEF AfterSave, Idle, Rests
<1>3. Becomes(p, Idle) /\ UNCHANGED <<live, requests, rows, jobs>>
  BY <1>2 DEF SaveRecords
<1>4. Calm
  BY <1>1, <1>2, <1>3 DEF Becomes, Calm, JobsKept
<1> QED BY <1>1, <1>3, <1>4, SavedRequested, CalmKeepsWorkers, CalmKeepsRows DEF ServiceInv

\* The manager stages files within the room the service has left it.
LEMMA StageServes ==
    ASSUME ServedInv, OneMover, NEW p \in Procs, MoveStep(p),
           ~Archives(local[p]), ~SaveRecords(p) \/ local[p].req # None
    PROVE  ServiceInv' /\ UNCHANGED requests
<1> DEFINE l == local[p]
<1>1. /\ TypeOK /\ TypeOK' /\ l \in LocalType /\ InHand(l) /\ WorkerOK(l)
      /\ local \in [Procs -> LocalType] /\ ServiceInv
  BY MoveTyped DEF ServedInv, ServiceInv, WorkersOK, TypeOK, ProcessTypeOK
<1>2. Serves(l) /\ p \in Beats
  <2>1. Serves(l)
    BY DEF MoveStep, SkipFile, RegisterCopy, NeedTransfer, SubmitJob, SubmitFails, At,
           CreateTransfer, CloseRecord, SaveRecords, Serves, Archives
  <2> QED BY <1>1, <2>1 DEF ServiceInv, WorkersOK, Works, Counts
<1>3. ServingOK(l) /\ CountingOK(l) /\ SubmittingOK(l)
  BY <1>1 DEF WorkerOK
<1>4. ASSUME NEW f \in Files, SkipFile(p, f) PROVE ServiceInv' /\ UNCHANGED requests
  <2>1. WorkerOK(Drop(l, f))
    BY <1>1, <1>2, <1>3, <1>4 DEF SkipFile, Drop, LocalType, WorkerOK, ServingOK, CountingOK,
           SubmittingOK, CompletingOK, ArchivingOK, Archives, Counts, Serves
  <2> QED BY <1>1, <1>2, <1>4, <2>1, WorkerReads DEF SkipFile, LocalOnly
<1>5. ASSUME NEW f \in Files, RegisterCopy(p, f) PROVE ServiceInv' /\ UNCHANGED requests
  <2> DEFINE found == RecordOf[f] \in live
             m == [Drop(l, f) EXCEPT !.pending = IF found THEN @ \cup {f} ELSE @,
                                     !.queue = IF found THEN @ \cup {l.rec} ELSE @]
  <2>1. WorkerOK(m)
    BY <1>1, <1>2, <1>3, <1>5 DEF RegisterCopy, Drop, LocalType, WorkerOK, ServingOK, CountingOK,
           SubmittingOK, CompletingOK, ArchivingOK, Archives, Counts, Serves
  <2> QED BY <1>1, <1>2, <1>5, <2>1, WorkerReads DEF RegisterCopy, LocalOnly
<1>6. ASSUME NEW f \in Files, NeedTransfer(p, f) PROVE ServiceInv' /\ UNCHANGED requests
  <2> DEFINE m == [Drop(l, f) EXCEPT !.pc = "submit_job", !.file = f]
  <2>1. /\ m.pc = "submit_job" /\ m.file = f /\ m.files \subseteq l.files /\ m.left = l.left
        /\ m.req = l.req /\ m.rec = l.rec /\ m.act = l.act /\ m.todo = l.todo
    BY <1>1 DEF Drop, LocalType
  <2>2. /\ l.pc = "move" /\ f \in l.files /\ ~IsScheduled(f, l.act)
    BY <1>6 DEF NeedTransfer, MustMove
  <2> HIDE DEF m
  <2>3. WorkerOK(m)
    BY <1>2, <1>3, <2>1, <2>2 DEF WorkerOK, ServingOK, CountingOK, SubmittingOK,
           CompletingOK, ArchivingOK, Archives, Counts, Serves, FilesOf
  <2>4. Becomes(p, m) /\ LocalOnly
    BY <1>6 DEF NeedTransfer, m
  <2> QED BY <1>1, <1>2, <2>3, <2>4, WorkerReads DEF LocalOnly
<1>7. ASSUME NEW j \in Jobs, SubmitJob(p, j) PROVE ServiceInv' /\ UNCHANGED requests
  <2> DEFINE m == [l EXCEPT !.pc = "create_transfer", !.job = j]
  <2>1. /\ local'[p].pc = "create_transfer" /\ local'[p].job = j /\ local'[p].file = l.file
        /\ local'[p].files = l.files /\ local'[p].left = l.left /\ local'[p].req = l.req
        /\ local'[p].rec = l.rec /\ local'[p].act = l.act /\ local'[p].todo = l.todo
    BY <1>1, <1>7 DEF SubmitJob, Becomes, LocalType
  <2>2. /\ l.pc = "submit_job" /\ jobs[j].state = "unused" /\ rows[j] # "ongoing"
        /\ l.act = "stage"
    BY <1>1, <1>2, <1>3, <1>7 DEF SubmitJob, ServiceInv, RowsOK, CountingOK, Counts
  <2>3. /\ jobs'[j].file = l.file /\ jobs'[j].act = "stage" /\ jobs'[j].state = "active"
        /\ \A i \in Jobs : i # j => jobs'[i] = jobs[i]
        /\ UNCHANGED <<requests, rows, live, avail>>
    BY <1>1, <1>7, <2>2 DEF SubmitJob, TypeOK, DbTypeOK, catalog
  <2>4. Ongoing("stage")' = Ongoing("stage")
    BY <2>2, <2>3 DEF Ongoing
  <2>5. \A f : IsScheduled(f, "stage")' = IsScheduled(f, "stage")
    BY <2>2, <2>3, <2>4 DEF IsScheduled, Ongoing
  <2>6. WithStatus("submitted")' = WithStatus("submitted")
    BY <2>3 DEF WithStatus
  <2>7. WorkerOK(local[p])'
    <3>1. ServingOK(local[p])'
      BY <1>2, <1>3, <2>1, <2>3 DEF ServingOK, Serves, FilesOf
    <3>2. CountingOK(local[p])'
      BY <1>2, <1>3, <2>1, <2>4, <2>6 DEF CountingOK, Counts
    <3>3. SubmittingOK(local[p])'
      BY <1>2, <1>3, <2>1, <2>2, <2>3, <2>5 DEF SubmittingOK
    <3>4. CompletingOK(local[p])'
      BY <2>1 DEF CompletingOK
    <3>5. ArchivingOK(local[p])'
      BY <1>2, <1>3, <2>1 DEF CountingOK, Counts, ArchivingOK, Archives
    <3> QED BY <3>1, <3>2, <3>3, <3>4, <3>5 DEF WorkerOK
  <2>8. WorkersOK'
    <3>1. JobsKept
      BY <2>2, <2>3 DEF JobsKept
    <3> QED BY <1>1, <1>2, <1>7, <2>7, <3>1, WorkerStep DEF SubmitJob
  <2>9. (RowsOK /\ StagedOnce /\ RequestedWhileStaging)'
    BY <1>1, <2>2, <2>3 DEF ServiceInv, RowsOK, StagedOnce, RequestedWhileStaging, FilesOf
  <2>10. ThresholdRespected'
    BY <1>1, <2>4 DEF ServiceInv, ThresholdRespected
  <2> QED BY <1>1, <2>3, <2>8, <2>9, <2>10 DEF ServiceInv
<1>8. ASSUME SubmitFails(p) PROVE ServiceInv' /\ UNCHANGED requests
  <2> DEFINE m == [l EXCEPT !.pc = "move", !.file = None]
  <2>1. WorkerOK(m)
    BY <1>1, <1>2, <1>3, <1>8 DEF SubmitFails, At, LocalType, WorkerOK, ServingOK, CountingOK,
           SubmittingOK, CompletingOK, ArchivingOK, Archives, Counts, Serves
  <2> QED BY <1>1, <1>2, <1>8, <2>1, WorkerReads DEF SubmitFails, LocalOnly
<1>9. ASSUME CreateTransfer(p) PROVE ServiceInv' /\ UNCHANGED requests
  <2>1. /\ local'[p].pc = "move" /\ local'[p].left = l.left - 1
        /\ local'[p].files = IF l.left = 1 THEN {} ELSE l.files
        /\ local'[p].req = l.req /\ local'[p].rec = l.rec /\ local'[p].act = l.act
        /\ local'[p].todo = l.todo
    BY <1>1, <1>2, <1>3, <1>9 DEF CreateTransfer, Becomes, LocalType, SubmittingOK
  <2>2. /\ l.pc = "create_transfer" /\ l.job \in Jobs /\ l.left \in Nat /\ l.left > 0
        /\ jobs[l.job].file = l.file /\ jobs[l.job].act = "stage"
        /\ jobs[l.job].state # "unused" /\ RecordOf[l.file] = l.rec
        /\ ~IsScheduled(l.file, "stage")
    BY <1>1, <1>2, <1>3, <1>9 DEF CreateTransfer, InHand, LocalType, SubmittingOK
  <2>3. /\ rows' = [rows EXCEPT ![l.job] = "ongoing"]
        /\ rows \in [Jobs -> {"none", "ongoing", "done", "failed", "lost"}]
        /\ UNCHANGED <<requests, jobs, live, avail>>
    BY <1>1, <1>9 DEF CreateTransfer, TypeOK, DbTypeOK
  <2>4. Ongoing("stage")' = Ongoing("stage") \cup {l.job}
    BY <2>2, <2>3 DEF Ongoing
  <2>5. local'[p].left + Cardinality(Ongoing("stage"))' <= Threshold
    <3>1. Cardinality(Ongoing("stage"))' <= Cardinality(Ongoing("stage")) + 1
      BY <2>4, OngoingFinite, FS_AddElement
    <3> QED BY <1>2, <1>3, <2>1, <2>2, <3>1, OngoingFinite, ThresholdAssumption
            DEF CountingOK, Counts
  <2>6. WithStatus("submitted")' = WithStatus("submitted")
    BY <2>3 DEF WithStatus
  <2>7. WorkerOK(local[p])'
    <3>1. ServingOK(local[p])'
      BY <1>2, <1>3, <2>1, <2>2, <2>3 DEF ServingOK, Serves, FilesOf
    <3>2. CountingOK(local[p])'
      BY <1>2, <1>3, <2>1, <2>5, <2>6 DEF CountingOK, Counts
    <3>3. (SubmittingOK(local[p]) /\ CompletingOK(local[p]) /\ ArchivingOK(local[p]))'
      BY <1>2, <1>3, <2>1 DEF SubmittingOK, CompletingOK, CountingOK, Counts, ArchivingOK, Archives
    <3> QED BY <3>1, <3>2, <3>3 DEF WorkerOK
  <2>8. WorkersOK'
    BY <1>1, <1>2, <1>9, <2>3, <2>7, WorkerStep DEF CreateTransfer, JobsKept
  <2>9. (RowsOK /\ ThresholdRespected)'
    <3>1. RowsOK'
      BY <1>1, <2>2, <2>3 DEF ServiceInv, RowsOK, FilesOf
    <3>2. ThresholdRespected'
      BY <2>1, <2>2, <2>5, OngoingFinite, ThresholdAssumption DEF ThresholdRespected
    <3> QED BY <3>1, <3>2
  <2>10. StagedOnce'
    <3>1. \A i \in Jobs : rows[i] = "ongoing" /\ jobs[i].act = "stage" => jobs[i].file # l.file
      BY <2>2 DEF IsScheduled, Ongoing
    <3> QED BY <1>1, <2>2, <2>3, <3>1 DEF ServiceInv, StagedOnce
  <2>11. RequestedWhileStaging'
    <3>1. l.rec \in live => avail[l.rec] = "requested"
      BY <1>1, <1>2, <1>3 DEF ServingOK, ServiceInv, RequestedWhileStaging
    <3> QED BY <1>1, <2>2, <2>3, <3>1 DEF ServiceInv, RequestedWhileStaging
  <2> QED BY <1>1, <2>3, <2>8, <2>9, <2>10, <2>11 DEF ServiceInv
<1>10. ASSUME NEW m, Becomes(p, m), m \in {Idle, AfterSave(l), Dump(l)},
              l.pc \in {"move", "save"}, UNCHANGED <<live, requests, rows, jobs>>,
              RequestedWhileStaging'
       PROVE  ServiceInv' /\ UNCHANGED requests
  <2>1. l.req \in Requests /\ l.req # None
    BY <1>2, <1>3, NoneAssumption DEF ServingOK
  <2>2. /\ m.pc \in {"close_request", "save"} \/ Rests(m)
        /\ m.pc \in {"close_request", "save"} => /\ m.req = l.req /\ m.rec = l.rec /\ m.act = l.act
                                                /\ m.files = l.files /\ m.left = l.left
                                                /\ m.todo = l.todo
    <3>1. CASE m = Idle BY <3>1 DEF Idle, Rests
    <3>2. CASE m = AfterSave(l) BY <1>1, <2>1, <3>2 DEF AfterSave, LocalType
    <3>3. CASE m = Dump(l) BY <1>1, <3>3 DEF Dump, LocalType
    <3> QED BY <1>10, <3>1, <3>2, <3>3
  <2>3. WorkerOK(m)
    <3>1. CASE Rests(m) BY <3>1, RestOK
    <3>2. CASE m.pc \in {"close_request", "save"}
      BY <1>2, <1>3, <2>1, <2>2, <3>2 DEF WorkerOK, ServingOK, CountingOK, SubmittingOK,
           CompletingOK, ArchivingOK, Archives, Counts, Serves
    <3> QED BY <2>2, <3>1, <3>2
  <2>4. WorkerOK(local[p])'
    <3>1. Ongoing("stage")' = Ongoing("stage") /\ WithStatus("submitted")' = WithStatus("submitted")
      BY <1>10 DEF Ongoing, WithStatus
    <3>2. \A f : IsScheduled(f, "stage")' = IsScheduled(f, "stage")
      BY <1>10, <3>1 DEF IsScheduled
    <3>3. local'[p] = m
      BY <1>1, <1>10 DEF Becomes
    <3> QED BY <1>10, <2>3, <3>1, <3>2, <3>3
            DEF WorkerOK, ServingOK, CountingOK, SubmittingOK, CompletingOK, ArchivingOK,
                Archives, Counts, Serves, FilesOf
  <2>5. WorkersOK'
    BY <1>1, <1>2, <1>10, <2>4, WorkerStep DEF JobsKept
  <2>6. (RowsOK /\ StagedOnce)'
    BY <1>1, <1>10 DEF ServiceInv, RowsOK, StagedOnce, FilesOf
  <2>7. ThresholdRespected'
    <3>1. Ongoing("stage")' = Ongoing("stage")
      BY <1>10 DEF Ongoing
    <3> QED BY <1>1, <3>1 DEF ServiceInv, ThresholdRespected
  <2> QED BY <1>1, <1>10, <2>5, <2>6, <2>7 DEF ServiceInv
<1>11. ASSUME CloseRecord(p) PROVE ServiceInv' /\ UNCHANGED requests
  <2>1. UNCHANGED <<live, avail, requests, rows, jobs>> /\ l.pc = "move"
    BY <1>11 DEF CloseRecord, At, catalog
  <2>2. RequestedWhileStaging'
    BY <1>1, <2>1 DEF ServiceInv, RequestedWhileStaging
  <2> QED BY <1>10, <1>11, <2>1, <2>2 DEF CloseRecord, ReindexEntries
<1>12. ASSUME SaveRecords(p) PROVE ServiceInv' /\ UNCHANGED requests
  <2>1. UNCHANGED <<live, requests, rows, jobs>> /\ l.pc = "save"
    BY <1>12 DEF SaveRecords
  <2> QED BY <1>10, <1>12, <2>1, SavedRequested DEF SaveRecords
<1> QED BY <1>4, <1>5, <1>6, <1>7, <1>8, <1>9, <1>11, <1>12 DEF MoveStep

LEMMA MoveServes ==
    ASSUME ServedInv, OneMover, NEW p \in Procs, MoveStep(p)
    PROVE  ServiceInv' /\ UNCHANGED requests
<1>1. CASE Archives(local[p])
  BY <1>1, ArchiveServes DEF ServedInv
<1>2. CASE SaveRecords(p) /\ local[p].req = None
  BY <1>2, RestSaves
<1> QED BY <1>1, <1>2, StageServes

\* What a step may do to the requests of the users.
RequestsStep ==
    \A q \in Requests :
        /\ requests[q].status = "completed" => requests'[q].status = "completed"
        /\ Completes(q) => \A f \in requests[q].files : ~IsScheduled(f, "stage")

\* The service counts, takes, starts and completes requests.
LEMMA RequestServes ==
    ASSUME ServedInv, OneMover, NEW p \in Procs, RequestStep(p)
    PROVE  ServiceInv' /\ RequestsStep
<1> DEFINE l == local[p]
<1>1. /\ TypeOK /\ TypeOK' /\ l \in LocalType /\ InHand(l) /\ WorkerOK(l)
      /\ local \in [Procs -> LocalType] /\ ServiceInv
      /\ requests \in [Requests ->
            [status: {"none", "submitted", "started", "completed"},
             rec: Records \cup {None}, files: SUBSET Files]]
  BY RequestTyped DEF ServedInv, ServiceInv, WorkersOK, TypeOK, ProcessTypeOK, RequestTypeOK
<1>2. p \in Beats
  <2>1. CheckSubmitted(p) \/ Works(l)
    BY DEF RequestStep, TakeRequest, CloseRequest, CheckRunning, CheckRequest, At,
           CheckRequestRaises, SaveAvailability, MarkAsCompleted, EndRunning, Works, Counts, Serves
  <2> QED BY <1>1, <2>1 DEF CheckSubmitted, RunsRequests, OneMover, ServiceInv, WorkersOK
<1>3. ServingOK(l) /\ CountingOK(l) /\ SubmittingOK(l) /\ CompletingOK(l)
  BY <1>1 DEF WorkerOK
<1>4. UNCHANGED requests => RequestsStep
  BY DEF RequestsStep, Completes
<1>5. CASE CheckSubmitted(p)
  <2> DEFINE todo == IF Room > 0 THEN WithStatus("submitted") ELSE {}
             m == [Idle EXCEPT !.pc = "submitted", !.left = Room, !.todo = todo]
  <2>1. /\ m.pc = "submitted" /\ m.left = Room /\ m.todo = todo /\ m.act = "stage"
        /\ m.req = None
    BY DEF Idle
  <2>2. Room + Cardinality(Ongoing("stage")) <= Threshold
    BY <1>1, OngoingFinite, ThresholdAssumption DEF Room, ServiceInv, ThresholdRespected
  <2>3. todo \subseteq WithStatus("submitted") \ {None}
    BY NoneAssumption DEF WithStatus
  <2>4. Becomes(p, m) /\ LocalOnly
    BY <1>5 DEF CheckSubmitted
  <2> HIDE DEF m, todo
  <2>5. WorkerOK(m)
    BY <2>1, <2>2, <2>3
       DEF WorkerOK, ServingOK, CountingOK, SubmittingOK, CompletingOK, ArchivingOK, Archives,
           Serves
  <2> QED BY <1>1, <1>2, <1>4, <2>4, <2>5, WorkerReads DEF LocalOnly
<1>6. ASSUME NEW q \in Requests, TakeRequest(p, q) PROVE ServiceInv' /\ RequestsStep
  <2> DEFINE n == Moving(l, requests[q].rec, requests[q].files)
             m == [n EXCEPT !.req = q, !.todo = @ \ {q}]
  <2>1. /\ n.pc = "move" /\ n.rec = requests[q].rec /\ n.files \subseteq requests[q].files
        /\ n.left = l.left /\ n.act = l.act /\ n.todo = l.todo /\ n \in LocalType
    <3>1. requests[q].rec \in Records /\ requests[q].files \in SUBSET Files
      BY <1>1, <1>6 DEF TakeRequest, InHand, TypeOK, RequestTypeOK
    <3>2. n \in LocalType
      BY <1>1, <3>1, MovingTyped DEF TypeOK
    <3> QED BY <1>1, <3>2 DEF Moving, LocalType
  <2>2. /\ l.pc = "submitted" /\ q \in l.todo /\ l.left > 0
    BY <1>6 DEF TakeRequest
  <2>3. /\ requests[q].status = "submitted" /\ requests[q].files \subseteq FilesOf(requests[q].rec)
    BY <1>1, <1>3, <2>2 DEF CountingOK, Counts, WithStatus, ServiceInv, RowsOK
  <2>4. Becomes(p, m) /\ UNCHANGED <<catalog, requests, rows, jobs>>
    BY <1>6 DEF TakeRequest
  <2> HIDE DEF n
  <2>5. /\ m.pc = "move" /\ m.rec = n.rec /\ m.files = n.files /\ m.left = n.left
        /\ m.act = n.act /\ m.todo = n.todo \ {q} /\ m.req = q
    BY <2>1 DEF LocalType
  <2> HIDE DEF m
  <2>6. WorkerOK(m)
    BY <1>3, <2>1, <2>2, <2>3, <2>5
       DEF WorkerOK, ServingOK, CountingOK, SubmittingOK, CompletingOK, ArchivingOK, Archives, Counts, Serves
  <2> QED BY <1>1, <1>2, <1>4, <2>4, <2>6, WorkerReads
<1>7. CASE CloseRequest(p)
  <2> DEFINE m == [l EXCEPT !.pc = "submitted", !.req = None, !.rec = None]
  <2>1. /\ l.pc = "close_request" /\ l.req \in Requests
        /\ requests[l.req].status = "submitted"
        /\ requests' = [requests EXCEPT ![l.req].status = IF l.left = 0 THEN @ ELSE "started"]
        /\ UNCHANGED <<live, avail, rows, jobs>>
    BY <1>3, <1>7 DEF CloseRequest, ServingOK, Serves, catalog
  <2>2. /\ \A q \in Requests : /\ requests'[q].rec = requests[q].rec
                              /\ requests'[q].files = requests[q].files
        /\ \A q \in Requests : q # l.req => requests'[q] = requests[q]
        /\ requests'[l.req].status \in {"submitted", "started"}
    BY <1>1, <2>1
  <2>3. /\ local'[p].pc = "submitted" /\ local'[p].todo = l.todo /\ local'[p].left = l.left
        /\ local'[p].act = l.act /\ local'[p].req = None
    BY <1>1, <1>7 DEF CloseRequest, Becomes, LocalType
  <2>4. Ongoing("stage")' = Ongoing("stage")
    BY <2>1 DEF Ongoing
  <2>5. WorkerOK(local[p])'
    <3>1. WithStatus("submitted") \ {l.req} \subseteq WithStatus("submitted")' \ {None}
      BY <2>2, NoneAssumption DEF WithStatus
    <3>2. CountingOK(local[p])'
      BY <1>3, <2>1, <2>3, <2>4, <3>1 DEF CountingOK, Counts, Serves
    <3>3. (ServingOK(local[p]) /\ SubmittingOK(local[p]) /\ CompletingOK(local[p])
           /\ ArchivingOK(local[p]))'
      BY <2>3 DEF ServingOK, SubmittingOK, CompletingOK, ArchivingOK, Archives, Serves
    <3> QED BY <3>2, <3>3 DEF WorkerOK
  <2>6. WorkersOK'
    BY <1>1, <1>2, <1>7, <2>1, <2>5, WorkerStep DEF CloseRequest, JobsKept
  <2>7. (RowsOK /\ StagedOnce /\ RequestedWhileStaging)'
    <3>1. \A q \in Requests : requests[q].status = "none" => requests'[q].status = "none"
      BY <2>1, <2>2
    <3>2. \A q \in Requests : requests'[q].status = "submitted" => requests[q].status = "submitted"
      BY <2>1, <2>2
    <3>3. \A q \in Requests : requests'[q].status # "none" => requests[q].status # "none"
      BY <2>1, <2>2
    <3> QED BY <1>1, <2>1, <2>2, <3>2, <3>3
            DEF ServiceInv, RowsOK, StagedOnce, RequestedWhileStaging, FilesOf
  <2>8. ThresholdRespected'
    BY <1>1, <2>4 DEF ServiceInv, ThresholdRespected
  <2>9. RequestsStep
    BY <2>1, <2>2 DEF RequestsStep, Completes
  <2> QED BY <1>1, <2>6, <2>7, <2>8, <2>9 DEF ServiceInv
<1>8. CASE CheckRunning(p)
  <2> DEFINE m == [Idle EXCEPT !.pc = "running", !.todo = WithStatus("started")]
  <2>1. m.pc = "running" BY DEF Idle
  <2>2. Becomes(p, m) /\ LocalOnly BY <1>8 DEF CheckRunning
  <2> HIDE DEF m
  <2>3. WorkerOK(m)
    BY <2>1 DEF WorkerOK, ServingOK, CountingOK, SubmittingOK, CompletingOK, ArchivingOK, Archives, Counts, Serves
  <2> QED BY <1>1, <1>2, <1>4, <2>2, <2>3, WorkerReads DEF LocalOnly
<1>9. ASSUME NEW q \in Requests, CheckRequest(p, q) PROVE ServiceInv' /\ RequestsStep
  <2> DEFINE r == requests[q].rec
             m == [l EXCEPT !.todo = @ \ {q}, !.req = q,
                            !.pc = IF avail[r] = "online" THEN "complete"
                                   ELSE "save_availability",
                            !.avl[r] = IF avail[r] = "online" THEN @
                                       ELSE Availability(r, json)]
  <2>1. /\ r \in live /\ l.pc = "running" /\ q \in l.todo /\ Becomes(p, m)
        /\ UNCHANGED <<catalog, requests, rows, jobs>>
    BY <1>9 DEF CheckRequest
  <2>2. /\ m.pc = IF avail[r] = "online" THEN "complete" ELSE "save_availability"
        /\ m.req = q
    BY <1>1 DEF LocalType
  <2>3. avail[r] = "online" => \A f \in requests[q].files : ~IsScheduled(f, "stage")
    <3>1. requests[q].files \subseteq FilesOf(r)
      BY <1>1, <2>1 DEF InHand, ServiceInv, RowsOK
    <3>2. avail[r] = "online" => ~Staging(r)
      BY <1>1, <2>1 DEF ServiceInv, RequestedWhileStaging, Staging
    <3> QED BY <3>1, <3>2 DEF IsScheduled, Ongoing, FilesOf, Staging
  <2> HIDE DEF m
  <2>4. WorkerOK(m)
    BY <2>2, <2>3 DEF WorkerOK, ServingOK, CountingOK, SubmittingOK, CompletingOK,
                      ArchivingOK, Archives, Counts, Serves
  <2> QED BY <1>1, <1>2, <1>4, <2>1, <2>4, WorkerReads
<1>10. ASSUME NEW q \in Requests, CheckRequestRaises(p, q) PROVE ServiceInv' /\ RequestsStep
  <2>1. WorkerOK(Idle)
    BY RestOK DEF Idle, Rests
  <2> QED BY <1>1, <1>2, <1>4, <1>10, <2>1, WorkerReads DEF CheckRequestRaises, LocalOnly
<1>11. CASE SaveAvailability(p)
  <2> DEFINE q == l.req
             r == requests[q].rec
             now == l.avl[r]
             saved == CanSave(p, {r})
             m == [l EXCEPT !.pc = IF now = "requested" THEN "running" ELSE "complete",
                            !.req = IF now = "requested" THEN None ELSE @,
                            !.avl = Idle.avl]
  <2>1. /\ q \in Requests /\ requests[q].status # "none" /\ r \in Records
        /\ UNCHANGED <<live, requests, rows, jobs>>
    BY <1>1, <1>11, NoneAssumption DEF SaveAvailability, InHand, TypeOK, RequestTypeOK
  <2>2. /\ saved => avail' = [avail EXCEPT ![r] = now] /\ Becomes(p, m)
        /\ ~saved => UNCHANGED avail /\ Becomes(p, Idle)
    BY <1>11 DEF SaveAvailability
  <2>3. saved /\ Staging(r) => now = "requested"
    BY <1>11, <2>1 DEF ServedInv, SaversOK, SaverOK, Saves, CanSave, SaveAvailability
  <2>4. /\ Ongoing("stage")' = Ongoing("stage")
        /\ \A f : IsScheduled(f, "stage")' = IsScheduled(f, "stage")
    BY <2>1 DEF Ongoing, IsScheduled
  <2>5. WorkerOK(local[p])'
    <3>1. CASE ~saved
      <4>1. local'[p] = Idle
        BY <1>1, <2>2, <3>1 DEF Becomes
      <4> QED BY <4>1 DEF Idle, WorkerOK, ServingOK, CountingOK, SubmittingOK, CompletingOK,
                          ArchivingOK, Archives, Counts, Serves
    <3>2. CASE saved
      <4>1. /\ local'[p].pc = IF now = "requested" THEN "running" ELSE "complete"
            /\ local'[p].req = IF now = "requested" THEN None ELSE q
        <5>1. local'[p] = m
          BY <1>1, <2>2, <3>2 DEF Becomes
        <5> HIDE DEF now
        <5> QED BY <1>1, <5>1 DEF LocalType
      <4>2. now # "requested" => \A f \in requests[q].files : ~IsScheduled(f, "stage")
        <5>1. requests[q].files \subseteq FilesOf(r)
          BY <1>1, <2>1 DEF ServiceInv, RowsOK
        <5> QED BY <2>3, <3>2, <5>1 DEF IsScheduled, Ongoing, FilesOf, Staging
      <4>3. CompletingOK(local[p])'
        BY <2>1, <2>4, <4>1, <4>2 DEF CompletingOK
      <4> QED BY <4>1, <4>3 DEF WorkerOK, ServingOK, CountingOK, SubmittingOK, ArchivingOK,
                                Archives, Counts, Serves
    <3> QED BY <3>1, <3>2
  <2>6. WorkersOK'
    <3>1. \E x : Becomes(p, x) BY <2>2
    <3> QED BY <1>1, <1>2, <2>1, <2>5, <3>1, WorkerStep DEF JobsKept
  <2>7. RequestedWhileStaging'
    <3>1. avail' = avail \/ (saved /\ avail' = [avail EXCEPT ![r] = now])
      BY <2>2
    <3>2. ASSUME NEW x \in live, Staging(x) PROVE avail'[x] = "requested"
      <4>1. avail[x] = "requested" /\ avail \in [Records -> RecordAvailability] /\ x \in Records
        BY <1>1, <3>2 DEF ServiceInv, RequestedWhileStaging, Staging, TypeOK, DbTypeOK
      <4> QED BY <2>3, <3>1, <3>2, <4>1
    <3> QED BY <2>1, <3>2 DEF RequestedWhileStaging, Staging
  <2>8. (RowsOK /\ StagedOnce)'
    BY <1>1, <2>1 DEF ServiceInv, RowsOK, StagedOnce, FilesOf
  <2>9. ThresholdRespected'
    BY <1>1, <2>4 DEF ServiceInv, ThresholdRespected
  <2> QED BY <1>1, <1>4, <2>1, <2>6, <2>7, <2>8, <2>9 DEF ServiceInv
<1>12. CASE MarkAsCompleted(p)
  <2>1. /\ l.pc = "complete" /\ l.req \in Requests /\ requests[l.req].status # "none"
        /\ requests' = [requests EXCEPT ![l.req].status = "completed"]
        /\ UNCHANGED <<live, avail, rows, jobs>>
    BY <1>1, <1>12, NoneAssumption DEF MarkAsCompleted, At, InHand, catalog
  <2>2. /\ \A q \in Requests : /\ requests'[q].rec = requests[q].rec
                              /\ requests'[q].files = requests[q].files
        /\ \A q \in Requests : q # l.req => requests'[q] = requests[q]
        /\ requests'[l.req].status = "completed"
    BY <1>1, <2>1
  <2>3. local'[p].pc = "running"
    BY <1>1, <1>12 DEF MarkAsCompleted, Becomes, LocalType
  <2>4. WorkerOK(local[p])'
    BY <2>3 DEF WorkerOK, ServingOK, CountingOK, SubmittingOK, CompletingOK, ArchivingOK, Archives, Counts, Serves
  <2>5. WorkersOK'
    BY <1>1, <1>2, <1>12, <2>1, <2>4, WorkerStep DEF MarkAsCompleted, JobsKept
  <2>6. (RowsOK /\ StagedOnce /\ RequestedWhileStaging)'
    <3>1. \A q \in Requests : /\ requests'[q].status = "submitted"
                                    => requests[q].status = "submitted"
                              /\ requests'[q].status # "none" => requests[q].status # "none"
      BY <2>1, <2>2
    <3> QED BY <1>1, <2>1, <2>2, <3>1
            DEF ServiceInv, RowsOK, StagedOnce, RequestedWhileStaging, FilesOf
  <2>7. ThresholdRespected'
    <3>1. Ongoing("stage")' = Ongoing("stage") BY <2>1 DEF Ongoing
    <3> QED BY <1>1, <3>1 DEF ServiceInv, ThresholdRespected
  <2>8. RequestsStep
    BY <1>3, <2>1, <2>2 DEF RequestsStep, Completes, CompletingOK
  <2> QED BY <1>1, <2>5, <2>6, <2>7, <2>8 DEF ServiceInv
<1>13. CASE EndRunning(p)
  <2> DEFINE m == [Idle EXCEPT !.pc = "poll", !.polls = {j \in Jobs : rows[j] = "ongoing"}]
  <2>1. m.pc = "poll" BY DEF Idle
  <2>2. Becomes(p, m) /\ LocalOnly BY <1>2, <1>13 DEF EndRunning
  <2> HIDE DEF m
  <2>3. WorkerOK(m) BY <2>1, RestOK DEF Rests
  <2> QED BY <1>1, <1>2, <1>4, <2>2, <2>3, WorkerReads DEF LocalOnly
<1> QED BY <1>5, <1>6, <1>7, <1>8, <1>9, <1>10, <1>11, <1>12, <1>13 DEF RequestStep

\* Only the service completes requests.
LEMMA WorldCompletesNothing ==
    ASSUME TypeOK, \/ UNCHANGED requests
                   \/ \E r \in Records : \E sel \in Selections(r), q \in Requests : Stage(r, sel, q)
    PROVE  RequestsStep
<1>1. CASE UNCHANGED requests
  BY <1>1 DEF RequestsStep, Completes
<1>2. ASSUME NEW r \in Records, NEW sel \in Selections(r), NEW q \in Requests, Stage(r, sel, q)
      PROVE  RequestsStep
  <2>1. /\ requests[q].status = "none" /\ requests'[q].status = "submitted"
        /\ \A x \in Requests : x # q => requests'[x] = requests[x]
    BY <1>2 DEF Stage, TypeOK, RequestTypeOK
  <2> QED BY <2>1 DEF RequestsStep, Completes
<1> QED BY <1>1, <1>2

\* The initial states, and every step.
LEMMA InitServes == ASSUME Init PROVE ServedInv
<1>1. TypeOK
  BY InitTyped
<1>2. /\ \A p \in Procs : local[p] = Idle
      /\ \A j \in Jobs : rows[j] = "none"
      /\ \A q \in Requests : requests[q].status = "none"
  BY DEF Init
<1>3. WorkersOK
  <2>1. Rests(Idle) BY DEF Idle, Rests
  <2> QED BY <1>2, <2>1, RestOK DEF WorkersOK
<1>4. RowsOK /\ RequestedWhileStaging /\ StagedOnce
  BY <1>2 DEF RowsOK, RequestedWhileStaging, StagedOnce
<1>5. ThresholdRespected
  <2>1. Ongoing("stage") = {} BY <1>2 DEF Ongoing
  <2> QED BY <2>1, FS_EmptySet, ThresholdAssumption DEF ThresholdRespected
<1>6. SaversOK
  BY DEF Init, SaversOK, SaverOK
<1> QED BY <1>1, <1>3, <1>4, <1>5, <1>6 DEF ServiceInv, ServedInv

LEMMA NextServes ==
    ASSUME ServedInv, OneMover, [Next]_vars
    PROVE  ServiceInv' /\ RequestsStep
<1>0. ServiceInv /\ TypeOK BY DEF ServedInv, ServiceInv
<1>1. ASSUME NEW p \in Procs, Service(p) PROVE ServiceInv' /\ RequestsStep
  BY <1>0, <1>1, MoveServes, RequestServes, TransferServes, WorldCompletesNothing DEF Service
<1>2. ASSUME NEW p \in Operators, ClearStep(p) \/ Command(p)
      PROVE  ServiceInv' /\ RequestsStep
  BY <1>0, <1>2, OperatorServes, WorldCompletesNothing
<1>3. ASSUME \/ UNCHANGED vars
             \/ \E p \in Procs : Crash(p)
             \/ \E r \in Records : DeleteRecord(r)
             \/ \E j \in Jobs : JobEnds(j)
      PROVE  UNCHANGED requests
  BY <1>3 DEF vars, Crash, DeleteRecord, JobEnds, JobFinishes, JobFails, JobCanceled
<1> QED BY <1>0, <1>1, <1>2, <1>3, WorldServes, WorldCompletesNothing DEF Next

\* What starts to bring files of a record back changes its row, or joins what
\* already does so.
LEMMA StagingStarts ==
    ASSUME ServiceInv, [Next]_vars, NEW r \in Records, Staging(r)'
    PROVE  Staging(r) \/ fresh'[r] = {}
<1> USE DEF Staging
<1>1. /\ rows \in [Jobs -> {"none", "ongoing", "done", "failed", "lost"}]
      /\ jobs \in [Jobs -> [state: {"unused", "active", "finished", "failed", "canceled"},
                            file: Files \cup {None}, act: {"stage", "archive"}]]
      /\ requests \in [Requests ->
            [status: {"none", "submitted", "started", "completed"},
             rec: Records \cup {None}, files: SUBSET Files]]
      /\ \A p \in Procs : InHand(local[p]) /\ WorkerOK(local[p])
      /\ \A j \in Jobs : jobs[j].state = "unused" => rows[j] # "ongoing"
  BY DEF ServiceInv, WorkersOK, RowsOK, TypeOK, DbTypeOK, RequestTypeOK, ProcessTypeOK
<1>2. ASSUME \A q \in Requests : requests'[q].status = "submitted" =>
                /\ requests[q].status = "submitted" /\ requests'[q].rec = requests[q].rec,
             \A j \in Jobs : rows'[j] = "ongoing" =>
                /\ rows[j] = "ongoing" /\ jobs'[j].act = jobs[j].act
                /\ jobs'[j].file = jobs[j].file
      PROVE  Staging(r)
  BY <1>2
<1>3. ASSUME NEW p \in Procs, CreateTransfer(p) PROVE Staging(r)
  <2> DEFINE l == local[p]
  <2>1. l.pc = "create_transfer" /\ l.job \in Jobs
    BY <1>1, <1>3 DEF CreateTransfer, InHand
  <2>2. rows' = [rows EXCEPT ![l.job] = "ongoing"] /\ UNCHANGED <<jobs, requests>>
    BY <1>3 DEF CreateTransfer
  <2>3. CASE l.act = "archive"
    BY <1>1, <2>1, <2>2, <2>3 DEF WorkerOK, ArchivingOK, Archives
  <2>4. CASE l.act # "archive"
    <3>1. Serves(l)
      BY <2>1, <2>4 DEF Serves
    <3>2. /\ l.req \in Requests /\ requests[l.req].status = "submitted"
          /\ requests[l.req].rec = RecordOf[jobs[l.job].file]
      BY <1>1, <2>1, <3>1 DEF WorkerOK, ServingOK, SubmittingOK
    <3> QED BY <1>1, <2>1, <2>2, <3>2
  <2> QED BY <2>3, <2>4
<1>4. ASSUME NEW x \in Records, NEW sel, NEW q \in Requests, Stage(x, sel, q)
      PROVE  Staging(r) \/ fresh'[r] = {}
  <2>1. /\ requests'[q].rec = x /\ \A y \in Requests : y # q => requests'[y] = requests[y]
        /\ UNCHANGED <<rows, jobs>>
    BY <1>1, <1>4 DEF Stage
  <2>2. fresh'[x] = {}
    BY <1>4 DEF Stage, Saved
  <2> QED BY <2>1, <2>2
<1>5. ASSUME NEW p \in Procs, NEW j \in Jobs, SubmitJob(p, j) PROVE Staging(r)
  <2>1. /\ \A i \in Jobs : i # j => jobs'[i] = jobs[i]
        /\ UNCHANGED <<rows, requests>> /\ rows[j] # "ongoing"
    BY <1>1, <1>5 DEF SubmitJob
  <2> QED BY <1>2, <2>1
<1>6. ASSUME NEW p \in Procs, CloseRequest(p) \/ MarkAsCompleted(p) PROVE Staging(r)
  <2> DEFINE l == local[p]
  <2>1. l.req \in Requests /\ UNCHANGED <<rows, jobs>>
    BY <1>1, <1>6 DEF CloseRequest, MarkAsCompleted, At, InHand
  <2>2. \E s : requests' = [requests EXCEPT ![l.req].status = s] /\ (s = "submitted" => requests[l.req].status = s)
    BY <1>6 DEF CloseRequest, MarkAsCompleted
  <2> QED BY <1>1, <1>2, <2>1, <2>2
<1>7. ASSUME NEW p \in Procs, MoveStep(p), ~CreateTransfer(p) PROVE Staging(r)
  <2>1. CASE \E j \in Jobs : SubmitJob(p, j) BY <1>5, <2>1
  <2>2. CASE UNCHANGED <<rows, jobs, requests>> BY <1>2, <2>2
  <2> QED BY <1>7, <2>1, <2>2 DEF MoveStep, SkipFile, RegisterCopy, NeedTransfer, SubmitFails,
                                  CloseRecord, SaveRecords, LocalOnly
<1>8. ASSUME NEW p \in Procs, RequestStep(p) PROVE Staging(r)
  <2>1. CASE UNCHANGED <<rows, jobs, requests>> BY <1>2, <2>1
  <2> QED BY <1>6, <1>8, <2>1 DEF RequestStep, CheckSubmitted, TakeRequest, CheckRunning,
             CheckRequest, CheckRequestRaises, SaveAvailability, EndRunning, LocalOnly
<1>9. ASSUME NEW p \in Procs, TransferStep(p) PROVE Staging(r)
  <2>1. /\ UNCHANGED <<jobs, requests>>
        /\ \A j \in Jobs : rows'[j] = "ongoing" => rows[j] = "ongoing"
    BY <1>1, <1>9 DEF TransferStep, ProcessTransfers, EndTransfers, TransferDone, TransferFailed,
           TransferPending, LocalOnly
  <2> QED BY <1>2, <2>1
<1>10. ASSUME NEW j \in Jobs, JobEnds(j) PROVE Staging(r)
  <2>1. UNCHANGED <<rows, requests>> /\ \E s : jobs' = [jobs EXCEPT ![j].state = s]
    BY <1>10 DEF JobEnds, JobFinishes, JobFails, JobCanceled
  <2> QED BY <1>1, <1>2, <2>1
<1>11. CASE UNCHANGED <<rows, jobs, requests>>
  BY <1>2, <1>11
<1> QED BY <1>3, <1>4, <1>7, <1>8, <1>9, <1>10, <1>11
        DEF Next, Service, vars, Crash, DeleteRecord, ClearStep, ClearSkips, ClearFile, CloseClear,
            Command, CommandMove, CommandClearHot, LocalOnly

\* A process keeps what it has computed, or has nothing to save, or has computed
\* it in this very step.
LEMMA SaversStep ==
    ASSUME ServiceInv, [Next]_vars, NEW x \in Procs
    PROVE  \/ local'[x] = local[x] /\ \A r \in Records : x \in fresh'[r] => x \in fresh[r]
           \/ local'[x].pc \notin {"save", "save_availability"}
           \/ SaverOK(x)'
<1> DEFINE Kept(p) == \A y \in Procs, r \in Records : y # p /\ y \in fresh'[r] => y \in fresh[r]
           Busy(m) == m.pc \in {"save", "save_availability"}
           Goal == \/ local'[x] = local[x] /\ \A r \in Records : x \in fresh'[r] => x \in fresh[r]
                   \/ ~Busy(local'[x])
                   \/ SaverOK(x)'
<1> SUFFICES Goal
  OBVIOUS
<1>1. /\ local \in [Procs -> LocalType] /\ \A p \in Procs : local[p] \in LocalType /\ InHand(local[p])
      /\ fresh \in [Records -> SUBSET Procs] /\ Operators \subseteq Procs
  BY DEF ServiceInv, TypeOK, DbTypeOK, ProcessTypeOK, Procs
<1>2. ASSUME NEW p \in Procs, NEW recs,
             Reads(p, recs) \/ Forgets(p) \/ Saved(recs) \/ UNCHANGED fresh
      PROVE  Kept(p)
  BY <1>1, <1>2 DEF Reads, Forgets, Saved
<1>3. ASSUME NEW p \in Procs, Kept(p), NEW m, Becomes(p, m), ~Busy(m) \/ SaverOK(p)'
      PROVE  Goal
  <2>1. local'[p] = m /\ \A y \in Procs : y # p => local'[y] = local[y]
    BY <1>1, <1>3 DEF Becomes
  <2> QED BY <1>3, <2>1
<1>4. ASSUME UNCHANGED <<local, fresh>> PROVE Goal
  BY <1>4
<1>5. ASSUME UNCHANGED local, NEW recs, Saved(recs) PROVE Goal
  BY <1>1, <1>5 DEF Saved
<1>6. ~Busy(Idle) /\ \A p \in Procs : ~Busy(AfterSave(local[p]))
  BY <1>1 DEF Idle, AfterSave, LocalType
<1>7. ASSUME NEW p \in Procs, Becomes(p, Dump(local[p])), UNCHANGED <<requests, rows, jobs>>
      PROVE  SaverOK(p)'
  <2> DEFINE l == local[p]
  <2>1. local'[p].pc = "save" /\ local'[p].queue = l.queue
    BY <1>1, <1>7 DEF Becomes, Dump, LocalType
  <2>2. local'[p].avl = [r \in Records |-> IF r \in l.queue
                                           THEN Availability(r, Committed(l)) ELSE "online"]
    BY <1>1, <1>7 DEF Becomes, Dump, LocalType
  <2>3. ASSUME NEW r \in Records, r \in l.queue, Staging(r)' PROVE local'[p].avl[r] = "requested"
    <3>1. Staging(r) BY <1>7, <2>3 DEF Staging
    <3>2. Availability(r, Committed(l)) = "requested" BY <3>1, RequestedComputed
    <3> QED BY <2>2, <2>3, <3>2
  <2> QED BY <2>1, <2>3 DEF SaverOK, Saves
<1>8. ASSUME NEW p \in Procs, ReindexEntries(p), UNCHANGED <<requests, rows, jobs>> PROVE Goal
  <2>1. Kept(p)
    BY <1>2, <1>8 DEF ReindexEntries
  <2> QED BY <1>3, <1>6, <1>7, <1>8, <2>1 DEF ReindexEntries
<1>9. ASSUME NEW p \in Procs, MoveStep(p) PROVE Goal
  <2> DEFINE l == local[p]
  <2>1. ASSUME NEW f \in Files, SkipFile(p, f) PROVE Goal
    <3>1. ~Busy(Drop(l, f)) BY <1>1, <2>1 DEF SkipFile, Drop, LocalType
    <3>2. Kept(p) BY <2>1, <1>2 DEF SkipFile, LocalOnly
    <3> QED BY <1>3, <2>1, <3>1, <3>2 DEF SkipFile
  <2>2. ASSUME NEW f \in Files, RegisterCopy(p, f) PROVE Goal
    <3> DEFINE found == RecordOf[f] \in live
               m == [Drop(l, f) EXCEPT !.pending = IF found THEN @ \cup {f} ELSE @,
                                       !.queue = IF found THEN @ \cup {l.rec} ELSE @]
    <3>1. ~Busy(m) BY <1>1, <2>2 DEF RegisterCopy, Drop, LocalType
    <3>2. Kept(p) BY <2>2, <1>2 DEF RegisterCopy, LocalOnly
    <3>3. Becomes(p, m) BY <2>2 DEF RegisterCopy
    <3> HIDE DEF m
    <3> QED BY <1>3, <3>1, <3>2, <3>3
  <2>3. ASSUME NEW f \in Files, NeedTransfer(p, f) PROVE Goal
    <3>1. ~Busy([Drop(l, f) EXCEPT !.pc = "submit_job", !.file = f])
      BY <1>1 DEF Drop, LocalType
    <3>2. Kept(p) BY <2>3, <1>2 DEF NeedTransfer, LocalOnly
    <3> QED BY <1>3, <2>3, <3>1, <3>2 DEF NeedTransfer
  <2>4. ASSUME NEW j \in Jobs, SubmitJob(p, j) PROVE Goal
    <3>1. ~Busy([l EXCEPT !.pc = "create_transfer", !.job = j]) BY <1>1 DEF LocalType
    <3>2. Kept(p) BY <2>4, <1>2 DEF SubmitJob
    <3> QED BY <1>3, <2>4, <3>1, <3>2 DEF SubmitJob
  <2>5. ASSUME SubmitFails(p) PROVE Goal
    <3>1. ~Busy([l EXCEPT !.pc = "move", !.file = None]) BY <1>1 DEF LocalType
    <3>2. Kept(p) BY <2>5, <1>2 DEF SubmitFails, LocalOnly
    <3> QED BY <1>3, <2>5, <3>1, <3>2 DEF SubmitFails
  <2>6. ASSUME CreateTransfer(p) PROVE Goal
    <3> DEFINE full == l.left = 1
               m == [l EXCEPT !.pc = "move", !.file = None, !.job = None, !.pending = {},
                          !.left = IF l.left = 0 THEN 0 ELSE l.left - 1,
                          !.files = IF full THEN {} ELSE @,
                          !.snap = IF full THEN [f \in Files |-> {}] ELSE @]
    <3>1. ~Busy(m) BY <1>1 DEF LocalType
    <3>2. Kept(p) BY <2>6, <1>2 DEF CreateTransfer
    <3>3. Becomes(p, m) BY <2>6 DEF CreateTransfer
    <3> HIDE DEF m
    <3> QED BY <1>3, <3>1, <3>2, <3>3
  <2>7. ASSUME CloseRecord(p) PROVE Goal
    BY <1>8, <2>7 DEF CloseRecord
  <2>8. ASSUME SaveRecords(p) PROVE Goal
    <3>1. Kept(p) BY <2>8, <1>2 DEF SaveRecords
    <3> QED BY <1>3, <1>6, <2>8, <3>1 DEF SaveRecords
  <2> QED BY <1>9, <2>1, <2>2, <2>3, <2>4, <2>5, <2>6, <2>7, <2>8 DEF MoveStep
<1>10. ASSUME NEW p \in Procs, RequestStep(p) PROVE Goal
  <2> DEFINE l == local[p]
  <2>1. ASSUME NEW q \in Requests, CheckRequest(p, q) PROVE Goal
    <3> DEFINE r == requests[q].rec
               done == avail[r] = "online"
               m == [l EXCEPT !.todo = @ \ {q}, !.req = q,
                              !.pc = IF done THEN "complete" ELSE "save_availability",
                              !.avl[r] = IF done THEN @ ELSE Availability(r, json)]
    <3>1. Becomes(p, m) /\ r \in live /\ UNCHANGED <<requests, rows, jobs>>
      BY <2>1 DEF CheckRequest
    <3>2. Kept(p) BY <2>1, <1>2 DEF CheckRequest
    <3>3. /\ local'[p] = m /\ l.avl \in [Records -> RecordAvailability] /\ r \in Records
      BY <1>1, <3>1 DEF Becomes, LocalType, ServiceInv, TypeOK, DbTypeOK
    <3>4. m.req = q /\ m.pc = IF done THEN "complete" ELSE "save_availability"
      BY <1>1 DEF LocalType
    <3>5. ~done => m.avl[r] = Availability(r, json)
      <4> HIDE DEF r, done
      <4> QED BY <1>1, <3>3 DEF LocalType
    <3> HIDE DEF m, done
    <3>6. CASE done BY <1>3, <3>1, <3>2, <3>4, <3>6
    <3>7. CASE ~done
      <4>1. ASSUME NEW y \in Records, y = r, Staging(y)' PROVE m.avl[y] = "requested"
        <5>1. Staging(r) BY <3>1, <4>1 DEF Staging
        <5>2. Availability(r, json) = "requested" BY <5>1, RequestedComputed
        <5> QED BY <3>5, <3>7, <4>1, <5>2
      <4>2. \A y : Saves(local[p], y)' => y = r
        <5>1. local'[p].pc = "save_availability" /\ local'[p].req = q
          BY <3>3, <3>4, <3>7
        <5> QED BY <3>1, <5>1 DEF Saves
      <4>3. SaverOK(p)'
        <5> HIDE DEF r
        <5> QED BY <3>3, <4>1, <4>2 DEF SaverOK
      <4> QED BY <1>3, <3>1, <3>2, <4>3
    <3> QED BY <3>6, <3>7
  <2>2. ASSUME NEW q \in Requests, TakeRequest(p, q) PROVE Goal
    <3> DEFINE m == [Moving(l, requests[q].rec, requests[q].files) EXCEPT
                        !.req = q, !.todo = @ \ {q}]
    <3>1. ~Busy(m) BY <1>1 DEF Moving, LocalType
    <3>2. Kept(p) BY <2>2, <1>2 DEF TakeRequest
    <3>3. Becomes(p, m) BY <2>2 DEF TakeRequest
    <3> HIDE DEF m
    <3> QED BY <1>3, <3>1, <3>2, <3>3
  <2>3. ASSUME SaveAvailability(p) PROVE Goal
    <3> DEFINE waits == l.avl[requests[l.req].rec] = "requested"
               m == [l EXCEPT !.pc = IF waits THEN "running" ELSE "complete",
                              !.req = IF waits THEN None ELSE @, !.avl = Idle.avl]
    <3>1. ~Busy(m) BY <1>1 DEF LocalType
    <3>2. Kept(p) BY <2>3, <1>2 DEF SaveAvailability
    <3>3. Becomes(p, m) \/ Becomes(p, Idle) BY <2>3 DEF SaveAvailability
    <3> HIDE DEF m
    <3> QED BY <1>3, <1>6, <3>1, <3>2, <3>3
  <2>4. ASSUME CheckSubmitted(p) PROVE Goal
    <3>1. \A u, v : ~Busy([Idle EXCEPT !.pc = "submitted", !.left = u, !.todo = v])
      BY DEF Idle
    <3>2. Kept(p) BY <2>4, <1>2 DEF CheckSubmitted, LocalOnly
    <3> QED BY <1>3, <2>4, <3>1, <3>2 DEF CheckSubmitted
  <2>5. ASSUME CheckRunning(p) PROVE Goal
    <3>1. \A v : ~Busy([Idle EXCEPT !.pc = "running", !.todo = v])
      BY DEF Idle
    <3>2. Kept(p) BY <2>5, <1>2 DEF CheckRunning, LocalOnly
    <3> QED BY <1>3, <2>5, <3>1, <3>2 DEF CheckRunning
  <2>6. ASSUME CloseRequest(p) \/ MarkAsCompleted(p) PROVE Goal
    <3>1. /\ ~Busy([l EXCEPT !.pc = "submitted", !.req = None, !.rec = None])
          /\ ~Busy([l EXCEPT !.pc = "running", !.req = None])
      BY <1>1 DEF LocalType
    <3>2. Kept(p) BY <2>6, <1>2 DEF CloseRequest, MarkAsCompleted
    <3> QED BY <1>3, <2>6, <3>1, <3>2 DEF CloseRequest, MarkAsCompleted
  <2>7. ASSUME EndRunning(p) PROVE Goal
    <3>1. \A v : ~Busy([Idle EXCEPT !.pc = "poll", !.polls = v]) BY DEF Idle
    <3>2. Kept(p) BY <2>7, <1>2 DEF EndRunning, LocalOnly
    <3> QED BY <1>3, <1>6, <2>7, <3>1, <3>2 DEF EndRunning
  <2>8. ASSUME NEW q \in Requests, CheckRequestRaises(p, q) PROVE Goal
    <3>1. Kept(p) BY <2>8, <1>2 DEF CheckRequestRaises, LocalOnly
    <3> QED BY <1>3, <1>6, <2>8, <3>1 DEF CheckRequestRaises
  <2> QED BY <1>10, <2>1, <2>2, <2>3, <2>4, <2>5, <2>6, <2>7, <2>8 DEF RequestStep
<1>11. ASSUME NEW p \in Procs, TransferStep(p) PROVE Goal
  <2> DEFINE l == local[p]
  <2>1. ASSUME EndTransfers(p) PROVE Goal
    <3>1. Kept(p) BY <2>1, <1>2 DEF EndTransfers
    <3>2. UNCHANGED <<requests, rows, jobs>> BY <2>1 DEF EndTransfers
    <3> QED BY <1>3, <1>6, <1>7, <2>1, <3>1, <3>2 DEF EndTransfers
  <2>2. ASSUME ProcessTransfers(p) PROVE Goal
    <3>1. \A v : ~Busy([Idle EXCEPT !.pc = "poll", !.polls = v]) BY DEF Idle
    <3>2. Kept(p) BY <2>2, <1>2 DEF ProcessTransfers, LocalOnly
    <3> QED BY <1>3, <2>2, <3>1, <3>2 DEF ProcessTransfers
  <2>3. ASSUME NEW j \in Jobs, TransferDone(p, j) PROVE Goal
    <3> DEFINE found == RecordOf[jobs[j].file] \in live
               m == [l EXCEPT !.polls = @ \ {j},
                        !.queue = IF found THEN @ \cup {RecordOf[jobs[j].file]} ELSE @]
    <3>1. ~Busy(m) BY <1>1, <2>3 DEF TransferDone, Polling, At, LocalType
    <3>2. Kept(p) BY <2>3, <1>2 DEF TransferDone
    <3>3. Becomes(p, m) BY <2>3 DEF TransferDone
    <3> HIDE DEF m
    <3> QED BY <1>3, <3>1, <3>2, <3>3
  <2>4. ASSUME NEW j \in Jobs, TransferFailed(p, j) \/ TransferPending(p, j) PROVE Goal
    <3>1. ~Busy([l EXCEPT !.polls = @ \ {j}])
      BY <1>1, <2>4 DEF TransferFailed, TransferPending, Polling, At, LocalType
    <3>2. Kept(p) BY <2>4, <1>2 DEF TransferFailed, TransferPending, LocalOnly
    <3> QED BY <1>3, <2>4, <3>1, <3>2 DEF TransferFailed, TransferPending
  <2> QED BY <1>11, <2>1, <2>2, <2>3, <2>4 DEF TransferStep
<1>12. ASSUME NEW p \in Operators, ClearStep(p) \/ Command(p) PROVE Goal
  <2> DEFINE l == local[p]
  <2>0. p \in Procs BY <1>1
  <2>1. ASSUME NEW f \in Files, ClearSkips(p, f) \/ ClearFile(p, f) PROVE Goal
    <3> DEFINE m == [Drop(l, f) EXCEPT !.pending = @ \cup {f}, !.queue = @ \cup {l.rec}]
    <3>1. ~Busy(Drop(l, f)) /\ ~Busy(m)
      BY <1>1, <2>0, <2>1 DEF ClearSkips, ClearFile, Drop, LocalType
    <3>2. Kept(p) BY <2>0, <2>1, <1>2 DEF ClearSkips, ClearFile, LocalOnly
    <3>3. Becomes(p, Drop(l, f)) \/ Becomes(p, m) \/ Becomes(p, Idle)
      BY <2>1 DEF ClearSkips, ClearFile
    <3> HIDE DEF m
    <3> QED BY <1>3, <1>6, <2>0, <3>1, <3>2, <3>3
  <2>2. ASSUME CloseClear(p) PROVE Goal
    BY <1>8, <2>0, <2>2 DEF CloseClear
  <2>3. ASSUME NEW act, NEW r, NEW sel, NEW opt, NEW limit,
               CommandMove(p, act, r, sel, opt, limit)
        PROVE  Goal
    <3>1. ~Busy(Moving([Idle EXCEPT !.act = act, !.opt = opt, !.left = limit], r, sel))
      BY DEF Moving, Idle
    <3>2. Kept(p) BY <2>0, <2>3, <1>2 DEF CommandMove
    <3> QED BY <1>3, <2>0, <2>3, <3>1, <3>2 DEF CommandMove
  <2>4. ASSUME NEW r, NEW sel, NEW opt, CommandClearHot(p, r, sel, opt) PROVE Goal
    <3>1. ~Busy([Moving([Idle EXCEPT !.act = "clear_hot", !.opt = opt], r, sel)
                    EXCEPT !.pc = "clear"])
      BY DEF Moving, Idle
    <3>2. Kept(p) BY <2>0, <2>4, <1>2 DEF CommandClearHot
    <3> QED BY <1>3, <2>0, <2>4, <3>1, <3>2 DEF CommandClearHot
  <2> QED BY <1>12, <2>1, <2>2, <2>3, <2>4 DEF ClearStep, Command
<1>13. ASSUME NEW p \in Procs, Crash(p) PROVE Goal
  <2>1. Kept(p) BY <1>2, <1>13 DEF Crash
  <2> QED BY <1>3, <1>6, <1>13, <2>1 DEF Crash
<1>14. ASSUME NEW r, NEW sel, NEW q, Stage(r, sel, q) PROVE Goal
  BY <1>5, <1>14 DEF Stage
<1>15. ASSUME NEW r, DeleteRecord(r) PROVE Goal
  BY <1>5, <1>15 DEF DeleteRecord
<1>16. ASSUME NEW j, JobEnds(j) PROVE Goal
  BY <1>4, <1>16 DEF JobEnds, JobFinishes, JobFails, JobCanceled
<1>17. CASE UNCHANGED vars
  BY <1>4, <1>17 DEF vars
<1> QED BY <1>9, <1>10, <1>11, <1>12, <1>13, <1>14, <1>15, <1>16, <1>17 DEF Next, Service

\* A request that has been filed stays one for its record.
LEMMA RequestsKeepRecords ==
    ASSUME ServiceInv, [Next]_vars, NEW q \in Requests, requests[q].status # "none"
    PROVE  requests'[q].rec = requests[q].rec
<1>1. /\ requests \in [Requests ->
            [status: {"none", "submitted", "started", "completed"},
             rec: Records \cup {None}, files: SUBSET Files]]
      /\ \A p \in Procs : InHand(local[p])
  BY DEF ServiceInv, TypeOK, RequestTypeOK, ProcessTypeOK
<1>2. ASSUME NEW p \in Procs, RequestStep(p) PROVE requests'[q].rec = requests[q].rec
  <2>1. CASE CloseRequest(p) \/ MarkAsCompleted(p)
    <3>1. \E s : requests' = [requests EXCEPT ![local[p].req].status = s]
      BY <2>1 DEF CloseRequest, MarkAsCompleted
    <3> QED BY <1>1, <3>1
  <2>2. CASE UNCHANGED requests
    BY <2>2
  <2> QED BY <1>2, <2>1, <2>2 DEF RequestStep, CheckSubmitted, TakeRequest, CheckRunning,
             CheckRequest, CheckRequestRaises, SaveAvailability, EndRunning, LocalOnly
<1>3. ASSUME NEW x \in Records, NEW sel, NEW y \in Requests, Stage(x, sel, y)
      PROVE  requests'[q].rec = requests[q].rec
  BY <1>1, <1>3 DEF Stage
<1>4. ASSUME NEW p \in Procs, MoveStep(p) \/ TransferStep(p) PROVE UNCHANGED requests
  BY <1>4 DEF MoveStep, SkipFile, RegisterCopy, NeedTransfer, SubmitJob, SubmitFails,
         CreateTransfer, CloseRecord, SaveRecords, TransferStep, ProcessTransfers, EndTransfers,
         TransferDone, TransferFailed, TransferPending, LocalOnly
<1> QED BY <1>2, <1>3, <1>4
        DEF Next, Service, vars, Crash, DeleteRecord, ClearStep, ClearSkips, ClearFile, CloseClear,
            Command, CommandMove, CommandClearHot, JobEnds, JobFinishes, JobFails, JobCanceled, LocalOnly

LEMMA NextSaves ==
    ASSUME ServedInv, [Next]_vars
    PROVE  SaversOK'
<1> SUFFICES ASSUME NEW x \in Procs, NEW r \in Records, Saves(local[x], r)', Staging(r)',
                    x \in fresh'[r], x \in fresh[r], local'[x] = local[x]
             PROVE  local'[x].avl[r] = "requested"
  BY SaversStep DEF ServedInv, SaversOK, SaverOK, Saves
<1>1. Staging(r)
  BY StagingStarts DEF ServedInv
<1>2. Saves(local[x], r)
  <2>1. local[x].pc = "save_availability" =>
            /\ local[x].req \in Requests /\ requests[local[x].req].status # "none"
    BY NoneAssumption DEF ServedInv, ServiceInv, TypeOK, ProcessTypeOK, InHand
  <2> QED BY <2>1, RequestsKeepRecords DEF Saves, ServedInv
<1> QED BY <1>1, <1>2 DEF ServedInv, SaversOK, SaverOK

-----------------------------------------------------------------------------
(* One archiver: no file is being archived twice either.                    *)

\* Two operators who archive the same record look for its transfers at the same
\* time, so they would have to take turns.
OneArchiver == "archive" \in CliOps => \A a, b \in Operators : a = b

ArchivedOnce ==
    \A i, j \in Jobs :
        (i # j /\ rows[i] = "ongoing" /\ rows[j] = "ongoing"
               /\ jobs[i].act = "archive" /\ jobs[j].act = "archive")
            => jobs[i].file # jobs[j].file

\* Only the operator archives, and its file is still not scheduled.
ArchiverOK(p) ==
    Archives(local[p]) =>
        /\ p \in Operators /\ "archive" \in CliOps
        /\ local[p].pc # "move" => ~IsScheduled(local[p].file, "archive")

ArchiveInv == ServedInv /\ ArchivedOnce /\ \A p \in Procs : ArchiverOK(p)

\* No transfer to the tape starts, and none is about to.
NoneArchived ==
    /\ \A x \in Procs : \/ local'[x] = local[x] \/ ~Archives(local'[x])
                        \/ local'[x].pc = "move" /\ x \in Operators /\ "archive" \in CliOps
    /\ \A j \in Jobs : rows'[j] = "ongoing" /\ jobs'[j].act = "archive"
            => /\ rows[j] = "ongoing" /\ jobs[j].act = "archive"
               /\ jobs'[j].file = jobs[j].file

LEMMA NoneArchivedKeeps ==
    ASSUME ArchiveInv, NoneArchived
    PROVE  ArchivedOnce' /\ \A p \in Procs : ArchiverOK(p)'
<1>1. \A f : IsScheduled(f, "archive")' => IsScheduled(f, "archive")
  BY DEF NoneArchived, IsScheduled, Ongoing
<1>2. ASSUME NEW x \in Procs PROVE ArchiverOK(x)'
  BY <1>1 DEF NoneArchived, ArchiveInv, ArchiverOK, Archives
<1> QED BY <1>2 DEF NoneArchived, ArchiveInv, ArchivedOnce

\* The archiver looks whether the file is scheduled, and nobody else acts on it
\* before the transfer is committed.
LEMMA ArchiverArchives ==
    ASSUME ArchiveInv, OneArchiver, NEW p \in Procs, Archives(local[p]), MoveStep(p)
    PROVE  ArchivedOnce' /\ \A x \in Procs : ArchiverOK(x)'
<1> DEFINE l == local[p]
<1>1. /\ l \in LocalType /\ InHand(l) /\ ArchivingOK(l) /\ local \in [Procs -> LocalType]
      /\ p \in Operators /\ "archive" \in CliOps /\ l.act = "archive" /\ l.req = None
      /\ l.pc # "move" => ~IsScheduled(l.file, "archive")
      /\ rows \in [Jobs -> {"none", "ongoing", "done", "failed", "lost"}]
      /\ jobs \in [Jobs -> [state: {"unused", "active", "finished", "failed", "canceled"},
                            file: Files \cup {None}, act: {"stage", "archive"}]]
  BY DEF ArchiveInv, ServedInv, ArchiverOK, ServiceInv, WorkersOK, WorkerOK, TypeOK, ProcessTypeOK,
         DbTypeOK, Archives, ArchivingOK
<1>2. \A x \in Procs : x # p => ~Archives(local[x])
  BY <1>1 DEF ArchiveInv, ArchiverOK, OneArchiver
<1>3. ASSUME NEW m, Becomes(p, m), UNCHANGED <<rows, jobs>>,
             Archives(m) => m.pc = "move" \/ ~IsScheduled(m.file, "archive")
      PROVE  ArchivedOnce' /\ \A x \in Procs : ArchiverOK(x)'
  <2>1. local'[p] = m /\ \A x \in Procs : x # p => local'[x] = local[x]
    BY <1>1, <1>3 DEF Becomes
  <2>2. \A f : IsScheduled(f, "archive")' = IsScheduled(f, "archive")
    BY <1>3 DEF IsScheduled, Ongoing
  <2>3. ASSUME NEW x \in Procs PROVE ArchiverOK(x)'
    <3>1. CASE x = p
      BY <1>1, <1>3, <2>1, <2>2, <3>1 DEF ArchiverOK, Archives
    <3>2. CASE x # p
      BY <1>2, <2>1, <3>2 DEF ArchiverOK, Archives
    <3> QED BY <3>1, <3>2
  <2> QED BY <1>3, <2>3 DEF ArchiveInv, ArchivedOnce
<1>4. ASSUME NEW f \in Files, SkipFile(p, f) PROVE ArchivedOnce' /\ \A x \in Procs : ArchiverOK(x)'
  <2>1. Drop(l, f).pc = "move"
    BY <1>1, <1>4 DEF SkipFile, Drop, LocalType
  <2> QED BY <1>3, <1>4, <2>1 DEF SkipFile, LocalOnly
<1>5. ASSUME NEW f \in Files, RegisterCopy(p, f)
      PROVE  ArchivedOnce' /\ \A x \in Procs : ArchiverOK(x)'
  <2> DEFINE found == RecordOf[f] \in live
             m == [Drop(l, f) EXCEPT !.pending = IF found THEN @ \cup {f} ELSE @,
                                     !.queue = IF found THEN @ \cup {l.rec} ELSE @]
  <2>1. m.pc = "move"
    BY <1>1, <1>5 DEF RegisterCopy, Drop, LocalType
  <2>2. Becomes(p, m) /\ LocalOnly
    BY <1>5 DEF RegisterCopy
  <2> HIDE DEF m
  <2> QED BY <1>3, <2>1, <2>2 DEF LocalOnly
<1>6. ASSUME NEW f \in Files, NeedTransfer(p, f)
      PROVE  ArchivedOnce' /\ \A x \in Procs : ArchiverOK(x)'
  <2> DEFINE m == [Drop(l, f) EXCEPT !.pc = "submit_job", !.file = f]
  <2>1. m.file = f /\ ~IsScheduled(f, "archive")
    BY <1>1, <1>6 DEF NeedTransfer, MustMove, Drop, LocalType
  <2>2. Becomes(p, m) /\ LocalOnly
    BY <1>6 DEF NeedTransfer
  <2> HIDE DEF m
  <2> QED BY <1>3, <2>1, <2>2 DEF LocalOnly
<1>7. ASSUME SubmitFails(p) PROVE ArchivedOnce' /\ \A x \in Procs : ArchiverOK(x)'
  <2>1. [l EXCEPT !.pc = "move", !.file = None].pc = "move"
    BY <1>1 DEF LocalType
  <2> QED BY <1>3, <1>7, <2>1 DEF SubmitFails, LocalOnly
<1>8. ASSUME CloseRecord(p) PROVE ArchivedOnce' /\ \A x \in Procs : ArchiverOK(x)'
  <2>1. ~Archives(Idle) /\ ~Archives(Dump(l)) /\ AfterSave(l) = Idle
    BY <1>1 DEF Idle, Dump, AfterSave, LocalType, Archives
  <2> QED BY <1>3, <1>8, <2>1 DEF CloseRecord, ReindexEntries
<1>9. ASSUME NEW j \in Jobs, SubmitJob(p, j)
      PROVE  ArchivedOnce' /\ \A x \in Procs : ArchiverOK(x)'
  <2>1. /\ local'[p].file = l.file /\ \A x \in Procs : x # p => local'[x] = local[x]
        /\ l.pc = "submit_job"
    BY <1>1, <1>9 DEF SubmitJob, Becomes, LocalType
  <2>2. /\ rows[j] # "ongoing" /\ UNCHANGED rows /\ \A i \in Jobs : i # j => jobs'[i] = jobs[i]
    BY <1>1, <1>9 DEF SubmitJob, ArchiveInv, ServedInv, ServiceInv, RowsOK
  <2>3. \A f : IsScheduled(f, "archive")' = IsScheduled(f, "archive")
    BY <2>2 DEF IsScheduled, Ongoing
  <2>4. ASSUME NEW x \in Procs PROVE ArchiverOK(x)'
    <3>1. CASE x = p
      BY <1>1, <2>1, <2>3, <3>1 DEF ArchiverOK
    <3>2. CASE x # p
      BY <1>2, <2>1, <3>2 DEF ArchiverOK, Archives
    <3> QED BY <3>1, <3>2
  <2> QED BY <2>2, <2>4 DEF ArchiveInv, ArchivedOnce
<1>10. ASSUME CreateTransfer(p) PROVE ArchivedOnce' /\ \A x \in Procs : ArchiverOK(x)'
  <2>1. /\ local'[p].pc = "move" /\ \A x \in Procs : x # p => local'[x] = local[x]
        /\ l.pc = "create_transfer"
    BY <1>1, <1>10 DEF CreateTransfer, Becomes, LocalType
  <2>2. /\ l.job \in Jobs /\ jobs[l.job].file = l.file /\ jobs[l.job].act = "archive"
        /\ rows' = [rows EXCEPT ![l.job] = "ongoing"] /\ UNCHANGED jobs
    BY <1>1, <1>10 DEF CreateTransfer, InHand, Archives, ArchivingOK
  <2>3. \A i \in Jobs : rows[i] = "ongoing" /\ jobs[i].act = "archive" => jobs[i].file # l.file
    BY <1>1, <2>1 DEF IsScheduled, Ongoing
  <2>4. ArchivedOnce'
    BY <1>1, <2>2, <2>3 DEF ArchiveInv, ArchivedOnce
  <2>5. ASSUME NEW x \in Procs PROVE ArchiverOK(x)'
    <3>1. CASE x = p
      BY <1>1, <2>1, <3>1 DEF ArchiverOK
    <3>2. CASE x # p
      BY <1>2, <2>1, <3>2 DEF ArchiverOK, Archives
    <3> QED BY <3>1, <3>2
  <2> QED BY <2>4, <2>5
<1>11. ~SaveRecords(p)
  BY DEF SaveRecords, Archives
<1> QED BY <1>4, <1>5, <1>6, <1>7, <1>8, <1>9, <1>10, <1>11 DEF MoveStep

\* Everybody else leaves the transfers to the tape alone.
LEMMA OthersArchiveNothing ==
    ASSUME ArchiveInv, OneMover, [Next]_vars,
           \A p \in Procs : ~(Archives(local[p]) /\ MoveStep(p))
    PROVE  NoneArchived
<1>1. /\ local \in [Procs -> LocalType] /\ Operators \subseteq Procs
      /\ \A p \in Procs : local[p] \in LocalType /\ InHand(local[p]) /\ WorkerOK(local[p])
      /\ rows \in [Jobs -> {"none", "ongoing", "done", "failed", "lost"}]
      /\ jobs \in [Jobs -> [state: {"unused", "active", "finished", "failed", "canceled"},
                            file: Files \cup {None}, act: {"stage", "archive"}]]
  BY DEF ArchiveInv, ServedInv, ServiceInv, WorkersOK, TypeOK, ProcessTypeOK, DbTypeOK, Procs
<1>2. ASSUME NEW p \in Procs, NEW m, Becomes(p, m),
             ~Archives(m) \/ (m.pc = "move" /\ p \in Operators /\ "archive" \in CliOps)
      PROVE  \A x \in Procs : \/ local'[x] = local[x] \/ ~Archives(local'[x])
                              \/ local'[x].pc = "move" /\ x \in Operators /\ "archive" \in CliOps
  BY <1>1, <1>2 DEF Becomes
<1>3. ~Archives(Idle) /\ Idle.act = "stage" /\ Idle.pc = "idle"
  BY DEF Idle, Archives
<1>4. ASSUME NEW p \in Procs, MoveStep(p), ~SaveRecords(p) PROVE NoneArchived
  <2> DEFINE l == local[p]
  <2>1. /\ l.act = "stage" /\ l \in LocalType /\ InHand(l) /\ Serves(l)
        /\ l.pc = "create_transfer" => jobs[l.job].act = "stage"
    <3>1. ~Archives(l) /\ l.pc \in {"move", "submit_job", "create_transfer"}
      BY <1>4 DEF MoveStep, SkipFile, RegisterCopy, NeedTransfer, SubmitJob, SubmitFails, At,
             CreateTransfer, CloseRecord
    <3>2. Serves(l)
      BY <3>1 DEF Serves, Archives
    <3> QED BY <1>1, <3>2 DEF WorkerOK, CountingOK, SubmittingOK, Counts
  <2>2. \E m : Becomes(p, m) /\ m.act = "stage"
    <3>1. ASSUME NEW f \in Files, SkipFile(p, f) \/ NeedTransfer(p, f)
          PROVE  \E m : Becomes(p, m) /\ m.act = "stage"
      <4>1. /\ Drop(l, f).act = "stage"
            /\ [Drop(l, f) EXCEPT !.pc = "submit_job", !.file = f].act = "stage"
        BY <2>1 DEF Drop, LocalType
      <4> QED BY <3>1, <4>1 DEF SkipFile, NeedTransfer
    <3>2. ASSUME NEW f \in Files, RegisterCopy(p, f)
          PROVE  \E m : Becomes(p, m) /\ m.act = "stage"
      <4> DEFINE found == RecordOf[f] \in live
                 m == [Drop(l, f) EXCEPT !.pending = IF found THEN @ \cup {f} ELSE @,
                                         !.queue = IF found THEN @ \cup {l.rec} ELSE @]
      <4>1. m.act = "stage"
        BY <2>1 DEF Drop, LocalType
      <4>2. Becomes(p, m)
        BY <3>2 DEF RegisterCopy
      <4> HIDE DEF m
      <4> QED BY <4>1, <4>2
    <3>3. ASSUME NEW j \in Jobs, SubmitJob(p, j) PROVE \E m : Becomes(p, m) /\ m.act = "stage"
      <4>1. [l EXCEPT !.pc = "create_transfer", !.job = j].act = "stage"
        BY <2>1 DEF LocalType
      <4> QED BY <3>3, <4>1 DEF SubmitJob
    <3>4. ASSUME SubmitFails(p) PROVE \E m : Becomes(p, m) /\ m.act = "stage"
      <4>1. [l EXCEPT !.pc = "move", !.file = None].act = "stage"
        BY <2>1 DEF LocalType
      <4> QED BY <3>4, <4>1 DEF SubmitFails
    <3>5. ASSUME CreateTransfer(p) PROVE \E m : Becomes(p, m) /\ m.act = "stage"
      <4> DEFINE full == l.left = 1
                 m == [l EXCEPT !.pc = "move", !.file = None, !.job = None,
                            !.pending = {},
                            !.left = IF l.left = 0 THEN 0 ELSE l.left - 1,
                            !.files = IF full THEN {} ELSE @,
                            !.snap = IF full THEN [f \in Files |-> {}] ELSE @]
      <4>1. m.act = "stage"
        BY <2>1 DEF LocalType
      <4>2. Becomes(p, m)
        BY <3>5 DEF CreateTransfer
      <4> HIDE DEF m
      <4> QED BY <4>1, <4>2
    <3>6. ASSUME CloseRecord(p) PROVE \E m : Becomes(p, m) /\ m.act = "stage"
      <4>1. AfterSave(l).act = "stage" /\ Dump(l).act = "stage"
        BY <1>3, <2>1 DEF AfterSave, Dump, LocalType
      <4> QED BY <1>3, <3>6, <4>1 DEF CloseRecord, ReindexEntries
    <3> QED BY <1>4, <3>1, <3>2, <3>3, <3>4, <3>5, <3>6 DEF MoveStep
  <2>3. \A j \in Jobs : rows'[j] = "ongoing" /\ jobs'[j].act = "archive"
            => rows[j] = "ongoing" /\ jobs'[j] = jobs[j]
    <3>1. ASSUME NEW j \in Jobs, SubmitJob(p, j)
          PROVE  jobs'[j].act = "stage" /\ UNCHANGED rows
                 /\ \A i \in Jobs : i # j => jobs'[i] = jobs[i]
      BY <1>1, <2>1, <3>1 DEF SubmitJob
    <3>2. ASSUME CreateTransfer(p)
          PROVE  /\ UNCHANGED jobs /\ l.job \in Jobs /\ jobs[l.job].act = "stage"
                 /\ \A i \in Jobs : i # l.job => rows'[i] = rows[i]
      BY <1>1, <2>1, <3>2 DEF CreateTransfer, InHand
    <3> QED BY <1>4, <3>1, <3>2 DEF MoveStep, SkipFile, RegisterCopy, NeedTransfer, SubmitFails,
                                    CloseRecord, LocalOnly
  <2> QED BY <1>2, <2>2, <2>3 DEF NoneArchived, Archives
<1>11. ASSUME NEW p \in Procs, SaveRecords(p) PROVE NoneArchived
  <2>1. AfterSave(local[p]).pc \in {"idle", "close_request"}
    BY <1>1, <1>3 DEF AfterSave, LocalType
  <2>2. \E m : Becomes(p, m) /\ m.pc \in {"idle", "close_request"}
    BY <1>3, <1>11, <2>1 DEF SaveRecords
  <2> QED BY <1>2, <1>11, <2>2 DEF SaveRecords, NoneArchived, Archives
<1>5. ASSUME NEW p \in Procs, RequestStep(p) PROVE NoneArchived
  <2> DEFINE l == local[p]
  <2>1. UNCHANGED <<rows, jobs>>
    BY <1>5 DEF RequestStep, CheckSubmitted, TakeRequest, CloseRequest, CheckRunning, CheckRequest,
           CheckRequestRaises, SaveAvailability, MarkAsCompleted, EndRunning, LocalOnly
  <2>2. ASSUME NEW q \in Requests, TakeRequest(p, q)
        PROVE  \E m : Becomes(p, m) /\ ~Archives(m)
    <3> DEFINE n == Moving(l, requests[q].rec, requests[q].files)
               m == [n EXCEPT !.req = q, !.todo = @ \ {q}]
    <3>1. l.act = "stage" /\ l \in LocalType
      BY <1>1, <2>2 DEF TakeRequest, WorkerOK, CountingOK, Counts
    <3>2. m.act = "stage"
      BY <3>1 DEF Moving, LocalType
    <3>3. Becomes(p, m)
      BY <2>2 DEF TakeRequest
    <3> HIDE DEF m
    <3> QED BY <3>2, <3>3 DEF Archives
  <2>3. ASSUME NEW q \in Requests, CheckRequest(p, q)
        PROVE  \E m : Becomes(p, m) /\ ~Archives(m)
    <3> DEFINE r == requests[q].rec
               done == avail[r] = "online"
               m == [l EXCEPT !.todo = @ \ {q}, !.req = q,
                              !.pc = IF done THEN "complete" ELSE "save_availability",
                              !.avl[r] = IF done THEN @ ELSE Availability(r, json)]
    <3>1. Becomes(p, m)
      BY <2>3 DEF CheckRequest
    <3>2. m.pc \in {"complete", "save_availability"}
      BY <1>1 DEF LocalType
    <3> HIDE DEF m
    <3> QED BY <3>1, <3>2 DEF Archives
  <2>7. ASSUME SaveAvailability(p) PROVE \E m : Becomes(p, m) /\ ~Archives(m)
    <3> DEFINE waits == l.avl[requests[l.req].rec] = "requested"
               m == [l EXCEPT !.pc = IF waits THEN "running" ELSE "complete",
                              !.req = IF waits THEN None ELSE @, !.avl = Idle.avl]
    <3>1. Becomes(p, m) \/ Becomes(p, Idle)
      BY <2>7 DEF SaveAvailability
    <3>2. m.pc \in {"complete", "running"}
      BY <1>1 DEF LocalType
    <3> HIDE DEF m
    <3> QED BY <1>3, <3>1, <3>2 DEF Archives
  <2>4. ASSUME \/ CheckSubmitted(p) \/ CloseRequest(p) \/ CheckRunning(p)
               \/ MarkAsCompleted(p)
        PROVE  \E m : Becomes(p, m) /\ ~Archives(m)
    <3>1. /\ \A x, y : [Idle EXCEPT !.pc = "submitted", !.left = x, !.todo = y].pc = "submitted"
          /\ [l EXCEPT !.pc = "submitted", !.req = None, !.rec = None].pc = "submitted"
          /\ \A x : [Idle EXCEPT !.pc = "running", !.todo = x].pc = "running"
          /\ [l EXCEPT !.pc = "running", !.req = None].pc = "running"
      BY <1>1 DEF LocalType, Idle
    <3> QED BY <2>4, <3>1 DEF CheckSubmitted, CloseRequest, CheckRunning, MarkAsCompleted,
                              Archives
  <2>5. ASSUME EndRunning(p) PROVE \E m : Becomes(p, m) /\ ~Archives(m)
    <3>1. \A x : ~Archives([Idle EXCEPT !.pc = "poll", !.polls = x])
      BY DEF Idle, Archives
    <3> QED BY <1>3, <2>5, <3>1 DEF EndRunning
  <2>6. \E m : Becomes(p, m) /\ ~Archives(m)
    BY <1>3, <1>5, <2>2, <2>3, <2>4, <2>5, <2>7 DEF RequestStep, CheckRequestRaises
  <2> QED BY <1>2, <2>1, <2>6 DEF NoneArchived
<1>6. ASSUME NEW p \in Procs, TransferStep(p) PROVE NoneArchived
  <2> DEFINE l == local[p]
  <2>1. UNCHANGED jobs /\ \A j \in Jobs : rows'[j] = "ongoing" => rows[j] = "ongoing"
    BY <1>1, <1>6 DEF TransferStep, ProcessTransfers, EndTransfers, TransferDone, TransferFailed,
           TransferPending, LocalOnly
  <2>2. \E m : Becomes(p, m) /\ m.pc \in {"idle", "poll", "save"}
    <3>1. /\ \A x : [Idle EXCEPT !.pc = "poll", !.polls = x].pc = "poll"
          /\ \A x, y : l.pc = "poll" => /\ [l EXCEPT !.polls = x].pc = "poll"
                                         /\ [l EXCEPT !.polls = x, !.queue = y].pc = "poll"
      BY <1>1 DEF LocalType, Idle
    <3>2. CASE ProcessTransfers(p) \/ EndTransfers(p)
      <4>1. Dump(l).pc = "save" BY <1>1 DEF Dump, LocalType
      <4> QED BY <1>3, <3>1, <3>2, <4>1 DEF ProcessTransfers, EndTransfers
    <3>3. ASSUME NEW j \in Jobs, TransferDone(p, j) \/ TransferFailed(p, j) \/ TransferPending(p, j)
          PROVE  \E m : Becomes(p, m) /\ m.pc \in {"idle", "poll"}
      <4>1. l.pc = "poll"
        BY <3>3 DEF TransferDone, TransferFailed, TransferPending, Polling, At
      <4>2. \E x, y : Becomes(p, [l EXCEPT !.polls = x, !.queue = y])
                        \/ Becomes(p, [l EXCEPT !.polls = x])
        BY <3>3 DEF TransferDone, TransferFailed, TransferPending
      <4>3. PICK x, y : \/ Becomes(p, [l EXCEPT !.polls = x, !.queue = y])
                        \/ Becomes(p, [l EXCEPT !.polls = x])
        BY <4>2
      <4>4. /\ [l EXCEPT !.polls = x].pc = "poll"
            /\ [l EXCEPT !.polls = x, !.queue = y].pc = "poll"
        BY <3>1, <4>1
      <4> QED BY <4>3, <4>4, Zenon
    <3> QED BY <1>6, <3>2, <3>3 DEF TransferStep
  <2> QED BY <1>2, <2>1, <2>2 DEF NoneArchived, Archives
<1>7. ASSUME NEW p \in Operators, ClearStep(p) \/ Command(p) PROVE NoneArchived
  <2> DEFINE l == local[p]
  <2>1. UNCHANGED <<rows, jobs>> /\ p \in Procs
    BY <1>1, <1>7 DEF ClearStep, ClearSkips, ClearFile, CloseClear, Command, CommandMove,
           CommandClearHot, LocalOnly
  <2>2. ASSUME NEW f \in Files, ClearSkips(p, f) \/ ClearFile(p, f)
        PROVE  \E m : Becomes(p, m) /\ m.pc \in {"idle", "clear"}
    <3> DEFINE m == [Drop(l, f) EXCEPT !.pending = @ \cup {f}, !.queue = @ \cup {l.rec}]
    <3>1. Drop(l, f).pc = "clear" /\ m.pc = "clear"
      BY <1>1, <2>1, <2>2 DEF ClearSkips, ClearFile, Drop, LocalType
    <3>2. Becomes(p, Drop(l, f)) \/ Becomes(p, m) \/ Becomes(p, Idle)
      BY <2>2 DEF ClearSkips, ClearFile
    <3> HIDE DEF m
    <3> QED BY <1>3, <3>1, <3>2
  <2>3. ASSUME Command(p)
        PROVE  \E m : Becomes(p, m)
                    /\ (m.pc = "clear" \/ (m.pc = "move" /\ "archive" \in CliOps))
    <3>1. ASSUME NEW act \in {"stage", "archive"}, NEW r, NEW sel, NEW opt, NEW limit,
                 CommandMove(p, act, r, sel, opt, limit)
          PROVE  \E m : Becomes(p, m) /\ m.pc = "move" /\ "archive" \in CliOps
      <4>1. Moving([Idle EXCEPT !.act = act, !.opt = opt, !.left = limit], r, sel).pc = "move"
        BY DEF Moving, Idle
      <4> QED BY <3>1, <4>1 DEF CommandMove, OneMover
    <3>2. ASSUME NEW r, NEW sel, NEW opt, CommandClearHot(p, r, sel, opt)
          PROVE  \E m : Becomes(p, m) /\ m.pc = "clear"
      <4>1. [Moving([Idle EXCEPT !.act = "clear_hot", !.opt = opt], r, sel)
                EXCEPT !.pc = "clear"].pc = "clear"
        BY DEF Moving, Idle
      <4> QED BY <3>2, <4>1 DEF CommandClearHot
    <3>3. PICK r \in Records : \E sel \in Selections(r), opt \in CliOptions :
            \/ \E act \in {"stage", "archive"}, limit \in CliLimits :
                 CommandMove(p, act, r, sel, opt, limit)
            \/ CommandClearHot(p, r, sel, opt)
      BY <2>3 DEF Command
    <3> QED BY <3>1, <3>2, <3>3
  <2>5. ASSUME CloseClear(p) PROVE \E m : Becomes(p, m) /\ m.pc \in {"idle", "save"}
    <3>1. AfterSave(l) = Idle /\ Dump(l).pc = "save"
      BY <1>1, <2>1, <2>5 DEF CloseClear, At, InHand, AfterSave, Dump, LocalType
    <3> QED BY <1>3, <2>5, <3>1 DEF CloseClear, ReindexEntries
  <2>4. \E m : Becomes(p, m)
            /\ (m.pc \in {"idle", "clear", "save"} \/ (m.pc = "move" /\ "archive" \in CliOps))
    BY <1>3, <1>7, <2>2, <2>3, <2>5 DEF ClearStep
  <2> QED BY <1>2, <2>1, <2>4 DEF NoneArchived, Archives
<1>8. ASSUME NEW p \in Procs, Crash(p) PROVE NoneArchived
  BY <1>2, <1>3, <1>8 DEF Crash, NoneArchived
<1>9. ASSUME NEW j \in Jobs, JobEnds(j) PROVE NoneArchived
  <2>1. UNCHANGED <<rows, local>> /\ \E s : jobs' = [jobs EXCEPT ![j].state = s]
    BY <1>9 DEF JobEnds, JobFinishes, JobFails, JobCanceled
  <2> QED BY <1>1, <2>1 DEF NoneArchived
<1>10. UNCHANGED <<rows, jobs, local>> => NoneArchived
  BY DEF NoneArchived
<1> QED BY <1>4, <1>5, <1>6, <1>7, <1>8, <1>9, <1>10, <1>11
        DEF Next, Service, vars, Stage, DeleteRecord

LEMMA NextArchives ==
    ASSUME ArchiveInv, OneMover, OneArchiver, [Next]_vars
    PROVE  ArchiveInv'
<1>1. ServedInv'
  BY NextServes, NextSaves DEF ArchiveInv, ServedInv
<1>2. ASSUME NEW p \in Procs, Archives(local[p]), MoveStep(p) PROVE ArchiveInv'
  BY <1>1, <1>2, ArchiverArchives DEF ArchiveInv
<1>3. CASE \A p \in Procs : ~(Archives(local[p]) /\ MoveStep(p))
  BY <1>1, <1>3, OthersArchiveNothing, NoneArchivedKeeps DEF ArchiveInv
<1> QED BY <1>2, <1>3

-----------------------------------------------------------------------------
(* The theorems.                                                            *)

\* Every step of every process keeps the tables and the mover in agreement.
THEOREM ServiceSound == OneMover => (Spec => []ServedInv)
<1> SUFFICES ASSUME OneMover PROVE Spec => []ServedInv OBVIOUS
<1>1. Init => ServedInv BY InitServes
<1>2. ServedInv /\ [Next]_vars => ServedInv' BY NextServes, NextSaves DEF ServedInv
<1> QED BY <1>1, <1>2, PTL DEF Spec

\* Whatever fails, crashes or is deleted, a record says that it is requested
\* as long as a request or a transfer is staging its files.
THEOREM RequestedStays == OneMover => (Spec => []RequestedWhileStaging)
<1> SUFFICES ASSUME OneMover PROVE Spec => []RequestedWhileStaging OBVIOUS
<1>1. ServedInv => RequestedWhileStaging BY DEF ServedInv, ServiceInv
<1> QED BY <1>1, ServiceSound, PTL

\* A file that is being moved is not moved again, next to one archiver.
THEOREM NoFileMovesTwice == OneMover /\ OneArchiver => (Spec => []NoDuplicateTransfer)
<1> SUFFICES ASSUME OneMover, OneArchiver PROVE Spec => []NoDuplicateTransfer OBVIOUS
<1>1. Init => ArchiveInv
  <2>1. Init => ArchivedOnce /\ \A p \in Procs : ArchiverOK(p)
    BY DEF Init, Idle, ArchivedOnce, ArchiverOK, Archives
  <2> QED BY <2>1, InitServes DEF ArchiveInv
<1>2. ArchiveInv /\ [Next]_vars => ArchiveInv'
  BY NextArchives
<1>3. ArchiveInv => NoDuplicateTransfer
  <2>1. ArchiveInv => \A j \in Jobs : jobs[j].act \in {"stage", "archive"}
    BY DEF ArchiveInv, ServedInv, ServiceInv, TypeOK, DbTypeOK
  <2> QED BY <2>1 DEF ArchiveInv, ServedInv, ServiceInv, ArchivedOnce, StagedOnce, NoDuplicateTransfer
<1> QED BY <1>1, <1>2, <1>3, PTL DEF Spec

\* The service never stages more files at a time than the threshold allows.
THEOREM ThresholdHolds == OneMover => (Spec => []ThresholdRespected)
<1> SUFFICES ASSUME OneMover PROVE Spec => []ThresholdRespected OBVIOUS
<1>1. ServedInv => ThresholdRespected BY DEF ServedInv, ServiceInv
<1> QED BY <1>1, ServiceSound, PTL

\* A request is completed when none of its files is being staged any more.
THEOREM CompletionIsSettled == OneMover => (Spec => SettledWhenCompleted)
<1> SUFFICES ASSUME OneMover PROVE Spec => SettledWhenCompleted OBVIOUS
<1>1. ServedInv /\ [Next]_vars =>
        [\A q \in Requests : Completes(q) =>
            \A f \in requests[q].files : ~IsScheduled(f, "stage")]_vars
  BY NextServes DEF RequestsStep
<1> QED BY <1>1, ServiceSound, PTL DEF Spec, SettledWhenCompleted

=============================================================================
