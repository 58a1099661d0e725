------------------------- MODULE ColdStorageProofs -------------------------
(***************************************************************************)
(* What ColdStorage guarantees for every set of records, files, requests,  *)
(* jobs and processes, every threshold, and every combination of faults.   *)
(***************************************************************************)
EXTENDS ColdStorage, FiniteSetTheorems, TLAPS

\* A process that is doing nothing has the type of a process and needs nothing.
LEMMA IdleTyped == Idle \in LocalType /\ InHand(Idle)
BY DEF Idle, LocalType, InHand, Options, ServiceOptions, Labels, Tags, Actions,
       RecordAvailability

\* Counting jobs gives a natural number.
LEMMA JobsCounted == \A S \in SUBSET Jobs : Cardinality(S) \in Nat
BY JobsAssumption, FS_Subset, FS_CardinalityType

\* The availability of a record is one of the four values of RecordAvailability.
LEMMA AvailabilityTyped ==
    ASSUME NEW r, NEW js
    PROVE  Availability(r, js) \in RecordAvailability
BY DEF Availability, RecordAvailability

\* The tags of a file remain tags through the end of an action.
LEMMA RetagTyped ==
    ASSUME NEW t \in SUBSET Tags, NEW act \in {"stage", "archive", "clear_hot"}
    PROVE  Retag(t, act) \in SUBSET Tags
BY DEF Retag, Tags

LEMMA CommittedTyped ==
    ASSUME DbTypeOK, NEW l \in LocalType
    PROVE  Committed(l) \in [Files -> SUBSET Tags]
<1>1. \A f \in Files : Retag(tags[f], l.act) \in SUBSET Tags
  BY RetagTyped DEF DbTypeOK, LocalType, Actions
<1> QED BY <1>1 DEF Committed, DbTypeOK

\* A record that is dumped, and what follows the reindex.
LEMMA DumpTyped ==
    ASSUME DbTypeOK, NEW l \in LocalType, InHand(l),
           l.act = "clear_hot" => l.req = None
    PROVE  Dump(l) \in LocalType /\ InHand(Dump(l))
<1> DEFINE ts == Committed(l)
           snap == Flushed(l.queue, ts)
           avl == [r \in Records |-> IF r \in l.queue THEN Availability(r, ts) ELSE "online"]
<1>1. snap \in [Files -> SUBSET Tags]
  BY CommittedTyped DEF Flushed
<1>2. avl \in [Records -> RecordAvailability]
  BY AvailabilityTyped DEF RecordAvailability
<1>3. Dump(l) = [l EXCEPT !.pc = "save", !.snap = snap, !.avl = avl]
  BY DEF Dump
<1> HIDE DEF snap, avl
<1>4. Dump(l) \in LocalType
  BY <1>1, <1>2, <1>3 DEF LocalType, Labels
<1>5. /\ Dump(l).pc = "save" /\ Dump(l).act = l.act
      /\ Dump(l).req = l.req /\ Dump(l).todo = l.todo
  BY <1>3 DEF LocalType
<1> QED BY <1>4, <1>5 DEF InHand

LEMMA AfterSaveTyped ==
    ASSUME NEW l \in LocalType, InHand(l), l.act = "clear_hot" => l.req = None
    PROVE  AfterSave(l) \in LocalType /\ InHand(AfterSave(l))
<1>1. CASE l.req = None BY <1>1, IdleTyped DEF AfterSave
<1>2. CASE l.req # None
  <2> DEFINE m == AfterSave(l)
  <2>1. m = [l EXCEPT !.pc = "close_request", !.pending = {}, !.queue = {},
                      !.snap = Idle.snap, !.avl = Idle.avl]
    BY <1>2 DEF AfterSave
  <2>2. Idle.snap \in [Files -> SUBSET Tags] /\ Idle.avl \in [Records -> RecordAvailability]
    BY IdleTyped DEF LocalType
  <2>3. m \in LocalType
    BY <2>1, <2>2 DEF LocalType, Labels
  <2>4. m.pc = "close_request" /\ m.act = l.act /\ m.req = l.req /\ m.todo = l.todo
    BY <2>1 DEF LocalType
  <2>5. m.req \in Requests
    BY <1>2, <2>4 DEF LocalType
  <2> QED BY <1>2, <2>3, <2>4, <2>5 DEF InHand
<1> QED BY <1>1, <1>2

\* The sets of processes that hold the current rows.
LEMMA FreshTyped ==
    ASSUME DbTypeOK, NEW p \in Procs, NEW recs,
           Reads(p, recs) \/ Forgets(p) \/ Saved(recs) \/ UNCHANGED fresh
    PROVE  fresh' \in [Records -> SUBSET Procs]
BY DEF DbTypeOK, Reads, Forgets, Saved

\* Reading the files of a record, and dropping one of them.
LEMMA MovingTyped ==
    ASSUME DbTypeOK, NEW l \in LocalType, NEW r \in Records, NEW sel \in SUBSET Files
    PROVE  Moving(l, r, sel) \in LocalType
<1>1. [f \in Files |-> IF f \in sel THEN json[f] ELSE {}] \in [Files -> SUBSET Tags]
  BY DEF DbTypeOK
<1> QED BY <1>1 DEF Moving, LocalType, Labels

LEMMA DropTyped ==
    ASSUME NEW l \in LocalType, NEW f \in Files
    PROVE  Drop(l, f) \in LocalType
BY DEF Drop, LocalType

\* A step of one process keeps its type and the types of the others, as long
\* as no request is withdrawn.
LEMMA BecomesTyped ==
    ASSUME ProcessTypeOK, NEW p \in Procs, NEW l \in LocalType, Becomes(p, l),
           InHand(l), \A q \in Requests :
              requests[q].status # "none" => requests'[q].status # "none"
    PROVE  ProcessTypeOK'
<1>1. local' \in [Procs -> LocalType]
  BY DEF ProcessTypeOK, Becomes
<1>2. ASSUME NEW x \in Procs PROVE InHand(local[x])'
  <2>1. CASE x = p
    <3>1. local'[x] = l
      BY <2>1 DEF Becomes, ProcessTypeOK
    <3> QED BY <3>1 DEF InHand, LocalType
  <2>2. CASE x # p
    <3>1. local'[x] = local[x] /\ local[x] \in LocalType /\ InHand(local[x])
      BY <2>2 DEF Becomes, ProcessTypeOK
    <3> QED BY <3>1 DEF InHand, LocalType
  <2> QED BY <2>1, <2>2
<1> QED BY <1>1, <1>2 DEF ProcessTypeOK

\* A step that changes no more than a process and the rows it holds.
ReadsOnly ==
    /\ UNCHANGED <<catalog, requests, rows, storage, jobs>>
    /\ fresh' \in [Records -> SUBSET Procs]

LEMMA LocalStepTyped ==
    ASSUME TypeOK, NEW p \in Procs, NEW l \in LocalType, InHand(l),
           Becomes(p, l), LocalOnly \/ ReadsOnly
    PROVE  TypeOK'
<1>1. DbTypeOK' /\ RequestTypeOK'
  BY DEF TypeOK, DbTypeOK, RequestTypeOK, LocalOnly, ReadsOnly, catalog, storage
<1> QED BY <1>1, BecomesTyped DEF TypeOK, LocalOnly, ReadsOnly

\* reindex_entries, before anything is saved.
LEMMA ReindexTyped ==
    ASSUME TypeOK, NEW p \in Procs, local[p].act = "clear_hot" => local[p].req = None,
           ReindexEntries(p), UNCHANGED <<catalog, requests, rows, storage, jobs>>
    PROVE  TypeOK'
<1> DEFINE l == local[p]
<1>1. l \in LocalType /\ InHand(l) /\ DbTypeOK
  BY DEF TypeOK, ProcessTypeOK
<1>2. \/ Becomes(p, AfterSave(l)) \/ Becomes(p, Dump(l)) \/ Becomes(p, Idle)
  BY DEF ReindexEntries
<1>3. ReadsOnly
  BY <1>1, FreshTyped DEF ReindexEntries, ReadsOnly
<1> QED BY <1>1, <1>2, <1>3, AfterSaveTyped, DumpTyped, IdleTyped, LocalStepTyped

-----------------------------------------------------------------------------
(* Every step keeps the types: one lemma per component of the system.       *)

\* The manager: _move_record.
LEMMA MoveTyped ==
    ASSUME TypeOK, NEW p \in Procs, MoveStep(p)
    PROVE  TypeOK'
<1> DEFINE l == local[p]
<1> USE DEF TypeOK
<1>1. l \in LocalType /\ InHand(l)
  BY DEF ProcessTypeOK
<1>2. ASSUME NEW f \in Files, SkipFile(p, f) PROVE TypeOK'
  <2>1. Drop(l, f) \in LocalType /\ InHand(Drop(l, f))
    BY <1>1, DropTyped DEF Drop, InHand, LocalType
  <2> QED BY <1>2, <2>1, LocalStepTyped DEF SkipFile
<1>3. ASSUME NEW f \in Files, RegisterCopy(p, f) PROVE TypeOK'
  <2> DEFINE found == RecordOf[f] \in live
             m == [Drop(l, f) EXCEPT !.pending = IF found THEN @ \cup {f} ELSE @,
                                     !.queue = IF found THEN @ \cup {l.rec} ELSE @]
  <2>1. Drop(l, f) \in LocalType /\ InHand(Drop(l, f)) /\ l.rec \in Records
    BY <1>1, <1>3, DropTyped DEF Drop, InHand, LocalType, RegisterCopy
  <2>2. m \in LocalType /\ InHand(m)
    BY <2>1 DEF InHand, LocalType
  <2> QED BY <1>3, <2>2, LocalStepTyped DEF RegisterCopy
<1>4. ASSUME NEW f \in Files, NeedTransfer(p, f) PROVE TypeOK'
  <2> DEFINE m == [Drop(l, f) EXCEPT !.pc = "submit_job", !.file = f]
  <2>1. Drop(l, f) \in LocalType /\ InHand(Drop(l, f)) /\ Drop(l, f).pc = "move"
    BY <1>1, <1>4, DropTyped DEF Drop, InHand, LocalType, NeedTransfer
  <2>2. m \in LocalType /\ InHand(m)
    BY <2>1 DEF InHand, LocalType, Labels
  <2> QED BY <1>4, <2>2, LocalStepTyped DEF NeedTransfer
<1>5. ASSUME NEW j \in Jobs, SubmitJob(p, j) PROVE TypeOK'
  <2> DEFINE m == [l EXCEPT !.pc = "create_transfer", !.job = j]
  <2>1. m \in LocalType /\ InHand(m) /\ l.file \in Files /\ l.act \in {"stage", "archive"}
    BY <1>1, <1>5 DEF InHand, LocalType, Labels, SubmitJob, Actions
  <2>2. DbTypeOK' /\ RequestTypeOK'
    BY <1>5, <2>1 DEF SubmitJob, DbTypeOK, RequestTypeOK, catalog, storage
  <2> QED BY <1>5, <2>1, <2>2, BecomesTyped DEF SubmitJob
<1>6. ASSUME SubmitFails(p) PROVE TypeOK'
  <2> DEFINE m == [l EXCEPT !.pc = "move", !.file = None]
  <2>1. m \in LocalType /\ InHand(m)
    BY <1>1, <1>6 DEF InHand, LocalType, Labels, SubmitFails, At
  <2> QED BY <1>6, <2>1, LocalStepTyped DEF SubmitFails
<1>7. ASSUME CreateTransfer(p) PROVE TypeOK'
  <2> DEFINE full == l.left = 1
             m == [l EXCEPT !.pc = "move", !.file = None, !.job = None,
                            !.pending = {},
                            !.left = IF l.left = 0 THEN 0 ELSE l.left - 1,
                            !.files = IF full THEN {} ELSE @,
                            !.snap = IF full THEN [f \in Files |-> {}] ELSE @]
  <2>0. /\ (IF l.left = 0 THEN 0 ELSE l.left - 1) \in Nat
        /\ [f \in Files |-> {}] \in [Files -> SUBSET Tags]
        /\ l.pc = "create_transfer" /\ l.rec \in Records
    BY <1>1, <1>7 DEF LocalType, InHand, CreateTransfer
  <2>1. m \in LocalType /\ InHand(m)
    <3>1. m \in LocalType
      BY <1>1, <2>0 DEF LocalType, Labels
    <3>2. /\ m.pc = "move" /\ m.rec \in Records /\ m.act # "clear_hot"
          /\ m.todo = l.todo /\ m.req = l.req
      BY <1>1, <2>0 DEF LocalType, InHand
    <3> QED BY <1>1, <3>1, <3>2 DEF InHand
  <2>2. fresh' \in [Records -> SUBSET Procs]
    BY <1>7, FreshTyped DEF CreateTransfer
  <2>3. DbTypeOK' /\ RequestTypeOK'
    BY <1>1, <1>7, <2>2, CommittedTyped DEF CreateTransfer, DbTypeOK, RequestTypeOK, storage
  <2> QED BY <1>7, <2>1, <2>3, BecomesTyped DEF CreateTransfer
<1>8. ASSUME CloseRecord(p) PROVE TypeOK'
  <2>1. l.act = "clear_hot" => l.req = None
    BY <1>1, <1>8 DEF CloseRecord, At, InHand
  <2> QED BY <1>8, <2>1, ReindexTyped DEF CloseRecord
<1>9. ASSUME SaveRecords(p) PROVE TypeOK'
  <2>1. l.act = "clear_hot" => l.req = None
    BY <1>1, <1>9 DEF SaveRecords, InHand
  <2>2. \/ Becomes(p, AfterSave(l)) \/ Becomes(p, Idle)
    BY <1>9 DEF SaveRecords
  <2>3. fresh' \in [Records -> SUBSET Procs]
    BY <1>9, FreshTyped DEF SaveRecords
  <2>4. /\ tags' \in [Files -> SUBSET Tags] /\ json' \in [Files -> SUBSET Tags]
        /\ avail' \in [Records -> RecordAvailability]
    BY <1>1, <1>9, CommittedTyped DEF SaveRecords, DbTypeOK, LocalType
  <2>5. DbTypeOK' /\ RequestTypeOK' /\ UNCHANGED requests
    BY <1>9, <2>3, <2>4 DEF SaveRecords, DbTypeOK, RequestTypeOK, storage
  <2> QED BY <1>1, <2>1, <2>2, <2>5, AfterSaveTyped, IdleTyped, BecomesTyped
<1> QED BY <1>2, <1>3, <1>4, <1>5, <1>6, <1>7, <1>8, <1>9 DEF MoveStep

\* The service: check_submitted and check_running.
LEMMA RequestTyped ==
    ASSUME TypeOK, NEW p \in Procs, RequestStep(p)
    PROVE  TypeOK'
<1> DEFINE l == local[p]
<1> USE DEF TypeOK
<1>1. l \in LocalType /\ InHand(l) /\ Idle \in LocalType /\ InHand(Idle)
  BY IdleTyped DEF ProcessTypeOK
<1>2. ASSUME CheckSubmitted(p) PROVE TypeOK'
  <2> DEFINE room == Room
             todo == IF room > 0 THEN WithStatus("submitted") ELSE {}
             m == [Idle EXCEPT !.pc = "submitted", !.left = room, !.todo = todo]
  <2>1. room \in Nat
    <3>1. Cardinality(Ongoing("stage")) \in Nat BY JobsCounted DEF Ongoing
    <3> QED BY <3>1, ThresholdAssumption DEF Room
  <2>2. todo \subseteq Requests /\ \A q \in todo : requests[q].status # "none"
    BY DEF WithStatus
  <2> HIDE DEF room, todo
  <2>3. m \in LocalType
    BY <1>1, <2>1, <2>2 DEF LocalType, Labels
  <2>4. InHand(m)
    <3>1. m.pc = "submitted" /\ m.todo = todo /\ m.req = None /\ m.act = "stage"
      BY DEF Idle
    <3> QED BY <2>2, <3>1 DEF InHand
  <2> USE DEF room, todo
  <2> HIDE DEF m
  <2>5. Becomes(p, m) /\ LocalOnly
    BY <1>2 DEF CheckSubmitted, m
  <2> QED BY <2>3, <2>4, <2>5, LocalStepTyped
<1>3. ASSUME NEW q \in Requests, TakeRequest(p, q) PROVE TypeOK'
  <2> DEFINE n == Moving(l, requests[q].rec, requests[q].files)
             m == [n EXCEPT !.req = q, !.todo = @ \ {q}]
  <2>1. requests[q].rec \in Records /\ requests[q].files \in SUBSET Files
    BY <1>1, <1>3 DEF TakeRequest, InHand, RequestTypeOK
  <2>2. n \in LocalType
    BY <1>1, <2>1, MovingTyped
  <2>3. n.pc = "move" /\ n.rec \in Records /\ n.todo = l.todo /\ n.act = l.act
    BY <1>1, <2>1 DEF Moving, LocalType
  <2>4. m \in LocalType /\ m.pc = "move" /\ m.rec \in Records
        /\ m.todo \subseteq l.todo /\ m.act = l.act /\ m.req = q
    BY <2>2, <2>3 DEF LocalType
  <2>5. l.act # "clear_hot" /\ requests[q].status # "none"
    BY <1>1, <1>3 DEF TakeRequest, InHand
  <2> HIDE DEF m, n
  <2>6. InHand(m)
    BY <1>1, <2>4, <2>5 DEF InHand
  <2> USE DEF m, n
  <2>7. ReadsOnly
    BY <1>3, FreshTyped DEF TakeRequest, ReadsOnly
  <2> QED BY <1>3, <2>4, <2>6, <2>7, LocalStepTyped DEF TakeRequest
<1>4. ASSUME CloseRequest(p) PROVE TypeOK'
  <2> DEFINE m == [l EXCEPT !.pc = "submitted", !.req = None, !.rec = None]
  <2>0. l \in LocalType /\ InHand(l) /\ l.pc = "close_request"
    BY <1>1, <1>4 DEF CloseRequest
  <2>1. m \in LocalType /\ InHand(m) /\ l.req \in Requests
        /\ requests[l.req].status # "none"
    <3>1. m.pc = "submitted" /\ m.req = None /\ m.todo = l.todo /\ m.act = l.act
      BY <2>0 DEF LocalType
    <3>2. m \in LocalType
      BY <2>0 DEF LocalType, Labels
    <3>3. l.req \in Requests /\ l.req # None
      BY <2>0, NoneAssumption DEF InHand
    <3> HIDE DEF m
    <3>4. InHand(m)
      BY <2>0, <3>1 DEF InHand
    <3> QED BY <2>0, <3>2, <3>3, <3>4 DEF InHand
  <2>2. DbTypeOK'
    BY <1>4 DEF CloseRequest, DbTypeOK, catalog, storage
  <2>3. /\ RequestTypeOK'
        /\ \A q \in Requests : requests[q].status # "none" => requests'[q].status # "none"
    BY <1>4, <2>1 DEF CloseRequest, RequestTypeOK
  <2> QED BY <1>4, <2>1, <2>2, <2>3, BecomesTyped DEF CloseRequest
<1>5. ASSUME CheckRunning(p) PROVE TypeOK'
  <2> DEFINE m == [Idle EXCEPT !.pc = "running", !.todo = WithStatus("started")]
  <2>0. m.pc = "running" /\ m.todo = WithStatus("started") /\ m.req = None
    BY DEF Idle
  <2>1. m \in LocalType /\ InHand(m)
    <3>1. m \in LocalType
      BY <1>1 DEF LocalType, Labels, WithStatus
    <3> HIDE DEF m
    <3> QED BY <2>0, <3>1 DEF InHand, WithStatus
  <2> QED BY <1>5, <2>1, LocalStepTyped DEF CheckRunning
<1>6. ASSUME NEW q \in Requests, CheckRequest(p, q) PROVE TypeOK'
  <2> DEFINE r == requests[q].rec
             online == avail[r] = "online"
             now == IF online THEN l.avl[r] ELSE Availability(r, json)
             avl == [l.avl EXCEPT ![r] = now]
             m == [l EXCEPT !.todo = @ \ {q}, !.req = q,
                            !.pc = IF online THEN "complete" ELSE "save_availability",
                            !.avl = avl]
  <2>0. r \in Records /\ l.pc = "running" /\ q \in l.todo
    BY <1>1, <1>6 DEF CheckRequest, InHand, RequestTypeOK
  <2>1. now \in RecordAvailability
    BY <1>1, <2>0, AvailabilityTyped DEF LocalType
  <2>2. m \in LocalType /\ InHand(m)
    <3> HIDE DEF now
    <3>1. avl \in [Records -> RecordAvailability]
      BY <1>1, <2>0, <2>1 DEF LocalType
    <3> HIDE DEF avl
    <3>2. m \in LocalType
      BY <1>1, <2>0, <3>1 DEF LocalType, Labels
    <3>3. /\ m.pc = "complete" \/ m.pc = "save_availability"
          /\ m.req = q /\ m.todo \subseteq l.todo
      BY <1>1 DEF LocalType
    <3> HIDE DEF m
    <3> QED BY <1>1, <2>0, <3>2, <3>3 DEF InHand
  <2>4. Becomes(p, m) BY <1>6 DEF CheckRequest
  <2>5. ReadsOnly
    BY <1>6, FreshTyped DEF CheckRequest, ReadsOnly
  <2> QED BY <2>2, <2>4, <2>5, LocalStepTyped
<1>7. ASSUME NEW q \in Requests, CheckRequestRaises(p, q) PROVE TypeOK'
  BY <1>1, <1>7, LocalStepTyped DEF CheckRequestRaises
<1>8. ASSUME SaveAvailability(p) PROVE TypeOK'
  <2> DEFINE r == requests[l.req].rec
             waits == l.avl[r] = "requested"
             m == [l EXCEPT !.pc = IF waits THEN "running" ELSE "complete",
                            !.req = IF waits THEN None ELSE @,
                            !.avl = Idle.avl]
  <2>1. l.req \in Requests /\ r \in Records /\ l.avl[r] \in RecordAvailability
    BY <1>1, <1>8, NoneAssumption DEF SaveAvailability, InHand, LocalType, RequestTypeOK
  <2>2. m \in LocalType /\ InHand(m)
    <3>1. Idle.avl \in [Records -> RecordAvailability]
      BY <1>1 DEF LocalType
    <3>2. m \in LocalType
      BY <1>1, <3>1 DEF LocalType, Labels
    <3>3. /\ \/ m.pc = "running" /\ m.req = None
             \/ m.pc = "complete" /\ m.req = l.req
          /\ m.todo = l.todo
      <4>1. CASE waits BY <1>1, <4>1 DEF LocalType
      <4>2. CASE ~waits BY <1>1, <4>2 DEF LocalType
      <4> QED BY <4>1, <4>2
    <3> HIDE DEF m
    <3> QED BY <1>1, <2>1, <3>2, <3>3 DEF InHand
  <2>3. Becomes(p, m) \/ Becomes(p, Idle)
    BY <1>8 DEF SaveAvailability
  <2>4. fresh' \in [Records -> SUBSET Procs]
    BY <1>8, FreshTyped DEF SaveAvailability
  <2>5. avail' \in [Records -> RecordAvailability]
    BY <1>8, <2>1 DEF SaveAvailability, DbTypeOK
  <2>6. DbTypeOK' /\ RequestTypeOK' /\ UNCHANGED requests
    BY <1>8, <2>4, <2>5 DEF SaveAvailability, DbTypeOK, RequestTypeOK, storage
  <2> QED BY <1>1, <2>2, <2>3, <2>6, BecomesTyped
<1>9. ASSUME MarkAsCompleted(p) PROVE TypeOK'
  <2> DEFINE m == [l EXCEPT !.pc = "running", !.req = None]
  <2>1. m \in LocalType /\ InHand(m) /\ l.req \in Requests
        /\ requests[l.req].status # "none"
    BY <1>1, <1>9, NoneAssumption DEF InHand, LocalType, Labels, MarkAsCompleted, At, Actions
  <2>2. DbTypeOK'
    <3>1. fresh' \in [Records -> SUBSET Procs]
      BY <1>9, FreshTyped DEF MarkAsCompleted
    <3> QED BY <1>9, <3>1 DEF MarkAsCompleted, DbTypeOK, catalog, storage
  <2>3. /\ RequestTypeOK'
        /\ \A q \in Requests : requests[q].status # "none" => requests'[q].status # "none"
    BY <1>9, <2>1 DEF MarkAsCompleted, RequestTypeOK
  <2> QED BY <1>9, <2>1, <2>2, <2>3, BecomesTyped DEF MarkAsCompleted
<1>10. ASSUME EndRunning(p) PROVE TypeOK'
  <2> DEFINE m == IF p \in Beats
                  THEN [Idle EXCEPT !.pc = "poll",
                                    !.polls = {j \in Jobs : rows[j] = "ongoing"}]
                  ELSE Idle
  <2>1. m \in LocalType /\ InHand(m)
    <3>1. CASE p \in Beats
      <4>1. m \in LocalType
        BY <1>1, <3>1 DEF LocalType, Labels
      <4>2. m.pc = "poll" /\ m.todo = {} /\ m.req = None
        BY <3>1 DEF Idle
      <4> QED BY <4>1, <4>2 DEF InHand
    <3>2. CASE p \notin Beats BY <1>1, <3>2
    <3> QED BY <3>1, <3>2
  <2> QED BY <1>10, <2>1, LocalStepTyped DEF EndRunning
<1> QED BY <1>2, <1>3, <1>4, <1>5, <1>6, <1>7, <1>8, <1>9, <1>10 DEF RequestStep

\* The service: process_transfers.
LEMMA TransferTyped ==
    ASSUME TypeOK, NEW p \in Procs, TransferStep(p)
    PROVE  TypeOK'
<1> DEFINE l == local[p]
<1> USE DEF TypeOK
<1>1. l \in LocalType /\ InHand(l) /\ Idle \in LocalType /\ InHand(Idle)
  BY IdleTyped DEF ProcessTypeOK
<1>2. ASSUME ProcessTransfers(p) PROVE TypeOK'
  <2> DEFINE m == [Idle EXCEPT !.pc = "poll",
                               !.polls = {j \in Jobs : rows[j] = "ongoing"}]
  <2>1. m \in LocalType /\ m.pc = "poll" /\ m.todo = {} /\ m.req = None
    BY <1>1 DEF LocalType, Labels, Idle
  <2>2. InHand(m)
    BY <2>1 DEF InHand
  <2> QED BY <1>2, <2>1, <2>2, LocalStepTyped DEF ProcessTransfers
<1>3. ASSUME EndTransfers(p) PROVE TypeOK'
  <2>1. l.act = "clear_hot" => l.req = None
    BY <1>1, <1>3 DEF EndTransfers, InHand
  <2>2. Becomes(p, Dump(l)) \/ Becomes(p, Idle)
    BY <1>3 DEF EndTransfers
  <2>3. ReadsOnly
    BY <1>3, FreshTyped DEF EndTransfers, ReadsOnly
  <2> QED BY <1>1, <2>1, <2>2, <2>3, DumpTyped, LocalStepTyped
<1>4. ASSUME NEW j \in Jobs, TransferDone(p, j) PROVE TypeOK'
  <2> DEFINE f == jobs[j].file
             found == RecordOf[f] \in live
             m == [l EXCEPT !.polls = @ \ {j},
                            !.queue = IF found THEN @ \cup {RecordOf[f]} ELSE @]
  <2>1. l.pc = "poll" /\ f \in Files /\ jobs[j].act \in {"stage", "archive"}
    BY <1>4 DEF TransferDone, Polling, At, DbTypeOK
  <2>2. m \in LocalType /\ m.pc = "poll" /\ m.todo = l.todo /\ m.req = l.req
    BY <1>1, <2>1, RecordOfAssumption DEF LocalType
  <2>3. InHand(m)
    BY <1>1, <2>2 DEF InHand
  <2>4. Retag(tags[f], jobs[j].act) \in SUBSET Tags
    BY <2>1, RetagTyped DEF DbTypeOK
  <2>5. DbTypeOK' /\ RequestTypeOK'
    BY <1>4, <2>1, <2>4 DEF TransferDone, DbTypeOK, RequestTypeOK, storage
  <2> QED BY <1>4, <2>2, <2>3, <2>5, BecomesTyped DEF TransferDone
<1>5. ASSUME NEW j \in Jobs, TransferFailed(p, j) PROVE TypeOK'
  <2> DEFINE m == [l EXCEPT !.polls = @ \ {j}]
  <2>1. m \in LocalType /\ InHand(m)
    BY <1>1 DEF LocalType, InHand
  <2>2. DbTypeOK' /\ RequestTypeOK'
    BY <1>5 DEF TransferFailed, DbTypeOK, RequestTypeOK, catalog, storage
  <2> QED BY <1>5, <2>1, <2>2, BecomesTyped DEF TransferFailed
<1>6. ASSUME NEW j \in Jobs, TransferPending(p, j) PROVE TypeOK'
  <2> DEFINE m == [l EXCEPT !.polls = @ \ {j}]
  <2>1. m \in LocalType /\ InHand(m)
    BY <1>1 DEF LocalType, InHand
  <2> QED BY <1>6, <2>1, LocalStepTyped DEF TransferPending
<1> QED BY <1>2, <1>3, <1>4, <1>5, <1>6 DEF TransferStep

\* The manager: clear_hot.
LEMMA ClearTyped ==
    ASSUME TypeOK, NEW p \in Procs, ClearStep(p)
    PROVE  TypeOK'
<1> DEFINE l == local[p]
<1> USE DEF TypeOK
<1>1. l \in LocalType /\ InHand(l) /\ Idle \in LocalType /\ InHand(Idle)
  BY IdleTyped DEF ProcessTypeOK
<1>2. ASSUME NEW f \in Files, ClearSkips(p, f) PROVE TypeOK'
  <2>1. Drop(l, f) \in LocalType /\ InHand(Drop(l, f))
    BY <1>1, DropTyped DEF Drop, InHand, LocalType
  <2> QED BY <1>2, <2>1, LocalStepTyped DEF ClearSkips
<1>3. ASSUME NEW f \in Files, ClearFile(p, f) PROVE TypeOK'
  <2> DEFINE m == [Drop(l, f) EXCEPT !.pending = @ \cup {f}, !.queue = @ \cup {l.rec}]
  <2>1. Drop(l, f) \in LocalType /\ InHand(Drop(l, f)) /\ l.rec \in Records
    BY <1>1, <1>3, DropTyped DEF Drop, InHand, LocalType, ClearFile
  <2>2. m \in LocalType /\ InHand(m)
    BY <2>1 DEF InHand, LocalType
  <2>3. Becomes(p, m) \/ Becomes(p, Idle)
    BY <1>3 DEF ClearFile
  <2>4. hot' \subseteq Files
    BY <1>3 DEF ClearFile, DbTypeOK
  <2>6. fresh' \in [Records -> SUBSET Procs]
    BY <1>3, FreshTyped DEF ClearFile
  <2>5. DbTypeOK' /\ RequestTypeOK' /\ UNCHANGED requests
    BY <1>3, <2>4, <2>6 DEF ClearFile, DbTypeOK, RequestTypeOK, catalog
  <2> QED BY <1>1, <2>2, <2>3, <2>5, BecomesTyped
<1>4. ASSUME CloseClear(p) PROVE TypeOK'
  <2>1. l.req = None
    BY <1>1, <1>4 DEF CloseClear, At, InHand
  <2> QED BY <1>4, <2>1, ReindexTyped DEF CloseClear
<1> QED BY <1>2, <1>3, <1>4 DEF ClearStep

\* The command line starts an operation.
LEMMA CommandTyped ==
    ASSUME TypeOK, NEW p \in Procs, Command(p)
    PROVE  TypeOK'
<1> USE DEF TypeOK
<1>1. Idle \in LocalType /\ InHand(Idle)
  BY IdleTyped
<1>2. PICK r \in Records : \E sel \in Selections(r), opt \in CliOptions :
        \/ \E act \in {"stage", "archive"}, limit \in CliLimits :
             CommandMove(p, act, r, sel, opt, limit)
        \/ CommandClearHot(p, r, sel, opt)
  BY DEF Command
<1>3. PICK sel \in Selections(r), opt \in CliOptions :
        \/ \E act \in {"stage", "archive"}, limit \in CliLimits :
             CommandMove(p, act, r, sel, opt, limit)
        \/ CommandClearHot(p, r, sel, opt)
  BY <1>2
<1>4. sel \in SUBSET Files /\ opt \in Options
  BY CliAssumption DEF Selections, FilesOf
<1>5. ASSUME NEW act \in {"stage", "archive"}, NEW limit \in CliLimits,
             CommandMove(p, act, r, sel, opt, limit)
      PROVE  TypeOK'
  <2> DEFINE i == [Idle EXCEPT !.act = act, !.opt = opt, !.left = limit]
             m == Moving(i, r, sel)
  <2>1. i \in LocalType /\ i.act = act /\ i.todo = {} /\ i.req = None
    BY <1>1, <1>4, CliAssumption DEF LocalType, Idle, Actions
  <2> HIDE DEF i
  <2>2. m \in LocalType
    BY <1>4, <2>1, MovingTyped
  <2>3. m.pc = "move" /\ m.rec = r /\ m.todo = {} /\ m.req = None /\ m.act = act
    BY <2>1 DEF Moving, LocalType
  <2>4. InHand(m)
    BY <2>3 DEF InHand
  <2>5. Becomes(p, m) /\ ReadsOnly
    BY <1>5, FreshTyped DEF CommandMove, i, ReadsOnly
  <2> QED BY <2>2, <2>4, <2>5, LocalStepTyped
<1>6. ASSUME CommandClearHot(p, r, sel, opt) PROVE TypeOK'
  <2> DEFINE i == [Idle EXCEPT !.act = "clear_hot", !.opt = opt]
             n == Moving(i, r, sel)
             m == [n EXCEPT !.pc = "clear"]
  <2>1. i \in LocalType /\ i.todo = {} /\ i.req = None /\ i.act = "clear_hot"
    BY <1>1, <1>4 DEF LocalType, Idle, Actions
  <2> HIDE DEF i
  <2>2. n \in LocalType
    BY <1>4, <2>1, MovingTyped
  <2>3. n.rec = r /\ n.todo = {} /\ n.req = None /\ n.act = "clear_hot"
    BY <2>1 DEF Moving, LocalType
  <2> HIDE DEF n
  <2>4. /\ m \in LocalType /\ m.pc = "clear" /\ m.act = "clear_hot"
        /\ m.rec = r /\ m.todo = {} /\ m.req = None
    BY <2>2, <2>3 DEF LocalType, Labels
  <2> HIDE DEF m
  <2>5. InHand(m)
    BY <2>4 DEF InHand
  <2>6. Becomes(p, m) /\ ReadsOnly
    BY <1>6, FreshTyped DEF CommandClearHot, i, n, m, ReadsOnly
  <2> QED BY <2>4, <2>5, <2>6, LocalStepTyped
<1> QED BY <1>3, <1>5, <1>6

\* Users, curators and FTS.
LEMMA WorldTyped ==
    ASSUME TypeOK,
           \/ \E r \in Records : \E sel \in Selections(r), q \in Requests : Stage(r, sel, q)
           \/ \E r \in Records : DeleteRecord(r)
           \/ \E j \in Jobs : JobEnds(j)
    PROVE  TypeOK'
<1> USE DEF TypeOK
<1>1. ASSUME NEW r \in Records, NEW sel \in Selections(r), NEW q \in Requests,
             Stage(r, sel, q)
      PROVE  TypeOK'
  <2>1. DbTypeOK'
    BY <1>1 DEF Stage, DbTypeOK, storage, RecordAvailability, Saved
  <2>2. RequestTypeOK'
    BY <1>1 DEF Stage, RequestTypeOK, Selections, FilesOf
  <2>3. ProcessTypeOK'
    <3>1. \A x \in Requests : requests[x].status # "none" => requests'[x].status # "none"
      BY <1>1 DEF Stage, RequestTypeOK
    <3> QED BY <1>1, <3>1 DEF Stage, ProcessTypeOK, InHand, LocalType
  <2> QED BY <2>1, <2>2, <2>3
<1>2. ASSUME NEW r \in Records, DeleteRecord(r) PROVE TypeOK'
  BY <1>2 DEF DeleteRecord, DbTypeOK, RequestTypeOK, ProcessTypeOK, InHand, storage, Saved
<1>3. ASSUME NEW j \in Jobs, JobEnds(j) PROVE TypeOK'
  <2> USE DEF JobEnds, JobFinishes, JobFails, JobCanceled
  <2>1. jobs[j].state = "active" /\ jobs[j].file \in Files
    BY <1>3 DEF DbTypeOK
  <2>2. hot' \subseteq Files /\ cold' \subseteq Files
    BY <1>3, <2>1 DEF DbTypeOK, storage
  <2>3. PICK s \in {"finished", "failed", "canceled"} : jobs' = [jobs EXCEPT ![j].state = s]
    BY <1>3
  <2>4. /\ jobs' \in [Jobs -> [state: {"unused", "active", "finished", "failed", "canceled"},
                             file: Files \cup {None}, act: {"stage", "archive"}]]
        /\ \A x \in Jobs : jobs'[x].state # "unused" => jobs'[x].file \in Files
    BY <2>1, <2>3 DEF DbTypeOK
  <2>5. DbTypeOK'
    BY <1>3, <2>2, <2>4 DEF DbTypeOK, catalog
  <2> QED BY <1>3, <2>5
          DEF RequestTypeOK, ProcessTypeOK, InHand, catalog, storage
<1> QED BY <1>1, <1>2, <1>3

\* The initial states are typed.
LEMMA InitTyped == ASSUME Init PROVE TypeOK
<1>1. DbTypeOK
  <2>1. tags \in [Files -> SUBSET Tags]
    BY DEF Init, Tags
  <2>2. avail \in [Records -> RecordAvailability]
    <3>1. avail = [r \in Records |-> Availability(r, json)]
      BY DEF Init
    <3> QED BY <3>1, AvailabilityTyped
  <2>3. hot \subseteq Files /\ cold \subseteq Files /\ json = tags /\ live = Records
    BY DEF Init
  <2>4. /\ jobs \in [Jobs -> [state: {"unused", "active", "finished", "failed", "canceled"},
                             file: Files \cup {None}, act: {"stage", "archive"}]]
        /\ \A j \in Jobs : jobs[j].state = "unused"
    BY DEF Init
  <2>5. rows \in [Jobs -> {"none", "ongoing", "done", "failed", "lost"}]
        /\ fresh \in [Records -> SUBSET Procs]
    BY DEF Init
  <2> QED BY <2>1, <2>2, <2>3, <2>4, <2>5 DEF DbTypeOK
<1>2. RequestTypeOK
  BY DEF Init, RequestTypeOK
<1>3. ProcessTypeOK
  BY IdleTyped DEF Init, ProcessTypeOK
<1> QED BY <1>1, <1>2, <1>3 DEF TypeOK

LEMMA NextTyped == ASSUME TypeOK, [Next]_vars PROVE TypeOK'
<1>1. CASE UNCHANGED vars
  BY <1>1 DEF TypeOK, DbTypeOK, RequestTypeOK, ProcessTypeOK, InHand, vars, catalog, storage
<1>2. ASSUME NEW p \in Procs, Service(p) PROVE TypeOK'
  BY <1>2, MoveTyped, RequestTyped, TransferTyped DEF Service
<1>3. ASSUME NEW p \in Procs, Crash(p) PROVE TypeOK'
  <2>1. ReadsOnly
    BY <1>3, FreshTyped DEF Crash, ReadsOnly, TypeOK
  <2> QED BY <1>3, <2>1, IdleTyped, LocalStepTyped DEF Crash
<1>4. ASSUME NEW p \in Operators, ClearStep(p) \/ Command(p) PROVE TypeOK'
  BY <1>4, ClearTyped, CommandTyped DEF Procs
<1> QED BY <1>1, <1>2, <1>3, <1>4, WorldTyped DEF Next

\* Every reachable state is typed, and every process has in hand what the code
\* it has come to is going to use.
THEOREM TypeCorrect == Spec => []TypeOK
<1>1. Init => TypeOK BY InitTyped
<1>2. TypeOK /\ [Next]_vars => TypeOK' BY NextTyped
<1> QED BY <1>1, <1>2, PTL DEF Spec

-----------------------------------------------------------------------------
(* No file is ever lost.  A step of a process is sound for the tapes when   *)
(* what it enters in the catalogue and what it remembers are on tape.       *)

LEMMA IdleOnTape == LocalOnTape(Idle)
BY DEF Idle, LocalOnTape

\* The process p comes to l and no copy leaves the tapes.
LEMMA BecomesOnTape ==
    ASSUME TypeOK, WorkIsOnTape, NEW p \in Procs, NEW l,
           LocalOnTape(l), Becomes(p, l), cold \subseteq cold'
    PROVE  (\A x \in Procs : LocalOnTape(local[x]))'
<1> SUFFICES ASSUME NEW x \in Procs PROVE LocalOnTape(local[x])'
  OBVIOUS
<1>1. CASE x = p
  <2>1. local'[x] = l
    BY <1>1 DEF Becomes, TypeOK, ProcessTypeOK
  <2> QED BY <2>1 DEF LocalOnTape
<1>2. CASE x # p
  <2>1. local'[x] = local[x] /\ LocalOnTape(local[x])
    BY <1>2 DEF Becomes, TypeOK, ProcessTypeOK, WorkIsOnTape
  <2> QED BY <2>1 DEF LocalOnTape
<1> QED BY <1>1, <1>2

\* A step that leaves the storage and FTS alone, and enters in the catalogue
\* only what is on tape.
LEMMA CatalogStepOnTape ==
    ASSUME TapeInv, NEW p \in Procs, NEW l, LocalOnTape(l),
           Becomes(p, l), UNCHANGED <<hot, cold, jobs>>,
           \A f \in Files : "uri_cold" \in tags'[f] \cup json'[f] => f \in cold
    PROVE  (NoDataLoss /\ ColdIsOnTape /\ WorkIsOnTape)'
<1>1. (\A x \in Procs : LocalOnTape(local[x]))'
  BY BecomesOnTape DEF TapeInv
<1> QED BY <1>1 DEF TapeInv, NoDataLoss, ColdIsOnTape, WorkIsOnTape

LEMMA LocalStepOnTape ==
    ASSUME TapeInv, NEW p \in Procs, NEW l, LocalOnTape(l),
           Becomes(p, l), LocalOnly \/ UNCHANGED <<catalog, requests, rows, storage, jobs>>
    PROVE  (NoDataLoss /\ ColdIsOnTape /\ WorkIsOnTape)'
BY CatalogStepOnTape DEF TapeInv, ColdIsOnTape, LocalOnly, catalog, storage

\* What a process commits is on tape.
LEMMA CommittedOnTape ==
    ASSUME TapeInv, NEW p \in Procs, NEW f \in Files,
           "uri_cold" \in Committed(local[p])[f]
    PROVE  f \in cold
<1>1. local[p].act \in {"stage", "archive", "clear_hot"} /\ LocalOnTape(local[p])
  BY DEF TapeInv, TypeOK, ProcessTypeOK, LocalType, WorkIsOnTape, Actions
<1>2. "uri_cold" \in tags[f] => f \in cold
  BY DEF TapeInv, ColdIsOnTape
<1>3. CASE f \in local[p].pending /\ RecordOf[f] \in live
  <2>1. "uri_cold" \in Retag(tags[f], local[p].act)
    BY <1>3 DEF Committed
  <2>2. "uri_cold" \in tags[f] \/ local[p].act = "archive"
    BY <1>1, <2>1 DEF Retag
  <2> QED BY <1>1, <1>2, <1>3, <2>2 DEF LocalOnTape
<1>4. CASE ~(f \in local[p].pending /\ RecordOf[f] \in live)
  BY <1>2, <1>4 DEF Committed
<1> QED BY <1>3, <1>4

\* The local states from which the steps build the next ones.
LEMMA LocalStateOnTape ==
    ASSUME TapeInv, NEW p \in Procs
    PROVE  local[p] \in LocalType /\ LocalOnTape(local[p])
BY DEF TapeInv, TypeOK, ProcessTypeOK, WorkIsOnTape

LEMMA DropOnTape ==
    ASSUME NEW l \in LocalType, NEW f \in Files, LocalOnTape(l)
    PROVE  LocalOnTape(Drop(l, f))
BY DEF LocalOnTape, Drop, LocalType

LEMMA MovingOnTape ==
    ASSUME TapeInv, NEW l \in LocalType, LocalOnTape(l), NEW r, NEW sel
    PROVE  LocalOnTape(Moving(l, r, sel))
<1> DEFINE snap == [f \in Files |-> IF f \in sel THEN json[f] ELSE {}]
<1>1. \A f \in Files : "uri_cold" \in snap[f] => f \in cold
  BY DEF TapeInv, ColdIsOnTape
<1>2. /\ Moving(l, r, sel).act = l.act
      /\ Moving(l, r, sel).pending = l.pending
      /\ Moving(l, r, sel).snap = snap \/ Moving(l, r, sel).snap = l.snap
  BY DEF Moving, LocalType
<1> QED BY <1>1, <1>2 DEF LocalOnTape

LEMMA AfterSaveOnTape ==
    ASSUME NEW l \in LocalType PROVE LocalOnTape(AfterSave(l))
<1>1. CASE l.req = None BY <1>1, IdleOnTape DEF AfterSave
<1>2. CASE l.req # None
  <2>1. AfterSave(l).snap = Idle.snap /\ AfterSave(l).pending = {}
    BY <1>2 DEF AfterSave, LocalType
  <2> QED BY <2>1 DEF LocalOnTape, Idle
<1> QED BY <1>1, <1>2

\* What is dumped is what is going to be committed.
LEMMA DumpOnTape ==
    ASSUME TapeInv, NEW p \in Procs PROVE LocalOnTape(Dump(local[p]))
<1> DEFINE l == local[p]
<1>1. l \in LocalType /\ LocalOnTape(l)
  BY DEF TapeInv, TypeOK, ProcessTypeOK, WorkIsOnTape
<1>2. /\ Dump(l).act = l.act /\ Dump(l).pending = l.pending
      /\ Dump(l).snap = Flushed(l.queue, Committed(l))
  BY <1>1 DEF Dump, LocalType
<1>3. \A f \in Files : "uri_cold" \in Flushed(l.queue, Committed(l))[f] => f \in cold
  BY CommittedOnTape DEF Flushed
<1> QED BY <1>1, <1>2, <1>3 DEF LocalOnTape

LEMMA ReindexOnTape ==
    ASSUME TapeInv, NEW p \in Procs, ReindexEntries(p),
           UNCHANGED <<catalog, requests, rows, storage, jobs>>
    PROVE  (NoDataLoss /\ ColdIsOnTape /\ WorkIsOnTape)'
<1>1. local[p] \in LocalType
  BY LocalStateOnTape
<1>2. PICK m \in {AfterSave(local[p]), Dump(local[p]), Idle} : Becomes(p, m)
  BY DEF ReindexEntries
<1>3. LocalOnTape(m)
  BY <1>1, AfterSaveOnTape, DumpOnTape, IdleOnTape
<1> QED BY <1>2, <1>3, LocalStepOnTape

LEMMA MoveOnTape ==
    ASSUME TapeInv, NEW p \in Procs, MoveStep(p)
    PROVE  (NoDataLoss /\ ColdIsOnTape /\ WorkIsOnTape)'
<1> DEFINE l == local[p]
           Goal == (NoDataLoss /\ ColdIsOnTape /\ WorkIsOnTape)'
<1>1. l \in LocalType /\ LocalOnTape(l) /\ LocalOnTape(Idle)
  BY LocalStateOnTape, IdleOnTape
<1>2. ASSUME NEW f \in Files, SkipFile(p, f) PROVE Goal
  BY <1>1, <1>2, DropOnTape, LocalStepOnTape DEF SkipFile
<1>3. ASSUME NEW f \in Files, RegisterCopy(p, f) PROVE Goal
  <2> DEFINE found == RecordOf[f] \in live
             m == [Drop(l, f) EXCEPT !.pending = IF found THEN @ \cup {f} ELSE @,
                                     !.queue = IF found THEN @ \cup {l.rec} ELSE @]
  <2>1. l.act = "archive" => f \in cold
    BY <1>3 DEF RegisterCopy, VerifyFile
  <2>2. Drop(l, f) \in LocalType /\ LocalOnTape(Drop(l, f)) /\ Drop(l, f).act = l.act
    BY <1>1, DropOnTape, DropTyped DEF Drop, LocalType
  <2>3. LocalOnTape(m)
    BY <2>1, <2>2 DEF LocalOnTape, LocalType
  <2> QED BY <1>3, <2>3, LocalStepOnTape DEF RegisterCopy
<1>4. ASSUME NEW f \in Files, NeedTransfer(p, f) PROVE Goal
  <2> DEFINE m == [Drop(l, f) EXCEPT !.pc = "submit_job", !.file = f]
  <2>1. Drop(l, f) \in LocalType /\ LocalOnTape(Drop(l, f))
    BY <1>1, DropOnTape, DropTyped
  <2>2. LocalOnTape(m)
    BY <2>1 DEF LocalOnTape, LocalType
  <2> QED BY <1>4, <2>2, LocalStepOnTape DEF NeedTransfer
<1>5. ASSUME NEW j \in Jobs, SubmitJob(p, j) PROVE Goal
  <2> DEFINE m == [l EXCEPT !.pc = "create_transfer", !.job = j]
  <2>1. LocalOnTape(m)
    BY <1>1 DEF LocalOnTape, LocalType
  <2>2. Becomes(p, m) /\ UNCHANGED <<tags, json, hot, cold>>
    BY <1>5 DEF SubmitJob, catalog, storage
  <2>3. (\A x \in Procs : LocalOnTape(local[x]))'
    BY <2>1, <2>2, BecomesOnTape DEF TapeInv
  <2>4. \A x \in Jobs : jobs'[x].act = "archive" /\ jobs'[x].state = "finished"
          => jobs'[x].file \in cold
    BY <1>5 DEF SubmitJob, TapeInv, WorkIsOnTape, TypeOK, DbTypeOK
  <2> QED BY <2>2, <2>3, <2>4 DEF TapeInv, NoDataLoss, ColdIsOnTape, WorkIsOnTape
<1>6. ASSUME SubmitFails(p) PROVE Goal
  <2> DEFINE m == [l EXCEPT !.pc = "move", !.file = None]
  <2>1. LocalOnTape(m)
    BY <1>1 DEF LocalOnTape, LocalType
  <2> QED BY <1>6, <2>1, LocalStepOnTape DEF SubmitFails
<1>7. ASSUME CreateTransfer(p) PROVE Goal
  <2> DEFINE full == l.left = 1
             m == [l EXCEPT !.pc = "move", !.file = None, !.job = None,
                            !.pending = {},
                            !.left = IF l.left = 0 THEN 0 ELSE l.left - 1,
                            !.files = IF full THEN {} ELSE @,
                            !.snap = IF full THEN [f \in Files |-> {}] ELSE @]
  <2>1. m.act = l.act /\ m.pending = {} /\ m.snap \in {l.snap, [f \in Files |-> {}]}
    BY <1>1 DEF LocalType
  <2> HIDE DEF m
  <2>2. LocalOnTape(m)
    BY <1>1, <2>1 DEF LocalOnTape
  <2>3. Becomes(p, m) /\ tags' = Committed(l) /\ UNCHANGED <<json, hot, cold, jobs>>
    BY <1>7 DEF CreateTransfer, storage, m
  <2>4. \A f \in Files : "uri_cold" \in tags'[f] \cup json'[f] => f \in cold
    BY <2>3, CommittedOnTape DEF TapeInv, ColdIsOnTape
  <2> QED BY <2>2, <2>3, <2>4, CatalogStepOnTape
<1>8. ASSUME CloseRecord(p) PROVE Goal
  BY <1>8, ReindexOnTape DEF CloseRecord
<1>9. ASSUME SaveRecords(p) PROVE Goal
  <2>1. PICK m \in {AfterSave(l), Idle} : Becomes(p, m)
    BY <1>9 DEF SaveRecords
  <2>2. LocalOnTape(m)
    BY <1>1, AfterSaveOnTape
  <2>3. UNCHANGED <<hot, cold, jobs>>
    BY <1>9 DEF SaveRecords, storage
  <2>4. \A f \in Files : /\ tags'[f] = tags[f] \/ tags'[f] = Committed(l)[f]
                         /\ json'[f] = json[f] \/ json'[f] = l.snap[f]
    BY <1>9 DEF SaveRecords
  <2>5. \A f \in Files : "uri_cold" \in tags'[f] \cup json'[f] => f \in cold
    BY <1>1, <2>4, CommittedOnTape DEF TapeInv, ColdIsOnTape, LocalOnTape
  <2> QED BY <2>1, <2>2, <2>3, <2>5, CatalogStepOnTape
<1> QED BY <1>2, <1>3, <1>4, <1>5, <1>6, <1>7, <1>8, <1>9 DEF MoveStep

LEMMA RequestOnTape ==
    ASSUME TapeInv, NEW p \in Procs, RequestStep(p)
    PROVE  (NoDataLoss /\ ColdIsOnTape /\ WorkIsOnTape)'
<1> DEFINE l == local[p]
           Goal == (NoDataLoss /\ ColdIsOnTape /\ WorkIsOnTape)'
<1>1. l \in LocalType /\ LocalOnTape(l) /\ LocalOnTape(Idle)
  BY LocalStateOnTape, IdleOnTape
<1>2. ASSUME NEW m, m.snap = l.snap \/ m.snap = Idle.snap, m.act = l.act \/ m.act = "stage",
             m.pending = l.pending \/ m.pending = {}
      PROVE  LocalOnTape(m)
  BY <1>1, <1>2 DEF LocalOnTape, Idle
<1>3. ASSUME CheckSubmitted(p) PROVE Goal
  <2> DEFINE room == Room
             todo == IF room > 0 THEN WithStatus("submitted") ELSE {}
             m == [Idle EXCEPT !.pc = "submitted", !.left = room, !.todo = todo]
  <2>1. m.snap = Idle.snap /\ m.act = "stage" /\ m.pending = {}
    BY DEF Idle
  <2>2. Becomes(p, m) /\ LocalOnly
    BY <1>3 DEF CheckSubmitted
  <2> HIDE DEF m
  <2> QED BY <1>2, <2>1, <2>2, LocalStepOnTape
<1>4. ASSUME NEW q \in Requests, TakeRequest(p, q) PROVE Goal
  <2> DEFINE n == Moving(l, requests[q].rec, requests[q].files)
             m == [n EXCEPT !.req = q, !.todo = @ \ {q}]
  <2>1. requests[q].rec \in Records /\ requests[q].files \in SUBSET Files
    BY <1>4 DEF TakeRequest, TapeInv, TypeOK, ProcessTypeOK, InHand, RequestTypeOK
  <2>2. n \in LocalType /\ LocalOnTape(n)
    BY <1>1, <2>1, MovingOnTape, MovingTyped DEF TapeInv, TypeOK
  <2> HIDE DEF n
  <2>3. LocalOnTape(m)
    BY <2>2 DEF LocalOnTape, LocalType
  <2> USE DEF n
  <2> QED BY <1>4, <2>3, LocalStepOnTape DEF TakeRequest
<1>5. ASSUME CheckRunning(p) PROVE Goal
  <2> DEFINE m == [Idle EXCEPT !.pc = "running", !.todo = WithStatus("started")]
  <2>1. m.snap = Idle.snap /\ m.act = "stage" /\ m.pending = {}
    BY DEF Idle
  <2> QED BY <1>2, <1>5, <2>1, LocalStepOnTape DEF CheckRunning
<1>6. ASSUME EndRunning(p) PROVE Goal
  <2> DEFINE m == IF p \in Beats
                  THEN [Idle EXCEPT !.pc = "poll",
                                    !.polls = {j \in Jobs : rows[j] = "ongoing"}]
                  ELSE Idle
  <2>1. m.snap = Idle.snap /\ m.act = "stage" /\ m.pending = {}
    BY DEF Idle
  <2> QED BY <1>2, <1>6, <2>1, LocalStepOnTape DEF EndRunning
<1>7. ASSUME NEW q \in Requests, CheckRequestRaises(p, q) PROVE Goal
  BY <1>1, <1>7, LocalStepOnTape DEF CheckRequestRaises
<1>8. ASSUME NEW m, Becomes(p, m), UNCHANGED <<tags, json, storage, jobs>>,
             LocalOnTape(m)
      PROVE  Goal
  BY <1>8, CatalogStepOnTape DEF storage, TapeInv, ColdIsOnTape
<1>9. ASSUME CloseRequest(p) PROVE Goal
  <2> DEFINE m == [l EXCEPT !.pc = "submitted", !.req = None, !.rec = None]
  <2>1. m.snap = l.snap /\ m.act = l.act /\ m.pending = l.pending
    BY <1>1 DEF LocalType
  <2> QED BY <1>2, <1>8, <1>9, <2>1 DEF CloseRequest, catalog
<1>10. ASSUME NEW q \in Requests, CheckRequest(p, q) PROVE Goal
  <2> DEFINE r == requests[q].rec
             online == avail[r] = "online"
             m == [l EXCEPT !.todo = @ \ {q}, !.req = q,
                            !.pc = IF online THEN "complete" ELSE "save_availability",
                            !.avl[r] = IF online THEN @ ELSE Availability(r, json)]
  <2>1. m.snap = l.snap /\ m.act = l.act /\ m.pending = l.pending
    BY <1>1 DEF LocalType
  <2>2. Becomes(p, m) /\ UNCHANGED <<tags, json, storage, jobs>>
    BY <1>10 DEF CheckRequest, catalog
  <2> HIDE DEF m
  <2> QED BY <1>2, <1>8, <2>1, <2>2
<1>11. ASSUME SaveAvailability(p) PROVE Goal
  <2> DEFINE waits == l.avl[requests[l.req].rec] = "requested"
             m == [l EXCEPT !.pc = IF waits THEN "running" ELSE "complete",
                            !.req = IF waits THEN None ELSE @,
                            !.avl = Idle.avl]
  <2>1. m.snap = l.snap /\ m.act = l.act /\ m.pending = l.pending
    BY <1>1 DEF LocalType
  <2>2. Becomes(p, m) \/ Becomes(p, Idle)
    BY <1>11 DEF SaveAvailability
  <2>3. UNCHANGED <<tags, json, storage, jobs>>
    BY <1>11 DEF SaveAvailability
  <2> HIDE DEF m
  <2> QED BY <1>1, <1>2, <1>8, <2>1, <2>2, <2>3
<1>12. ASSUME MarkAsCompleted(p) PROVE Goal
  <2> DEFINE m == [l EXCEPT !.pc = "running", !.req = None]
  <2>1. m.snap = l.snap /\ m.act = l.act /\ m.pending = l.pending
    BY <1>1 DEF LocalType
  <2> QED BY <1>2, <1>8, <1>12, <2>1 DEF MarkAsCompleted, catalog
<1> QED BY <1>3, <1>4, <1>5, <1>6, <1>7, <1>9, <1>10, <1>11, <1>12 DEF RequestStep

LEMMA TransferOnTape ==
    ASSUME TapeInv, NEW p \in Procs, TransferStep(p)
    PROVE  (NoDataLoss /\ ColdIsOnTape /\ WorkIsOnTape)'
<1> DEFINE l == local[p]
           Goal == (NoDataLoss /\ ColdIsOnTape /\ WorkIsOnTape)'
<1>1. l \in LocalType /\ LocalOnTape(l) /\ LocalOnTape(Idle)
  BY LocalStateOnTape, IdleOnTape
<1>2. ASSUME ProcessTransfers(p) PROVE Goal
  <2> DEFINE m == [Idle EXCEPT !.pc = "poll",
                               !.polls = {j \in Jobs : rows[j] = "ongoing"}]
  <2>1. LocalOnTape(m)
    BY <1>1 DEF LocalOnTape, Idle
  <2> QED BY <1>2, <2>1, LocalStepOnTape DEF ProcessTransfers
<1>3. ASSUME EndTransfers(p) PROVE Goal
  <2>1. PICK m \in {Dump(l), Idle} : Becomes(p, m)
    BY <1>3 DEF EndTransfers
  <2>2. LocalOnTape(m)
    BY <1>1, DumpOnTape
  <2> QED BY <1>3, <2>1, <2>2, LocalStepOnTape DEF EndTransfers
<1>4. ASSUME NEW j \in Jobs, TransferDone(p, j) PROVE Goal
  <2> DEFINE f == jobs[j].file
             found == RecordOf[f] \in live
             m == [l EXCEPT !.polls = @ \ {j},
                            !.queue = IF found THEN @ \cup {RecordOf[f]} ELSE @]
  <2>1. f \in Files /\ jobs[j].act \in {"stage", "archive"}
        /\ (jobs[j].act = "archive" => f \in cold)
    BY <1>4 DEF TransferDone, Polling, TapeInv, TypeOK, DbTypeOK, WorkIsOnTape
  <2>2. LocalOnTape(m)
    BY <1>1 DEF LocalOnTape, LocalType
  <2>3. Becomes(p, m) /\ UNCHANGED <<json, hot, cold, jobs>>
    BY <1>4 DEF TransferDone, storage
  <2>4. "uri_cold" \in Retag(tags[f], jobs[j].act)
            => "uri_cold" \in tags[f] \/ jobs[j].act = "archive"
    BY <2>1 DEF Retag
  <2>5. \A x \in Files : "uri_cold" \in tags'[x] => x \in cold
    <3>1. \A x \in Files : \/ tags'[x] = tags[x]
                           \/ x = f /\ tags'[x] = Retag(tags[f], jobs[j].act)
      <4>1. tags \in [Files -> SUBSET Tags]
        BY DEF TapeInv, TypeOK, DbTypeOK
      <4>2. \/ tags' = tags
            \/ tags' = [tags EXCEPT ![f] = Retag(@, jobs[j].act)]
        BY <1>4 DEF TransferDone
      <4> QED BY <4>1, <4>2, <2>1
    <3> QED BY <2>1, <2>4, <3>1 DEF TapeInv, ColdIsOnTape
  <2>6. \A x \in Files : "uri_cold" \in tags'[x] \cup json'[x] => x \in cold
    BY <2>3, <2>5 DEF TapeInv, ColdIsOnTape
  <2> QED BY <2>2, <2>3, <2>6, CatalogStepOnTape
<1>5. ASSUME NEW j \in Jobs, TransferFailed(p, j) \/ TransferPending(p, j) PROVE Goal
  <2> DEFINE m == [l EXCEPT !.polls = @ \ {j}]
  <2>1. LocalOnTape(m)
    BY <1>1 DEF LocalOnTape, LocalType
  <2>2. Becomes(p, m) /\ UNCHANGED <<tags, json, hot, cold, jobs>>
    BY <1>5 DEF TransferFailed, TransferPending, LocalOnly, catalog, storage
  <2> QED BY <2>1, <2>2, CatalogStepOnTape DEF TapeInv, ColdIsOnTape
<1> QED BY <1>2, <1>3, <1>4, <1>5 DEF TransferStep

\* The only step that removes a copy: the tag it has read says that the file is
\* on tape, and it is.
LEMMA ClearOnTape ==
    ASSUME TapeInv, NEW p \in Procs, ClearStep(p)
    PROVE  (NoDataLoss /\ ColdIsOnTape /\ WorkIsOnTape)'
<1> DEFINE l == local[p]
           Goal == (NoDataLoss /\ ColdIsOnTape /\ WorkIsOnTape)'
<1>1. l \in LocalType /\ LocalOnTape(l) /\ LocalOnTape(Idle)
  BY LocalStateOnTape, IdleOnTape
<1>2. ASSUME NEW f \in Files, ClearSkips(p, f) PROVE Goal
  BY <1>1, <1>2, DropOnTape, LocalStepOnTape DEF ClearSkips
<1>3. ASSUME NEW f \in Files, ClearFile(p, f) PROVE Goal
  <2> DEFINE m == [Drop(l, f) EXCEPT !.pending = @ \cup {f}, !.queue = @ \cup {l.rec}]
  <2>1. f \in cold
    BY <1>1, <1>3 DEF ClearFile, Clearable, IsQos, LocalOnTape
  <2>2. l.act # "archive"
    BY <1>1, <1>3 DEF ClearFile, TapeInv, TypeOK, ProcessTypeOK, InHand
  <2>3. Drop(l, f) \in LocalType /\ LocalOnTape(Drop(l, f)) /\ Drop(l, f).act = l.act
    BY <1>1, DropOnTape, DropTyped DEF Drop, LocalType
  <2>4. LocalOnTape(m)
    BY <2>2, <2>3 DEF LocalOnTape, LocalType
  <2>5. /\ Becomes(p, m) \/ Becomes(p, Idle)
        /\ UNCHANGED <<tags, json, cold, jobs>>
        /\ hot \ {f} \subseteq hot'
    BY <1>3 DEF ClearFile, catalog
  <2>6. (\A x \in Procs : LocalOnTape(local[x]))'
    BY <1>1, <2>4, <2>5, BecomesOnTape DEF TapeInv
  <2> QED BY <2>1, <2>5, <2>6 DEF TapeInv, NoDataLoss, ColdIsOnTape, WorkIsOnTape
<1>4. ASSUME CloseClear(p) PROVE Goal
  BY <1>4, ReindexOnTape DEF CloseClear
<1> QED BY <1>2, <1>3, <1>4 DEF ClearStep

LEMMA CommandOnTape ==
    ASSUME TapeInv, NEW p \in Procs, Command(p)
    PROVE  (NoDataLoss /\ ColdIsOnTape /\ WorkIsOnTape)'
<1> DEFINE Goal == (NoDataLoss /\ ColdIsOnTape /\ WorkIsOnTape)'
<1>1. Idle \in LocalType /\ LocalOnTape(Idle)
  BY IdleTyped, IdleOnTape
<1>2. PICK r \in Records : \E sel \in Selections(r), opt \in CliOptions :
        \/ \E act \in {"stage", "archive"}, limit \in CliLimits :
             CommandMove(p, act, r, sel, opt, limit)
        \/ CommandClearHot(p, r, sel, opt)
  BY DEF Command
<1>3. PICK sel \in Selections(r), opt \in CliOptions :
        \/ \E act \in {"stage", "archive"}, limit \in CliLimits :
             CommandMove(p, act, r, sel, opt, limit)
        \/ CommandClearHot(p, r, sel, opt)
  BY <1>2
<1>4. sel \in SUBSET Files /\ opt \in Options
  BY CliAssumption DEF Selections, FilesOf
<1>5. ASSUME NEW act \in {"stage", "archive"}, NEW limit \in CliLimits,
             CommandMove(p, act, r, sel, opt, limit)
      PROVE  Goal
  <2> DEFINE i == [Idle EXCEPT !.act = act, !.opt = opt, !.left = limit]
  <2>1. i \in LocalType /\ LocalOnTape(i)
    BY <1>1, <1>4, CliAssumption DEF LocalType, LocalOnTape, Idle, Actions
  <2>2. LocalOnTape(Moving(i, r, sel))
    BY <2>1, MovingOnTape
  <2> QED BY <1>5, <2>2, LocalStepOnTape DEF CommandMove
<1>6. ASSUME CommandClearHot(p, r, sel, opt) PROVE Goal
  <2> DEFINE i == [Idle EXCEPT !.act = "clear_hot", !.opt = opt]
             n == Moving(i, r, sel)
             m == [n EXCEPT !.pc = "clear"]
  <2>1. i \in LocalType /\ LocalOnTape(i)
    BY <1>1, <1>4 DEF LocalType, LocalOnTape, Idle, Actions
  <2>2. n \in LocalType /\ LocalOnTape(n)
    BY <1>4, <2>1, MovingOnTape, MovingTyped DEF TapeInv, TypeOK
  <2> HIDE DEF n
  <2>3. LocalOnTape(m)
    BY <2>2 DEF LocalOnTape, LocalType
  <2> USE DEF n
  <2> QED BY <1>6, <2>3, LocalStepOnTape DEF CommandClearHot
<1> QED BY <1>3, <1>5, <1>6

LEMMA WorldOnTape ==
    ASSUME TapeInv,
           \/ \E r \in Records : \E sel \in Selections(r), q \in Requests : Stage(r, sel, q)
           \/ \E r \in Records : DeleteRecord(r)
           \/ \E j \in Jobs : JobEnds(j)
    PROVE  (NoDataLoss /\ ColdIsOnTape /\ WorkIsOnTape)'
<1> USE DEF TapeInv, NoDataLoss, ColdIsOnTape, WorkIsOnTape, LocalOnTape
<1>1. ASSUME NEW r \in Records, NEW sel \in Selections(r), NEW q \in Requests,
             Stage(r, sel, q)
      PROVE  (NoDataLoss /\ ColdIsOnTape /\ WorkIsOnTape)'
  BY <1>1 DEF Stage, storage
<1>2. ASSUME NEW r \in Records, DeleteRecord(r)
      PROVE  (NoDataLoss /\ ColdIsOnTape /\ WorkIsOnTape)'
  BY <1>2 DEF DeleteRecord, storage
<1>3. ASSUME NEW j \in Jobs, JobFinishes(j) \/ JobFails(j) \/ JobCanceled(j)
      PROVE  (NoDataLoss /\ ColdIsOnTape /\ WorkIsOnTape)'
  <2>1. hot \subseteq hot' /\ cold \subseteq cold' /\ UNCHANGED <<tags, json, local>>
    BY <1>3 DEF JobFinishes, JobFails, JobCanceled, catalog, storage
  <2>2. jobs \in [Jobs -> [state: {"unused", "active", "finished", "failed", "canceled"},
                           file: Files \cup {None}, act: {"stage", "archive"}]]
    BY DEF TypeOK, DbTypeOK
  <2>3. \A x \in Jobs : jobs'[x].act = "archive" /\ jobs'[x].state = "finished"
            => jobs'[x].file \in cold'
    <3>1. CASE JobFails(j) \/ JobCanceled(j)
      BY <2>1, <2>2, <3>1 DEF JobFails, JobCanceled
    <3>2. CASE JobFinishes(j)
      <4>1. jobs' = [jobs EXCEPT ![j].state = "finished"]
            /\ (jobs[j].act = "archive" => jobs[j].file \in cold')
        BY <3>2 DEF JobFinishes
      <4> QED BY <2>1, <2>2, <4>1
    <3> QED BY <1>3, <3>1, <3>2
  <2> QED BY <2>1, <2>3
<1> QED BY <1>1, <1>2, <1>3 DEF JobEnds

LEMMA InitOnTape == ASSUME Init PROVE TapeInv
<1>1. TypeOK BY InitTyped
<1>2. NoDataLoss /\ ColdIsOnTape
  BY DEF Init, NoDataLoss, ColdIsOnTape, Tags, OnDiskSays, OnTapeSays
<1>3. WorkIsOnTape
  BY IdleOnTape DEF Init, WorkIsOnTape
<1> QED BY <1>1, <1>2, <1>3 DEF TapeInv

LEMMA NextOnTape == ASSUME TapeInv, [Next]_vars PROVE TapeInv'
<1>1. TypeOK'
  BY NextTyped DEF TapeInv
<1>2. (NoDataLoss /\ ColdIsOnTape /\ WorkIsOnTape)'
  <2>1. CASE UNCHANGED vars
    BY <2>1 DEF TapeInv, NoDataLoss, ColdIsOnTape, WorkIsOnTape, LocalOnTape,
                vars, catalog, storage
  <2>2. ASSUME NEW p \in Procs, Service(p)
        PROVE  (NoDataLoss /\ ColdIsOnTape /\ WorkIsOnTape)'
    BY <2>2, MoveOnTape, RequestOnTape, TransferOnTape DEF Service
  <2>3. ASSUME NEW p \in Procs, Crash(p)
        PROVE  (NoDataLoss /\ ColdIsOnTape /\ WorkIsOnTape)'
    BY <2>3, IdleOnTape, LocalStepOnTape DEF Crash
  <2>4. ASSUME NEW p \in Operators, ClearStep(p) \/ Command(p)
        PROVE  (NoDataLoss /\ ColdIsOnTape /\ WorkIsOnTape)'
    BY <2>4, ClearOnTape, CommandOnTape DEF Procs
  <2> QED BY <2>1, <2>2, <2>3, <2>4, WorldOnTape DEF Next
<1> QED BY <1>1, <1>2 DEF TapeInv

\* The inductive invariant behind the safety of the tapes.
THEOREM TapesSound == Spec => []TapeInv
<1>1. Init => TapeInv BY InitOnTape
<1>2. TapeInv /\ [Next]_vars => TapeInv' BY NextOnTape
<1> QED BY <1>1, <1>2, PTL DEF Spec

\* No interleaving of passes, commands, deletions, crashes and failures of FTS
\* leaves a file without a copy.
THEOREM NoFileIsLost == Spec => []NoDataLoss
<1>1. TapeInv => NoDataLoss BY DEF TapeInv
<1> QED BY <1>1, TapesSound, PTL

\* The catalogue never claims a tape copy that does not exist.
THEOREM CatalogIsHonest == Spec => []ColdIsOnTape
<1>1. TapeInv => ColdIsOnTape BY DEF TapeInv
<1> QED BY <1>1, TapesSound, PTL

-----------------------------------------------------------------------------
(* The storage under all the actors is a TieredStorage.  Only the end of a  *)
(* job and clear_hot touch it; all the other steps stutter.                 *)

LEMMA MoveLeavesStorage == ASSUME NEW p, MoveStep(p) PROVE UNCHANGED storage
BY DEF MoveStep, SkipFile, RegisterCopy, NeedTransfer, SubmitJob, SubmitFails,
       CreateTransfer, CloseRecord, SaveRecords, LocalOnly

LEMMA RequestLeavesStorage == ASSUME NEW p, RequestStep(p) PROVE UNCHANGED storage
BY DEF RequestStep, CheckSubmitted, CloseRequest, CheckRunning, TakeRequest,
       CheckRequest, CheckRequestRaises, SaveAvailability, MarkAsCompleted, EndRunning, LocalOnly

LEMMA TransferLeavesStorage == ASSUME NEW p, TransferStep(p) PROVE UNCHANGED storage
BY DEF TransferStep, ProcessTransfers, EndTransfers, TransferDone, TransferFailed,
       TransferPending, LocalOnly

\* clear_hot removes at most one file in a step, and that file is on tape.
LEMMA ClearIsTiered ==
    ASSUME TapeInv, NEW p \in Procs, ClearStep(p)
    PROVE  [Tiered!Next]_<<hot, cold>>
<1>1. ASSUME NEW f \in Files, ClearFile(p, f) PROVE [Tiered!Next]_<<hot, cold>>
  <2>1. LocalOnTape(local[p]) BY LocalStateOnTape
  <2>2. f \in cold
    BY <1>1, <2>1 DEF ClearFile, Clearable, IsQos, LocalOnTape
  <2>3. cold' = cold /\ hot' \in {hot, hot \ {f}}
    BY <1>1 DEF ClearFile
  <2> QED BY <2>2, <2>3 DEF Tiered!Next, Tiered!ClearHot
<1>2. ASSUME NEW f \in Files, ClearSkips(p, f) PROVE UNCHANGED <<hot, cold>>
  BY <1>2 DEF ClearSkips, LocalOnly, storage
<1>3. CloseClear(p) => UNCHANGED <<hot, cold>>
  BY DEF CloseClear, storage
<1> QED BY <1>1, <1>2, <1>3 DEF ClearStep

\* A job of FTS copies a file from where it is.
LEMMA JobIsTiered ==
    ASSUME TapeInv, NEW j \in Jobs, JobEnds(j)
    PROVE  [Tiered!Next]_<<hot, cold>>
<1>1. CASE JobFails(j) \/ JobCanceled(j)
  BY <1>1 DEF JobFails, JobCanceled, storage
<1>2. CASE JobFinishes(j)
  <2> DEFINE f == jobs[j].file
  <2>1. f \in Files /\ jobs[j].act \in {"stage", "archive"}
    BY <1>2 DEF JobFinishes, TapeInv, TypeOK, DbTypeOK
  <2>2. CASE jobs[j].act = "stage"
    BY <1>2, <2>1, <2>2 DEF JobFinishes, Tiered!Next, Tiered!Stage
  <2>3. CASE jobs[j].act = "archive"
    BY <1>2, <2>1, <2>3 DEF JobFinishes, Tiered!Next, Tiered!Archive
  <2> QED BY <2>1, <2>2, <2>3
<1> QED BY <1>1, <1>2 DEF JobEnds

\* Whatever the actors do, the storage keeps the promise of TieredStorage.
THEOREM StorageIsTiered == Spec => TieredSpec
<1>1. Init => Tiered!Init
  <2> SUFFICES ASSUME Init PROVE Tiered!Init OBVIOUS
  <2>1. TapeInv BY InitOnTape
  <2> QED BY <2>1 DEF TapeInv, TypeOK, DbTypeOK, NoDataLoss, Tiered!Init
<1>2. TapeInv /\ [Next]_vars => [Tiered!Next]_<<hot, cold>>
  <2> SUFFICES ASSUME TapeInv, [Next]_vars PROVE [Tiered!Next]_<<hot, cold>>
    OBVIOUS
  <2>1. CASE UNCHANGED vars
    BY <2>1 DEF vars, storage
  <2>2. ASSUME NEW p \in Procs, Service(p) \/ Crash(p) PROVE UNCHANGED <<hot, cold>>
    BY <2>2, MoveLeavesStorage, RequestLeavesStorage, TransferLeavesStorage
       DEF Service, Crash, LocalOnly, storage
  <2>3. ASSUME NEW p \in Operators, Command(p) PROVE UNCHANGED <<hot, cold>>
    BY <2>3 DEF Command, CommandMove, CommandClearHot, LocalOnly, storage
  <2>4. ASSUME NEW p \in Operators, ClearStep(p) PROVE [Tiered!Next]_<<hot, cold>>
    BY <2>4, ClearIsTiered DEF Procs
  <2>5. ASSUME NEW r \in Records, DeleteRecord(r) PROVE UNCHANGED <<hot, cold>>
    BY <2>5 DEF DeleteRecord, storage
  <2>6. ASSUME NEW r \in Records, NEW sel \in Selections(r), NEW q \in Requests,
               Stage(r, sel, q)
        PROVE  UNCHANGED <<hot, cold>>
    BY <2>6 DEF Stage, storage
  <2> QED BY <2>1, <2>2, <2>3, <2>4, <2>5, <2>6, JobIsTiered DEF Next
<1> QED BY <1>1, <1>2, TapesSound, PTL DEF Spec, TieredSpec, Tiered!Spec

=============================================================================
