---------------------------- MODULE ColdJsonProofs ----------------------------
(***************************************************************************)
(* What the readers of ColdStorage are promised: the JSON of a record says *)
(* of no file that it has a copy which its tags do not confirm.  It holds  *)
(* for any number of passes and operators, whatever fails or crashes.      *)
(***************************************************************************)
EXTENDS ColdStorageProofs

-----------------------------------------------------------------------------
(* The inductive invariant.                                                 *)

\* The tags t confirm every copy of which s speaks.
Confirms(t, s) == /\ OnDiskSays(s) => OnDiskSays(t)
                  /\ OnTapeSays(s) => OnTapeSays(t)

\* A clear_hot reindexes the record of every file that it tags.
ClearingOK(l) ==
    l.act = "clear_hot" =>
        /\ \A f \in l.pending : RecordOf[f] \in l.queue
        /\ l.pc = "clear" => l.files \subseteq FilesOf(l.rec)

\* What a process is going to save is confirmed by the tags of that commit, for
\* the records that nobody has saved since: the others it cannot save.
SavingOK(p) ==
    At(p, "save") => \A f \in Files :
        LET r == RecordOf[f]
        IN  r \in live /\ r \in local[p].queue /\ p \in fresh[r]
              => Confirms(Committed(local[p])[f], local[p].snap[f])

JsonInv == /\ TypeOK /\ JsonPromisesNoMore
           /\ \A p \in Procs : ClearingOK(local[p]) /\ SavingOK(p)

-----------------------------------------------------------------------------
(* What the others do to a process that is going to save a record.          *)

\* The rows that the others hold are rows they held before.
Kept(p) == \A y \in Procs, r \in Records : y # p /\ y \in fresh'[r] => y \in fresh[r]

\* No tag of the file is lost, or nobody has its record in hand.
TagsKept ==
    /\ live' \subseteq live
    /\ \A f \in Files : RecordOf[f] \in live' =>
         Confirms(tags'[f], tags[f]) \/ fresh'[RecordOf[f]] = {}

\* The tags of a process go on top of those of the others.
LEMMA RetagKeeps ==
    ASSUME NEW act \in Actions, NEW s, NEW t, Confirms(t, s)
    PROVE  Confirms(Retag(t, act), Retag(s, act))
BY DEF Actions, Retag, Confirms, OnDiskSays, OnTapeSays

\* Copies that are added are only confirmed.
LEMMA RetagConfirms ==
    ASSUME NEW act \in {"stage", "archive"}, NEW t
    PROVE  Confirms(Retag(t, act), t)
BY DEF Retag, Confirms, OnDiskSays, OnTapeSays

LEMMA SavingKept ==
    ASSUME JsonInv, TagsKept, NEW x \in Procs, local'[x] = local[x],
           \A r \in Records : x \in fresh'[r] => x \in fresh[r]
    PROVE  ClearingOK(local[x])' /\ SavingOK(x)'
<1> DEFINE l == local[x]
<1>1. /\ l \in LocalType /\ ClearingOK(l) /\ SavingOK(x) /\ RecordOf \in [Files -> Records]
  BY RecordOfAssumption DEF JsonInv, TypeOK, ProcessTypeOK
<1>2. ClearingOK(local[x])'
  BY <1>1 DEF ClearingOK, FilesOf
<1>3. ASSUME NEW f \in Files, l.pc = "save", RecordOf[f] \in live', RecordOf[f] \in l.queue,
             x \in fresh'[RecordOf[f]]
      PROVE  Confirms(Committed(local[x])'[f], l.snap[f])
  <2>1. RecordOf[f] \in live /\ x \in fresh[RecordOf[f]] /\ Confirms(tags'[f], tags[f])
    BY <1>1, <1>3 DEF TagsKept
  <2>2. Confirms(Committed(l)[f], l.snap[f])
    BY <1>1, <1>3, <2>1 DEF SavingOK, At
  <2>3. Confirms(Committed(local[x])'[f], Committed(l)[f])
    <3>1. Confirms(Retag(tags'[f], l.act), Retag(tags[f], l.act))
      BY <1>1, <2>1, RetagKeeps DEF LocalType
    <3>2. /\ Committed(l)[f] = IF f \in l.pending THEN Retag(tags[f], l.act) ELSE tags[f]
          /\ Committed(local[x])'[f] = IF f \in l.pending THEN Retag(tags'[f], l.act) ELSE tags'[f]
      BY <1>3, <2>1 DEF Committed
    <3> QED BY <2>1, <3>1, <3>2
  <2> QED BY <2>2, <2>3 DEF Confirms
<1>4. SavingOK(x)'
  BY <1>3 DEF SavingOK, At
<1> QED BY <1>2, <1>4

\* A step of one process, which then has nothing to save or what it may save.
LEMMA ActorKeeps ==
    ASSUME JsonInv, TypeOK', JsonPromisesNoMore', TagsKept,
           NEW p \in Procs, Kept(p), NEW m, Becomes(p, m),
           ClearingOK(m), m.pc # "save" \/ SavingOK(p)'
    PROVE  JsonInv'
<1>1. local'[p] = m /\ \A x \in Procs : x # p => local'[x] = local[x]
  BY DEF Becomes, JsonInv, TypeOK, ProcessTypeOK
<1>2. ClearingOK(local[p])' /\ SavingOK(p)'
  BY <1>1 DEF ClearingOK, FilesOf, SavingOK, At
<1>3. \A x \in Procs : x # p => ClearingOK(local[x])' /\ SavingOK(x)'
  BY <1>1, SavingKept DEF Kept
<1> QED BY <1>2, <1>3 DEF JsonInv

\* Nothing changes but the tags, which lose no copy, and what becomes of records.
LEMMA JsonKept ==
    ASSUME JsonInv, UNCHANGED json, live' \subseteq live,
           \A f \in Files : RecordOf[f] \in live' => Confirms(tags'[f], tags[f])
    PROVE  JsonPromisesNoMore' /\ TagsKept
BY DEF JsonInv, JsonPromisesNoMore, TagsKept, Confirms

LEMMA FreshKept ==
    ASSUME JsonInv, NEW p \in Procs, NEW recs,
           Reads(p, recs) \/ Forgets(p) \/ Saved(recs) \/ UNCHANGED fresh
    PROVE  Kept(p)
BY DEF JsonInv, TypeOK, DbTypeOK, Reads, Forgets, Saved, Kept

\* A process goes on without a look at the tables, but for the rows it reads.
LEMMA ReaderKeeps ==
    ASSUME JsonInv, TypeOK', NEW p \in Procs, NEW m, Becomes(p, m), NEW recs,
           Reads(p, recs) \/ Forgets(p) \/ Saved(recs) \/ UNCHANGED fresh,
           UNCHANGED <<live, tags, json>>, ClearingOK(m), m.pc # "save" \/ SavingOK(p)'
    PROVE  JsonInv'
<1>1. JsonPromisesNoMore' /\ TagsKept
  BY JsonKept DEF Confirms
<1> QED BY <1>1, ActorKeeps, FreshKept

-----------------------------------------------------------------------------
(* The steps.                                                               *)

LEMMA RestClears == ClearingOK(Idle)
BY DEF ClearingOK, Idle

\* The record is dumped with the tags that are going to be committed with it.
LEMMA DumpSaves ==
    ASSUME JsonInv, NEW p \in Procs, Becomes(p, Dump(local[p])), UNCHANGED <<live, tags>>,
           ClearingOK(local[p])
    PROVE  ClearingOK(Dump(local[p])) /\ SavingOK(p)'
<1> DEFINE l == local[p]
<1>1. l \in LocalType /\ local \in [Procs -> LocalType]
  BY DEF JsonInv, TypeOK, ProcessTypeOK
<1>2. /\ Dump(l).pc = "save" /\ Dump(l).act = l.act /\ Dump(l).pending = l.pending
      /\ Dump(l).queue = l.queue /\ Dump(l).snap = Flushed(l.queue, Committed(l))
  BY <1>1 DEF Dump, LocalType
<1>3. local'[p] = Dump(l)
  BY <1>1 DEF Becomes
<1>4. ASSUME NEW f \in Files, RecordOf[f] \in l.queue
      PROVE  Confirms(Committed(local[p])'[f], local'[p].snap[f])
  <2>1. Committed(local[p])'[f] = Committed(l)[f]
    BY <1>2, <1>3 DEF Committed
  <2>2. local'[p].snap[f] = Committed(l)[f]
    BY <1>2, <1>3, <1>4 DEF Flushed
  <2> QED BY <2>1, <2>2 DEF Confirms
<1>5. ClearingOK(Dump(l))
  BY <1>2 DEF ClearingOK
<1>6. SavingOK(p)'
  BY <1>2, <1>3, <1>4 DEF SavingOK, At
<1> QED BY <1>5, <1>6

\* reindex_entries, first half.
LEMMA ReindexKeeps ==
    ASSUME JsonInv, TypeOK', NEW p \in Procs, ReindexEntries(p), UNCHANGED <<live, tags, json>>
    PROVE  JsonInv'
<1> DEFINE l == local[p]
<1>1. l \in LocalType /\ ClearingOK(l)
  BY DEF JsonInv, TypeOK, ProcessTypeOK
<1>2. CASE Becomes(p, AfterSave(l)) /\ Forgets(p)
  <2>1. AfterSave(l).pc # "save" /\ ClearingOK(AfterSave(l))
    BY <1>1 DEF AfterSave, Idle, LocalType, ClearingOK
  <2> QED BY <1>2, <2>1, ReaderKeeps
<1>3. CASE Becomes(p, Dump(l)) /\ UNCHANGED fresh
  BY <1>1, <1>3, DumpSaves, ReaderKeeps
<1>4. CASE Becomes(p, Idle) /\ Forgets(p)
  BY <1>4, RestClears, ReaderKeeps DEF Idle
<1> QED BY <1>2, <1>3, <1>4 DEF ReindexEntries

\* reindex_entries, second half: the only step that takes a tag of a copy away,
\* and it takes the rows of those records away from everybody else.
LEMMA SaveKeeps ==
    ASSUME JsonInv, TypeOK', NEW p \in Procs, SaveRecords(p)
    PROVE  JsonInv'
<1> DEFINE l == local[p]
<1>1. /\ l \in LocalType /\ ClearingOK(l) /\ SavingOK(p) /\ l.pc = "save"
      /\ JsonPromisesNoMore /\ live' = live /\ RecordOf \in [Files -> Records]
  BY RecordOfAssumption DEF JsonInv, TypeOK, ProcessTypeOK, SaveRecords
<1>2. CASE ~CanSave(p, l.queue)
  <2>1. Becomes(p, Idle) /\ Forgets(p) /\ UNCHANGED <<live, tags, json>>
    BY <1>2 DEF SaveRecords
  <2> QED BY <2>1, RestClears, ReaderKeeps DEF Idle
<1>3. CASE CanSave(p, l.queue)
  <2>1. /\ tags' = Committed(l) /\ Becomes(p, AfterSave(l)) /\ Saved(l.queue)
        /\ json' = [f \in Files |-> IF RecordOf[f] \in l.queue THEN l.snap[f] ELSE json[f]]
    BY <1>3 DEF SaveRecords
  <2>2. AfterSave(l).pc # "save" /\ ClearingOK(AfterSave(l))
    BY <1>1 DEF AfterSave, Idle, LocalType, ClearingOK
  <2>3. ASSUME NEW f \in Files, RecordOf[f] \notin l.queue
        PROVE  Confirms(tags'[f], tags[f])
    <3>1. tags'[f] = tags[f] \/ (f \in l.pending /\ tags'[f] = Retag(tags[f], l.act))
      BY <2>1 DEF Committed
    <3>2. f \in l.pending => l.act \in {"stage", "archive"}
      BY <1>1, <2>3 DEF ClearingOK, LocalType, Actions
    <3> QED BY <3>1, <3>2, RetagConfirms DEF Confirms
  <2>4. JsonPromisesNoMore'
    <3>1. ASSUME NEW f \in Files, RecordOf[f] \in live PROVE Confirms(tags'[f], json'[f])
      <4>1. CASE RecordOf[f] \in l.queue
        <5>1. Confirms(Committed(l)[f], l.snap[f])
          BY <1>1, <1>3, <3>1, <4>1 DEF CanSave, SavingOK, At
        <5> QED BY <2>1, <4>1, <5>1
      <4>2. CASE RecordOf[f] \notin l.queue
        <5>1. Confirms(tags[f], json[f])
          BY <1>1, <3>1 DEF JsonPromisesNoMore, Confirms
        <5> QED BY <2>1, <2>3, <4>2, <5>1 DEF Confirms
      <4> QED BY <4>1, <4>2
    <3> QED BY <1>1, <3>1 DEF JsonPromisesNoMore, Confirms
  <2>5. TagsKept
    BY <1>1, <2>1, <2>3 DEF TagsKept, Saved
  <2> QED BY <2>1, <2>2, <2>4, <2>5, ActorKeeps, FreshKept
<1> QED BY <1>2, <1>3

\* The manager: what it commits adds copies.
LEMMA MoveKeeps ==
    ASSUME JsonInv, NEW p \in Procs, MoveStep(p)
    PROVE  JsonInv'
<1> DEFINE l == local[p]
<1>1. TypeOK /\ TypeOK' /\ l \in LocalType /\ InHand(l)
  BY MoveTyped DEF JsonInv, TypeOK, ProcessTypeOK
<1>2. ASSUME NEW m, Becomes(p, m), m.pc # "save", m.act = l.act, l.act # "clear_hot",
             UNCHANGED <<live, tags, json, fresh>>
      PROVE  JsonInv'
  BY <1>1, <1>2, ReaderKeeps DEF ClearingOK
<1>3. ASSUME NEW f \in Files, SkipFile(p, f) PROVE JsonInv'
  <2>1. l.act # "clear_hot" /\ Drop(l, f).pc # "save" /\ Drop(l, f).act = l.act
    BY <1>1, <1>3 DEF SkipFile, InHand, Drop, LocalType
  <2> QED BY <1>2, <1>3, <2>1 DEF SkipFile, LocalOnly, catalog
<1>4. ASSUME NEW f \in Files, RegisterCopy(p, f) PROVE JsonInv'
  <2> DEFINE found == RecordOf[f] \in live
             m == [Drop(l, f) EXCEPT !.pending = IF found THEN @ \cup {f} ELSE @,
                                     !.queue = IF found THEN @ \cup {l.rec} ELSE @]
  <2>1. l.act # "clear_hot" /\ m.pc # "save" /\ m.act = l.act
    BY <1>1, <1>4 DEF RegisterCopy, InHand, Drop, LocalType
  <2>2. Becomes(p, m) /\ UNCHANGED <<live, tags, json, fresh>>
    BY <1>4 DEF RegisterCopy, LocalOnly, catalog
  <2> HIDE DEF m
  <2> QED BY <1>2, <2>1, <2>2
<1>5. ASSUME NEW f \in Files, NeedTransfer(p, f) PROVE JsonInv'
  <2> DEFINE m == [Drop(l, f) EXCEPT !.pc = "submit_job", !.file = f]
  <2>1. l.act # "clear_hot" /\ m.pc # "save" /\ m.act = l.act
    BY <1>1, <1>5 DEF NeedTransfer, InHand, Drop, LocalType
  <2>2. Becomes(p, m) /\ UNCHANGED <<live, tags, json, fresh>>
    BY <1>5 DEF NeedTransfer, LocalOnly, catalog
  <2> HIDE DEF m
  <2> QED BY <1>2, <2>1, <2>2
<1>6. ASSUME NEW j \in Jobs, SubmitJob(p, j) PROVE JsonInv'
  <2> DEFINE m == [l EXCEPT !.pc = "create_transfer", !.job = j]
  <2>1. l.act # "clear_hot" /\ m.pc # "save" /\ m.act = l.act
    BY <1>1, <1>6 DEF SubmitJob, InHand, LocalType
  <2> QED BY <1>2, <1>6, <2>1 DEF SubmitJob, catalog
<1>7. ASSUME SubmitFails(p) PROVE JsonInv'
  <2> DEFINE m == [l EXCEPT !.pc = "move", !.file = None]
  <2>1. l.act # "clear_hot" /\ m.pc # "save" /\ m.act = l.act
    BY <1>1, <1>7 DEF SubmitFails, At, InHand, LocalType
  <2> QED BY <1>2, <1>7, <2>1 DEF SubmitFails, LocalOnly, catalog
<1>8. ASSUME CreateTransfer(p) PROVE JsonInv'
  <2> DEFINE full == l.left = 1
             m == [l EXCEPT !.pc = "move", !.file = None, !.job = None, !.pending = {},
                        !.left = IF l.left = 0 THEN 0 ELSE l.left - 1,
                        !.files = IF full THEN {} ELSE @,
                        !.snap = IF full THEN [f \in Files |-> {}] ELSE @]
  <2>1. l.act \in {"stage", "archive"} /\ m.pc # "save" /\ m.act = l.act
    BY <1>1, <1>8 DEF CreateTransfer, InHand, LocalType, Actions
  <2>2. /\ Becomes(p, m) /\ UNCHANGED <<live, json>> /\ tags' = Committed(l)
        /\ Reads(p, {l.rec})
    BY <1>8 DEF CreateTransfer
  <2> HIDE DEF m
  <2>3. \A f \in Files : Confirms(tags'[f], tags[f])
    <3>1. \A f \in Files : tags'[f] \in {tags[f], Retag(tags[f], l.act)}
      BY <2>2 DEF Committed
    <3> QED BY <2>1, <3>1, RetagConfirms DEF Confirms
  <2>4. JsonPromisesNoMore' /\ TagsKept
    BY <2>2, <2>3, JsonKept
  <2>5. ClearingOK(m)
    BY <2>1 DEF ClearingOK
  <2> QED BY <1>1, <2>1, <2>2, <2>4, <2>5, FreshKept, ActorKeeps
<1>9. ASSUME CloseRecord(p) PROVE JsonInv'
  BY <1>1, <1>9, ReindexKeeps DEF CloseRecord, catalog
<1>10. ASSUME SaveRecords(p) PROVE JsonInv'
  BY <1>1, <1>10, SaveKeeps
<1> QED BY <1>3, <1>4, <1>5, <1>6, <1>7, <1>8, <1>9, <1>10 DEF MoveStep

\* The service of the requests touches neither tags nor files.
LEMMA RequestKeeps ==
    ASSUME JsonInv, NEW p \in Procs, RequestStep(p)
    PROVE  JsonInv'
<1> DEFINE l == local[p]
<1>1. TypeOK /\ TypeOK' /\ l \in LocalType /\ InHand(l) /\ ClearingOK(l)
  BY RequestTyped DEF JsonInv, TypeOK, ProcessTypeOK
<1>2. UNCHANGED <<live, tags, json>>
  BY DEF RequestStep, CheckSubmitted, TakeRequest, CheckRunning, CheckRequest, CheckRequestRaises,
         SaveAvailability, EndRunning, CloseRequest, MarkAsCompleted, LocalOnly, catalog
<1>3. \E recs : Reads(p, recs) \/ Forgets(p) \/ Saved(recs) \/ UNCHANGED fresh
  BY DEF RequestStep, CheckSubmitted, TakeRequest, CheckRunning, CheckRequest, CheckRequestRaises,
         SaveAvailability, EndRunning, CloseRequest, MarkAsCompleted, LocalOnly
<1>4. ASSUME NEW m, Becomes(p, m), m.pc \notin {"save", "clear"},
             \/ m.act # "clear_hot"
             \/ m.act = l.act /\ m.pending = l.pending /\ m.queue = l.queue
      PROVE  JsonInv'
  <2>1. ClearingOK(m) BY <1>1, <1>4 DEF ClearingOK
  <2> QED BY <1>1, <1>2, <1>3, <1>4, <2>1, ReaderKeeps
<1>5. ASSUME NEW q \in Requests, TakeRequest(p, q) PROVE JsonInv'
  <2> DEFINE m == [Moving(l, requests[q].rec, requests[q].files) EXCEPT
                      !.req = q, !.todo = @ \ {q}]
  <2>1. m.pc = "move" /\ m.act # "clear_hot"
    BY <1>1, <1>5 DEF TakeRequest, InHand, Moving, LocalType
  <2>2. Becomes(p, m) BY <1>5 DEF TakeRequest
  <2> HIDE DEF m
  <2> QED BY <1>4, <2>1, <2>2
<1>6. ASSUME NEW q \in Requests, CheckRequest(p, q) PROVE JsonInv'
  <2> DEFINE r == requests[q].rec
             done == avail[r] = "online"
             m == [l EXCEPT !.todo = @ \ {q}, !.req = q,
                            !.pc = IF done THEN "complete" ELSE "save_availability",
                            !.avl[r] = IF done THEN @ ELSE Availability(r, json)]
  <2>1. /\ m.pc \in {"complete", "save_availability"} /\ m.act = l.act
        /\ m.pending = l.pending /\ m.queue = l.queue
    BY <1>1 DEF LocalType
  <2>2. Becomes(p, m) BY <1>6 DEF CheckRequest
  <2> HIDE DEF m
  <2> QED BY <1>4, <2>1, <2>2
<1>7. ASSUME SaveAvailability(p) PROVE JsonInv'
  <2> DEFINE waits == l.avl[requests[l.req].rec] = "requested"
             m == [l EXCEPT !.pc = IF waits THEN "running" ELSE "complete",
                            !.req = IF waits THEN None ELSE @, !.avl = Idle.avl]
  <2>1. /\ m.pc \in {"complete", "running"} /\ m.act = l.act
        /\ m.pending = l.pending /\ m.queue = l.queue
    BY <1>1 DEF LocalType
  <2>2. Becomes(p, m) \/ Becomes(p, Idle) BY <1>7 DEF SaveAvailability
  <2>3. Idle.pc = "idle" /\ Idle.act = "stage" BY DEF Idle
  <2> HIDE DEF m
  <2> QED BY <1>4, <2>1, <2>2, <2>3
<1>8. ASSUME CloseRequest(p) \/ MarkAsCompleted(p) PROVE JsonInv'
  <2>1. \A m \in {[l EXCEPT !.pc = "submitted", !.req = None, !.rec = None],
                  [l EXCEPT !.pc = "running", !.req = None]} :
            /\ m.pc \in {"submitted", "running"} /\ m.act = l.act
            /\ m.pending = l.pending /\ m.queue = l.queue
    BY <1>1 DEF LocalType
  <2> QED BY <1>4, <1>8, <2>1 DEF CloseRequest, MarkAsCompleted
<1>9. ASSUME \/ CheckSubmitted(p) \/ CheckRunning(p) \/ EndRunning(p)
             \/ \E q \in Requests : CheckRequestRaises(p, q)
      PROVE  JsonInv'
  <2>1. /\ Idle.pc = "idle" /\ Idle.act = "stage"
        /\ \A u, v : LET m == [Idle EXCEPT !.pc = "submitted", !.left = u, !.todo = v]
                     IN  m.pc = "submitted" /\ m.act = "stage"
        /\ \A v : LET m == [Idle EXCEPT !.pc = "running", !.todo = v]
                  IN  m.pc = "running" /\ m.act = "stage"
        /\ \A v : LET m == [Idle EXCEPT !.pc = "poll", !.polls = v]
                  IN  m.pc = "poll" /\ m.act = "stage"
    BY DEF Idle
  <2>2. CASE CheckSubmitted(p) BY <1>4, <2>1, <2>2 DEF CheckSubmitted
  <2>3. CASE CheckRunning(p) BY <1>4, <2>1, <2>3 DEF CheckRunning
  <2>4. CASE EndRunning(p) BY <1>4, <2>1, <2>4 DEF EndRunning
  <2>5. CASE \E q \in Requests : CheckRequestRaises(p, q)
    BY <1>4, <2>1, <2>5 DEF CheckRequestRaises
  <2> QED BY <1>9, <2>2, <2>3, <2>4, <2>5
<1> QED BY <1>5, <1>6, <1>7, <1>8, <1>9 DEF RequestStep

\* A transfer that has ended adds a copy.
LEMMA TransferKeeps ==
    ASSUME JsonInv, NEW p \in Procs, TransferStep(p)
    PROVE  JsonInv'
<1> DEFINE l == local[p]
<1>1. TypeOK /\ TypeOK' /\ l \in LocalType /\ InHand(l) /\ ClearingOK(l)
  BY TransferTyped DEF JsonInv, TypeOK, ProcessTypeOK
<1>2. ASSUME ProcessTransfers(p) PROVE JsonInv'
  <2>1. \A v : LET m == [Idle EXCEPT !.pc = "poll", !.polls = v]
               IN  m.pc = "poll" /\ ClearingOK(m)
    BY DEF Idle, ClearingOK
  <2> QED BY <1>1, <1>2, <2>1, ReaderKeeps DEF ProcessTransfers, LocalOnly, catalog
<1>3. ASSUME EndTransfers(p) PROVE JsonInv'
  <2>1. UNCHANGED <<live, tags, json>> BY <1>3 DEF EndTransfers, catalog
  <2>2. CASE Becomes(p, Dump(l)) /\ Reads(p, l.queue)
    BY <1>1, <2>1, <2>2, DumpSaves, ReaderKeeps
  <2>3. CASE Becomes(p, Idle) /\ UNCHANGED fresh
    BY <1>1, <2>1, <2>3, RestClears, ReaderKeeps DEF Idle
  <2> QED BY <1>3, <2>2, <2>3 DEF EndTransfers
<1>4. ASSUME NEW j \in Jobs, TransferFailed(p, j) \/ TransferPending(p, j) PROVE JsonInv'
  <2> DEFINE m == [l EXCEPT !.polls = @ \ {j}]
  <2>1. m.pc = "poll" /\ ClearingOK(m)
    BY <1>1, <1>4 DEF TransferFailed, TransferPending, Polling, At, LocalType, ClearingOK
  <2> QED BY <1>1, <1>4, <2>1, ReaderKeeps
          DEF TransferFailed, TransferPending, LocalOnly, catalog
<1>5. ASSUME NEW j \in Jobs, TransferDone(p, j) PROVE JsonInv'
  <2> DEFINE found == RecordOf[jobs[j].file] \in live
             m == [l EXCEPT !.polls = @ \ {j},
                      !.queue = IF found THEN @ \cup {RecordOf[jobs[j].file]} ELSE @]
  <2>1. m.pc = "poll" /\ ClearingOK(m)
    BY <1>1, <1>5 DEF TransferDone, Polling, At, LocalType, ClearingOK
  <2>2. /\ Becomes(p, m) /\ UNCHANGED <<live, json, fresh>>
        /\ tags' = tags \/ tags' = [tags EXCEPT ![jobs[j].file] = Retag(@, jobs[j].act)]
    BY <1>5 DEF TransferDone
  <2> HIDE DEF m
  <2>3. \A f \in Files : Confirms(tags'[f], tags[f])
    <3>1. jobs[j].act \in {"stage", "archive"} /\ tags \in [Files -> SUBSET Tags]
      BY <1>1 DEF TypeOK, DbTypeOK
    <3>2. \A f \in Files : tags'[f] \in {tags[f], Retag(tags[f], jobs[j].act)}
      BY <2>2, <3>1
    <3> QED BY <3>1, <3>2, RetagConfirms DEF Confirms
  <2>4. JsonPromisesNoMore' /\ TagsKept
    BY <2>2, <2>3, JsonKept
  <2>5. Kept(p) BY <2>2 DEF Kept
  <2> QED BY <1>1, <2>1, <2>2, <2>4, <2>5, ActorKeeps
<1> QED BY <1>2, <1>3, <1>4, <1>5 DEF TransferStep

\* An operator clears a record, and remembers whose files it has cleared.
LEMMA OperatorKeeps ==
    ASSUME JsonInv, NEW p \in Operators, ClearStep(p) \/ Command(p)
    PROVE  JsonInv'
<1> DEFINE l == local[p]
<1>0. p \in Procs
  BY DEF Procs
<1>1. TypeOK /\ TypeOK' /\ l \in LocalType /\ InHand(l) /\ ClearingOK(l)
  <2>1. TypeOK BY DEF JsonInv
  <2> QED BY <1>0, <2>1, ClearTyped, CommandTyped DEF JsonInv, TypeOK, ProcessTypeOK
<1>2. ASSUME NEW f \in Files, ClearSkips(p, f) PROVE JsonInv'
  <2>1. Drop(l, f).pc = "clear" /\ ClearingOK(Drop(l, f))
    BY <1>1, <1>2 DEF ClearSkips, Drop, LocalType, ClearingOK
  <2> QED BY <1>0, <1>1, <1>2, <2>1, ReaderKeeps DEF ClearSkips, LocalOnly, catalog
<1>3. ASSUME NEW f \in Files, ClearFile(p, f) PROVE JsonInv'
  <2> DEFINE m == [Drop(l, f) EXCEPT !.pending = @ \cup {f}, !.queue = @ \cup {l.rec}]
  <2>1. m.pc = "clear" /\ ClearingOK(m)
    <3>1. /\ l.pc = "clear" /\ l.act = "clear_hot" /\ f \in l.files
          /\ l.files \subseteq FilesOf(l.rec)
      BY <1>1, <1>3 DEF ClearFile, InHand, ClearingOK
    <3>2. /\ m.pc = "clear" /\ m.act = l.act /\ m.rec = l.rec /\ m.files \subseteq l.files
          /\ m.pending = l.pending \cup {f} /\ m.queue = l.queue \cup {l.rec}
      BY <1>1, <3>1 DEF Drop, LocalType
    <3> HIDE DEF m
    <3> QED BY <1>1, <3>1, <3>2 DEF ClearingOK, FilesOf
  <2>2. \/ Becomes(p, m) /\ UNCHANGED fresh
        \/ Becomes(p, Idle) /\ Forgets(p)
    BY <1>3 DEF ClearFile
  <2>3. UNCHANGED <<live, tags, json>> BY <1>3 DEF ClearFile, catalog
  <2> HIDE DEF m
  <2> QED BY <1>0, <1>1, <2>1, <2>2, <2>3, RestClears, ReaderKeeps DEF Idle
<1>4. ASSUME CloseClear(p) PROVE JsonInv'
  BY <1>0, <1>1, <1>4, ReindexKeeps DEF CloseClear, catalog
<1>5. ASSUME NEW act \in {"stage", "archive"}, NEW r, NEW sel, NEW opt, NEW limit,
             CommandMove(p, act, r, sel, opt, limit)
      PROVE  JsonInv'
  <2> DEFINE m == Moving([Idle EXCEPT !.act = act, !.opt = opt, !.left = limit], r, sel)
  <2>1. m.pc = "move" /\ ClearingOK(m)
    BY DEF Moving, Idle, ClearingOK
  <2>2. Becomes(p, m) /\ Reads(p, {r}) /\ UNCHANGED <<live, tags, json>>
    BY <1>5 DEF CommandMove, catalog
  <2> HIDE DEF m
  <2> QED BY <1>0, <1>1, <2>1, <2>2, ReaderKeeps
<1>6. ASSUME NEW r \in Records, NEW sel \in Selections(r), NEW opt, CommandClearHot(p, r, sel, opt)
      PROVE  JsonInv'
  <2> DEFINE m == [Moving([Idle EXCEPT !.act = "clear_hot", !.opt = opt], r, sel)
                     EXCEPT !.pc = "clear"]
  <2>1. m.pc = "clear" /\ ClearingOK(m)
    BY DEF Moving, Idle, ClearingOK, Selections
  <2>2. Becomes(p, m) /\ Reads(p, {r}) /\ UNCHANGED <<live, tags, json>>
    BY <1>6 DEF CommandClearHot, catalog
  <2> HIDE DEF m
  <2> QED BY <1>0, <1>1, <2>1, <2>2, ReaderKeeps
<1> QED BY <1>2, <1>3, <1>4, <1>5, <1>6 DEF ClearStep, Command

\* Users, crashes, deletions and FTS.
LEMMA WorldKeeps ==
    ASSUME JsonInv, \/ UNCHANGED vars
                    \/ \E p \in Procs : Crash(p)
                    \/ \E r \in Records : \E sel \in Selections(r), q \in Requests :
                         Stage(r, sel, q)
                    \/ \E r \in Records : DeleteRecord(r)
                    \/ \E j \in Jobs : JobEnds(j)
    PROVE  JsonInv'
<1>1. TypeOK /\ TypeOK'
  <2>1. TypeOK BY DEF JsonInv
  <2> QED BY <2>1, NextTyped DEF Next
<1>2. ASSUME UNCHANGED <<json, local>>, live' \subseteq live,
             \A f \in Files : RecordOf[f] \in live' => tags'[f] = tags[f],
             \A r \in Records : fresh'[r] \subseteq fresh[r]
      PROVE  JsonInv'
  <2>1. JsonPromisesNoMore' /\ TagsKept
    BY <1>2, JsonKept DEF Confirms
  <2> QED BY <1>1, <1>2, <2>1, SavingKept DEF JsonInv
<1>3. CASE UNCHANGED vars
  BY <1>2, <1>3 DEF vars, catalog
<1>4. ASSUME NEW p \in Procs, Crash(p) PROVE JsonInv'
  BY <1>1, <1>4, RestClears, ReaderKeeps DEF Crash, catalog, Idle
<1>5. ASSUME NEW r \in Records, NEW sel, NEW q, Stage(r, sel, q) PROVE JsonInv'
  BY <1>2, <1>5 DEF Stage, Saved
<1>6. ASSUME NEW r \in Records, DeleteRecord(r) PROVE JsonInv'
  BY <1>2, <1>6 DEF DeleteRecord, Saved
<1>7. ASSUME NEW j \in Jobs, JobEnds(j) PROVE JsonInv'
  BY <1>2, <1>7 DEF JobEnds, JobFinishes, JobFails, JobCanceled, catalog
<1> QED BY <1>3, <1>4, <1>5, <1>6, <1>7

-----------------------------------------------------------------------------
(* The theorem.                                                             *)

\* Whoever saves a record, and however the saves of others come in between, its
\* JSON promises no copy that the tags of the file do not confirm: the version
\* counter of the row keeps an older dump from overwriting a newer clear_hot.
THEOREM JsonIsHonest == Spec => []JsonPromisesNoMore
<1>1. Init => JsonInv
  <2>1. Init => TypeOK BY InitTyped
  <2>2. Init => JsonPromisesNoMore BY DEF Init, JsonPromisesNoMore
  <2>3. Init => \A p \in Procs : ClearingOK(local[p]) /\ SavingOK(p)
    BY RestClears DEF Init, Idle, SavingOK, At
  <2> QED BY <2>1, <2>2, <2>3 DEF JsonInv
<1>2. JsonInv /\ [Next]_vars => JsonInv'
  BY MoveKeeps, RequestKeeps, TransferKeeps, OperatorKeeps, WorldKeeps DEF Next, Service
<1>3. JsonInv => JsonPromisesNoMore
  BY DEF JsonInv
<1> QED BY <1>1, <1>2, <1>3, PTL DEF Spec

=============================================================================
