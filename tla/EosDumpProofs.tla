--------------------------- MODULE EosDumpProofs ---------------------------
(* Proofs about EosDump, for any number of files, any size of the batches   *)
(* and every set of faults: the task leaves the catalogue alone, and a dump *)
(* whose batches succeed covers every file that it lists.                   *)
EXTENDS EosDump, CatalogueProofs

-----------------------------------------------------------------------------
(* The catalogue under the task.                                            *)

LEMMA StepOfCatalogue == [Next]_vars => [CatalogueNext]_catalogueVars
<1> SUFFICES ASSUME [Next]_vars PROVE [CatalogueNext]_catalogueVars OBVIOUS
<1>1. ASSUME Dump \/ CompareFails \/ BatchFails PROVE UNCHANGED catalogueVars
  BY <1>1 DEF Dump, CompareFails, BatchFails, StartDump, CompareWithMapping, QueryDatabase, WriteIndices,
              EndDump, Rest
<1>2. ASSUME NEW f \in Paths, Access(f) PROVE UNCHANGED catalogueVars BY <1>2 DEF Access
<1>3. ASSUME UNCHANGED vars PROVE UNCHANGED catalogueVars BY <1>3 DEF vars
<1> QED BY <1>1, <1>2, <1>3 DEF Next

\* Next to the task, the commands behave as they do alone: it only reads what
\* they write (_get_records_by_paths).
THEOREM TaskOnlyReads == Spec => CatalogueSpec
<1>1. Init => CatalogueInit BY DEF Init
<1> QED BY <1>1, StepOfCatalogue, PTL DEF Spec, CatalogueSpec

-----------------------------------------------------------------------------
(* What holds at every step of the task.                                    *)

IndexEntry == [there: BOOLEAN, value: Values \cup {"none"}, atime: 0..1]

Dumps == UNION {[listed -> 0..1] : listed \in SUBSET Paths}

TaskType == [pc: {"idle", "batch", "query", "write", "done"}, dump: Dumps, left: SUBSET Paths,
             needs: SUBSET Paths, inDb: SUBSET (Paths \X (Values \cup {"none"})),
             failed: BOOLEAN, refused: SUBSET Paths]

DumpTyped == /\ mapping \in [Paths -> IndexEntry] /\ dark \in [Paths -> IndexEntry]
             /\ task \in TaskType

\* Only files of the dump that are not ignored are in hand, and those that the
\* database is asked for are not mapped.
InHandListed == /\ task.left \cup task.needs \subseteq DOMAIN task.dump \ Ignored
                /\ task.pc = "done" => task.left = {}
                /\ \A f \in task.needs : ~mapping[f].there

Asked(f) == task.pc \in {"query", "write"} /\ f \in task.needs

Covered(f) == LET entry == IF mapping[f].there THEN mapping[f] ELSE dark[f]
              IN  entry.there /\ (entry.atime = task.dump[f] \/ f \in task.refused)

\* As long as no batch has failed, a file of the dump is still to come, asked
\* for, or covered.
Progress == ~task.failed => \A f \in DOMAIN task.dump \ Ignored :
                                f \in task.left \/ Asked(f) \/ Covered(f)

IgnoredStayOut == \A f \in Ignored : ~mapping[f].there /\ ~dark[f].there

DInv == DumpTyped /\ InHandListed /\ Progress /\ IgnoredStayOut

LEMMA AbsentTyped == Absent \in IndexEntry /\ Resting \in TaskType
<1>1. <<>> \in Dumps
  <2>1. <<>> \in [{} -> 0..1] OBVIOUS
  <2> QED BY <2>1 DEF Dumps
<1> QED BY <1>1 DEF Absent, Resting, IndexEntry, TaskType

LEMMA DumpedTyped ==
    ASSUME DumpTyped
    PROVE  DOMAIN task.dump \subseteq Paths /\ \A f \in DOMAIN task.dump : task.dump[f] \in 0..1
<1>1. PICK listed \in SUBSET Paths : task.dump \in [listed -> 0..1]
  BY DEF DumpTyped, TaskType, Dumps
<1> QED BY <1>1

LEMMA DumpInit == Init => DInv
<1> SUFFICES ASSUME Init PROVE DInv OBVIOUS
<1>1. DumpTyped BY AbsentTyped DEF Init, DumpTyped
<1>2. InHandListed /\ Progress BY DEF Init, Resting, InHandListed, Progress
<1>3. IgnoredStayOut BY BatchAssumption DEF Init, IgnoredStayOut, Absent
<1> QED BY <1>1, <1>2, <1>3 DEF DInv

\* The paths that are brought up to date, and those that are not.
LEMMA TouchedIndex ==
    ASSUME DInv, NEW index \in [Paths -> IndexEntry], NEW paths \in SUBSET DOMAIN task.dump,
           NEW refused
    PROVE  /\ Touched(index, paths, refused) \in [Paths -> IndexEntry]
           /\ \A f \in Paths : Touched(index, paths, refused)[f].there = index[f].there
           /\ \A f \in Paths \ paths : Touched(index, paths, refused)[f] = index[f]
           /\ \A f \in paths \ refused : index[f].there =>
                Touched(index, paths, refused)[f].atime = task.dump[f]
           /\ Outdated(index, paths) \subseteq Paths
<1> DEFINE new == Touched(index, paths, refused)
<1>1. \A f \in paths : f \in Paths /\ task.dump[f] \in 0..1 BY DumpedTyped DEF DInv
<1>2. ASSUME NEW f \in Paths
      PROVE  /\ new[f] \in IndexEntry /\ new[f].there = index[f].there
             /\ f \notin paths => new[f] = index[f]
             /\ f \in paths \ refused /\ index[f].there => new[f].atime = task.dump[f]
  <2>1. CASE f \in Outdated(index, paths) \ refused
    BY <1>1, <2>1 DEF Touched, IndexEntry, Outdated, ExistingIn
  <2>2. CASE f \notin Outdated(index, paths) \ refused
    BY <2>2 DEF Touched, IndexEntry, Outdated, ExistingIn
  <2> QED BY <2>1, <2>2
<1>3. new \in [Paths -> IndexEntry] BY <1>2 DEF Touched
<1>4. Outdated(index, paths) \subseteq Paths BY <1>1 DEF Outdated, ExistingIn
<1> HIDE DEF new
<1>5. \A f \in paths : f \in Paths BY <1>1
<1> QED BY <1>2, <1>3, <1>4, <1>5 DEF new

-----------------------------------------------------------------------------
(* The steps.                                                               *)

LEMMA StartDumpSafe == DInv /\ IInv /\ StartDump => DInv'
<1> SUFFICES ASSUME DInv, IInv, StartDump PROVE DInv' OBVIOUS
<1> DEFINE listed == Dumped
<1>1. listed \in Dumps /\ DOMAIN listed = hot
  <2>1. hot \in SUBSET Paths BY DEF IInv, RestType
  <2>2. listed \in [hot -> 0..1] BY DEF Dumped
  <2> QED BY <2>1, <2>2 DEF Dumps
<1> HIDE DEF listed
<1>2. DOMAIN listed \subseteq Paths BY <1>1 DEF IInv, RestType
<1>3. task' = [Resting EXCEPT !.pc = "batch", !.dump = listed, !.left = DOMAIN listed \ Ignored]
  BY DEF StartDump, listed
<1>4. /\ task'.dump = listed /\ task'.left = DOMAIN listed \ Ignored /\ task'.needs = {}
      /\ task'.pc = "batch" /\ task' \in TaskType
  BY <1>1, <1>2, <1>3, AbsentTyped DEF Resting, TaskType
<1>5. DumpTyped' /\ IgnoredStayOut' BY <1>4 DEF DInv, DumpTyped, IgnoredStayOut, StartDump
<1>6. InHandListed' /\ Progress' BY <1>4 DEF InHandListed, Progress
<1> QED BY <1>5, <1>6 DEF DInv

LEMMA CompareSafe == DInv /\ CompareWithMapping => DInv'
<1> SUFFICES ASSUME DInv, CompareWithMapping PROVE DInv' OBVIOUS
<1>c. PICK b \in BatchOf(task.left) : \E refused \in Refused(Outdated(mapping, b)) :
        /\ mapping' = Touched(mapping, b, refused)
        /\ LET needs == b \ ExistingIn(mapping, b)
           IN  task' = [task EXCEPT !.left = @ \ b, !.refused = @ \cup refused, !.needs = needs,
                                    !.pc = IF needs = {} THEN "batch" ELSE "query"]
  BY DEF CompareWithMapping
<1> DEFINE needs == b \ ExistingIn(mapping, b)
           to == IF needs = {} THEN "batch" ELSE "query"
           rest == task.left \ b
<1>d. PICK refused \in Refused(Outdated(mapping, b)) :
        /\ mapping' = Touched(mapping, b, refused)
        /\ task' = [task EXCEPT !.left = rest, !.refused = @ \cup refused, !.needs = needs, !.pc = to]
  BY <1>c
<1>1. b \subseteq task.left BY DEF BatchOf
<1>2. b \in SUBSET DOMAIN task.dump /\ b \subseteq Paths
  BY <1>1, DumpedTyped DEF DInv, InHandListed
<1>3. mapping \in [Paths -> IndexEntry] /\ task \in TaskType /\ UNCHANGED dark
  BY DEF DInv, DumpTyped, CompareWithMapping
<1>4. refused \subseteq Paths BY <1>2, <1>3, TouchedIndex DEF Refused
<1>5. /\ rest = task.left \ b /\ rest \subseteq task.left /\ to \in {"query", "batch"}
      /\ needs \subseteq b /\ (\A f \in b : f \in needs <=> ~mapping[f].there)
      /\ needs # {} => to = "query"
  BY DEF ExistingIn
<1> HIDE DEF needs, to, rest
<1>6. /\ task'.left = rest /\ task'.needs = needs /\ task'.pc = to
      /\ task'.dump = task.dump /\ task'.failed = task.failed /\ task' \in TaskType
      /\ task'.refused = task.refused \cup refused
  BY <1>d, <1>2, <1>3, <1>4, <1>5 DEF TaskType
<1>7. /\ mapping' \in [Paths -> IndexEntry]
      /\ \A f \in Paths : mapping'[f].there = mapping[f].there
      /\ \A f \in Paths \ b : mapping'[f] = mapping[f]
      /\ \A f \in b \ refused : mapping[f].there => mapping'[f].atime = task.dump[f]
  BY <1>d, <1>2, <1>3, TouchedIndex
<1>8. DumpTyped' BY <1>3, <1>6, <1>7 DEF DInv, DumpTyped
<1>9. InHandListed'
  <2>1. \A f \in needs : ~mapping'[f].there BY <1>2, <1>5, <1>7
  <2> QED BY <1>1, <1>5, <1>6, <2>1 DEF DInv, InHandListed
<1>10. IgnoredStayOut' BY <1>3, <1>7, BatchAssumption DEF DInv, IgnoredStayOut
<1>11. Progress'
  <2> SUFFICES ASSUME ~task.failed, NEW f \in DOMAIN task.dump \ Ignored
               PROVE  (f \in task.left \/ Asked(f) \/ Covered(f))'
    BY <1>6 DEF Progress
  <2>1. f \in Paths BY DumpedTyped DEF DInv
  <2>2. f \in task.left \/ Covered(f) BY DEF DInv, Progress, Asked, CompareWithMapping
  <2>3. CASE f \in b /\ mapping[f].there BY <1>6, <1>7, <2>1, <2>3 DEF Covered
  <2>4. CASE f \in b /\ ~mapping[f].there BY <1>5, <1>6, <2>4 DEF Asked
  <2>5. CASE f \notin b
    <3>1. mapping'[f] = mapping[f] BY <1>7, <2>1, <2>5
    <3> QED BY <1>3, <1>5, <1>6, <2>2, <2>5, <3>1 DEF Covered
  <2> QED BY <2>3, <2>4, <2>5
<1> QED BY <1>8, <1>9, <1>10, <1>11 DEF DInv

LEMMA QuerySafe == DInv /\ IInv /\ QueryDatabase => DInv'
<1> SUFFICES ASSUME DInv, IInv, QueryDatabase PROVE DInv' OBVIOUS
<1> DEFINE found == RecordsByPaths(task.needs)
<1>1. found \subseteq Paths \X (Values \cup {"none"})
  <2>1. task.needs \subseteq Paths BY DEF DInv, DumpTyped, TaskType
  <2>2. \A u \in Uuids : rows[u].json.value \in Values \cup {"none"}
    BY DEF IInv, RowsType, RowType, JsonType
  <2> QED BY <2>1, <2>2 DEF RecordsByPaths
<1> HIDE DEF found
<1>2. task.pc = "query" /\ task' = [task EXCEPT !.pc = "write", !.inDb = found]
  BY DEF QueryDatabase, found
<1>3. task \in TaskType BY DEF DInv, DumpTyped
<1>4. /\ task'.left = task.left /\ task'.needs = task.needs /\ task'.pc = "write"
      /\ task'.dump = task.dump /\ task'.failed = task.failed /\ task' \in TaskType
      /\ task'.refused = task.refused
  BY <1>1, <1>2, <1>3 DEF TaskType
<1>5. UNCHANGED <<mapping, dark>> BY DEF QueryDatabase
<1>6. DumpTyped' /\ InHandListed' /\ IgnoredStayOut'
  BY <1>4, <1>5 DEF DInv, DumpTyped, InHandListed, IgnoredStayOut
<1>7. Progress' BY <1>2, <1>4, <1>5 DEF DInv, Progress, Asked, Covered
<1> QED BY <1>6, <1>7 DEF DInv

\* What becomes of the indices when the items in done are written: only the
\* files that the database was asked for are concerned, and with all the items
\* each of them ends in one index.
LEMMA IndexesWritten ==
    ASSUME DInv, NEW done \in SUBSET Items, NEW refused, Indexes(done, refused)
    PROVE  /\ mapping' \in [Paths -> IndexEntry] /\ dark' \in [Paths -> IndexEntry]
           /\ \A f \in Paths \ task.needs : mapping'[f] = mapping[f] /\ dark'[f] = dark[f]
           /\ done = Items => \A f \in Found :
                mapping'[f].there /\ ~dark'[f].there /\ mapping'[f].atime = task.dump[f]
           /\ done = Items => \A f \in task.needs \ Found :
                /\ ~mapping'[f].there /\ dark'[f].there
                /\ dark'[f].atime = task.dump[f] \/ f \in refused
<1> DEFINE old == Touched(dark, SeenAgain, refused)
           NewMapping(owner) == [f \in Paths |-> IF <<"map", f>> \in done
                         THEN [there |-> TRUE, value |-> owner[f], atime |-> task.dump[f]]
                         ELSE mapping[f]]
           newDark == [f \in Paths |->
                       IF <<"undark", f>> \in done THEN Absent
                       ELSE IF <<"dark", f>> \in done
                            THEN [there |-> TRUE, value |-> "none", atime |-> task.dump[f]]
                            ELSE old[f]]
<1>1. PICK owner \in [Found -> Values \cup {"none"}] : mapping' = NewMapping(owner)
  BY DEF Indexes, TransformFromDb
<1>2. dark' = newDark BY DEF Indexes, TransformDarkFile
<1>3. /\ task.needs \subseteq DOMAIN task.dump /\ task.needs \subseteq Paths
      /\ Found \subseteq task.needs
      /\ \A f \in task.needs : task.dump[f] \in 0..1 /\ ~mapping[f].there
  BY DumpedTyped DEF DInv, InHandListed, Found
<1>4. mapping \in [Paths -> IndexEntry] /\ dark \in [Paths -> IndexEntry]
  BY DEF DInv, DumpTyped
<1>5. SeenAgain \in SUBSET DOMAIN task.dump /\ SeenAgain \subseteq task.needs \ Found
      /\ \A f \in task.needs \ Found : dark[f].there =>
            f \in SeenAgain \/ dark[f].atime = task.dump[f]
  BY <1>3 DEF SeenAgain, Outdated, ExistingIn
<1>6. /\ old \in [Paths -> IndexEntry]
      /\ \A f \in Paths : old[f].there = dark[f].there
      /\ \A f \in Paths \ SeenAgain : old[f] = dark[f]
      /\ \A f \in SeenAgain \ refused : dark[f].there => old[f].atime = task.dump[f]
  <2>1. SeenAgain \in SUBSET DOMAIN task.dump BY <1>5
  <2> DEFINE paths == SeenAgain
  <2> HIDE DEF paths
  <2>2. paths \in SUBSET DOMAIN task.dump BY <2>1 DEF paths
  <2>3. /\ Touched(dark, paths, refused) \in [Paths -> IndexEntry]
        /\ \A f \in Paths : Touched(dark, paths, refused)[f].there = dark[f].there
        /\ \A f \in Paths \ paths : Touched(dark, paths, refused)[f] = dark[f]
        /\ \A f \in paths \ refused : dark[f].there =>
                Touched(dark, paths, refused)[f].atime = task.dump[f]
    BY <1>4, <2>2, TouchedIndex
  <2> QED BY <2>3 DEF paths
<1>7. \A f : /\ <<"map", f>> \in Items <=> f \in Found
             /\ <<"undark", f>> \in Items <=> f \in Found /\ dark[f].there
             /\ <<"dark", f>> \in Items <=> f \in task.needs \ Found /\ ~dark[f].there
  BY DEF Items, NoLongerDark, NotDark
<1> HIDE DEF old
<1>8. ASSUME NEW f \in Paths
      PROVE  /\ mapping'[f] \in IndexEntry /\ dark'[f] \in IndexEntry
             /\ f \notin task.needs => mapping'[f] = mapping[f] /\ dark'[f] = dark[f]
             /\ done = Items /\ f \in Found =>
                   mapping'[f].there /\ ~dark'[f].there /\ mapping'[f].atime = task.dump[f]
             /\ done = Items /\ f \in task.needs \ Found =>
                   /\ ~mapping'[f].there /\ dark'[f].there
                   /\ dark'[f].atime = task.dump[f] \/ f \in refused
  <2>1. mapping'[f] = IF <<"map", f>> \in done
                      THEN [there |-> TRUE, value |-> owner[f], atime |-> task.dump[f]]
                      ELSE mapping[f]
    BY <1>1
  <2>2. dark'[f] = IF <<"undark", f>> \in done THEN Absent
                   ELSE IF <<"dark", f>> \in done
                        THEN [there |-> TRUE, value |-> "none", atime |-> task.dump[f]]
                        ELSE old[f]
    BY <1>2
  <2>3. mapping[f] \in IndexEntry /\ old[f] \in IndexEntry /\ old[f].there = dark[f].there
    BY <1>4, <1>6
  <2>4. CASE f \notin task.needs
    <3>1. old[f] = dark[f] BY <1>5, <1>6, <2>4
    <3>2. <<"map", f>> \notin done /\ <<"undark", f>> \notin done /\ <<"dark", f>> \notin done
      BY <1>3, <1>7, <2>4
    <3> QED BY <1>3, <2>1, <2>2, <2>3, <2>4, <3>1, <3>2
  <2>5. CASE f \in Found
    <3>1. owner[f] \in Values \cup {"none"} /\ f \in task.needs BY <1>3, <2>5
    <3>2. <<"dark", f>> \notin done BY <1>7, <2>5
    <3> QED BY <1>3, <1>7, <2>1, <2>2, <2>3, <2>5, <3>1, <3>2 DEF IndexEntry, Absent
  <2>6. CASE f \in task.needs \ Found
    <3>1. <<"map", f>> \notin done /\ <<"undark", f>> \notin done BY <1>7, <2>6
    <3>2. dark[f].there => old[f].atime = task.dump[f] \/ f \in refused
      BY <1>5, <1>6, <2>6
    <3> QED BY <1>3, <1>7, <2>1, <2>2, <2>3, <2>6, <3>1, <3>2 DEF IndexEntry
  <2> QED BY <2>4, <2>5, <2>6
<1>9. mapping' \in [Paths -> IndexEntry] /\ dark' \in [Paths -> IndexEntry] BY <1>1, <1>2, <1>8
<1> QED BY <1>3, <1>8, <1>9

LEMMA WriteSafe == DInv /\ WriteIndices => DInv'
<1> SUFFICES ASSUME DInv, WriteIndices PROVE DInv' OBVIOUS
<1>1. PICK refused \in Refused(SeenAgain) :
        /\ Indexes(Items, refused)
        /\ task' = [task EXCEPT !.pc = "batch", !.needs = {}, !.inDb = {},
                                !.refused = @ \cup refused]
  BY DEF WriteIndices
<1>2. /\ task \in TaskType /\ task.needs \subseteq DOMAIN task.dump
      /\ dark \in [Paths -> IndexEntry]
  BY DEF DInv, DumpTyped, InHandListed
<1>3. refused \subseteq Paths
  <2>1. task.needs \ Found \in SUBSET DOMAIN task.dump BY <1>2
  <2>2. SeenAgain \subseteq Paths BY <1>2, <2>1, TouchedIndex DEF SeenAgain
  <2> QED BY <1>1, <2>2 DEF Refused
<1>4. /\ task'.left = task.left /\ task'.needs = {} /\ task'.pc = "batch"
      /\ task'.dump = task.dump /\ task'.failed = task.failed /\ task' \in TaskType
      /\ task'.refused = task.refused \cup refused
  BY <1>1, <1>2, <1>3 DEF TaskType
<1>5. Items \in SUBSET Items OBVIOUS
<1>6. /\ mapping' \in [Paths -> IndexEntry] /\ dark' \in [Paths -> IndexEntry]
      /\ \A f \in Paths \ task.needs : mapping'[f] = mapping[f] /\ dark'[f] = dark[f]
      /\ \A f \in Found : mapping'[f].there /\ mapping'[f].atime = task.dump[f]
      /\ \A f \in task.needs \ Found :
           /\ ~mapping'[f].there /\ dark'[f].there
           /\ dark'[f].atime = task.dump[f] \/ f \in refused
  BY <1>1, <1>5, IndexesWritten
<1>7. DumpTyped' BY <1>4, <1>6 DEF DumpTyped
<1>8. InHandListed' BY <1>4 DEF DInv, InHandListed
<1>9. IgnoredStayOut'
  <2>1. \A f \in Ignored : f \in Paths \ task.needs
    BY BatchAssumption DEF DInv, InHandListed
  <2> QED BY <1>6, <2>1 DEF DInv, IgnoredStayOut
<1>10. Progress'
  <2> SUFFICES ASSUME ~task.failed, NEW f \in DOMAIN task.dump \ Ignored
               PROVE  (f \in task.left \/ Asked(f) \/ Covered(f))'
    BY <1>4 DEF Progress
  <2>1. f \in Paths BY DumpedTyped DEF DInv
  <2>2. f \in task.left \/ Asked(f) \/ Covered(f) BY DEF DInv, Progress
  <2>3. CASE f \in Found BY <1>4, <1>6, <2>3 DEF Covered
  <2>4. CASE f \in task.needs \ Found BY <1>4, <1>6, <2>4 DEF Covered
  <2>5. CASE f \notin task.needs
    <3>1. mapping'[f] = mapping[f] /\ dark'[f] = dark[f] BY <1>6, <2>1, <2>5
    <3> QED BY <1>4, <2>2, <2>5, <3>1 DEF Asked, Covered
  <2> QED BY <2>3, <2>4, <2>5
<1> QED BY <1>7, <1>8, <1>9, <1>10 DEF DInv

\* A batch that raises may write any of its items, for its own files.
LEMMA BatchFailsSafe == DInv /\ BatchFails => DInv'
<1> SUFFICES ASSUME DInv, BatchFails PROVE DInv' OBVIOUS
<1>1. task \in TaskType BY DEF DInv, DumpTyped
<1>2. /\ task'.left = task.left /\ task'.needs = {} /\ task'.pc = "batch"
      /\ task'.dump = task.dump /\ task'.failed /\ task' \in TaskType
  BY <1>1 DEF BatchFails, TaskType
<1>3. PICK done \in SUBSET Items, refused \in SUBSET SeenAgain : Indexes(done, refused)
  BY DEF BatchFails
<1>4. /\ mapping' \in [Paths -> IndexEntry] /\ dark' \in [Paths -> IndexEntry]
      /\ \A f \in Paths \ task.needs : mapping'[f] = mapping[f] /\ dark'[f] = dark[f]
  BY <1>3, IndexesWritten
<1>5. DumpTyped' /\ InHandListed' /\ Progress'
  BY <1>2, <1>4 DEF DInv, DumpTyped, InHandListed, Progress
<1>6. IgnoredStayOut'
  <2>1. \A f \in Ignored : f \in Paths \ task.needs
    BY BatchAssumption DEF DInv, InHandListed
  <2> QED BY <1>4, <2>1 DEF DInv, IgnoredStayOut
<1> QED BY <1>5, <1>6 DEF DInv

LEMMA CompareFailsSafe == DInv /\ CompareFails => DInv'
<1> SUFFICES ASSUME DInv, CompareFails PROVE DInv' OBVIOUS
<1>1. PICK b \in BatchOf(task.left) : \E refused \in SUBSET Outdated(mapping, b) :
        /\ mapping' = Touched(mapping, b, refused)
        /\ task' = [task EXCEPT !.left = @ \ b, !.failed = TRUE]
  BY DEF CompareFails
<1>2. PICK refused : mapping' = Touched(mapping, b, refused) BY <1>1
<1>3. task \in TaskType /\ mapping \in [Paths -> IndexEntry] /\ UNCHANGED dark
  BY DEF DInv, DumpTyped, CompareFails
<1>4. /\ task'.left = task.left \ b /\ task'.needs = task.needs /\ task'.pc = task.pc
      /\ task'.dump = task.dump /\ task'.failed /\ task' \in TaskType
  BY <1>1, <1>3 DEF TaskType
<1>5. b \in SUBSET DOMAIN task.dump BY DEF BatchOf, DInv, InHandListed
<1>6. /\ mapping' \in [Paths -> IndexEntry]
      /\ \A f \in Paths : mapping'[f].there = mapping[f].there
  BY <1>2, <1>3, <1>5, TouchedIndex
<1>7. DumpTyped' /\ Progress' BY <1>3, <1>4, <1>6 DEF DInv, DumpTyped, Progress
<1>8. InHandListed'
  <2>1. task.needs \subseteq Paths BY <1>3 DEF TaskType
  <2> QED BY <1>4, <1>6, <2>1 DEF DInv, InHandListed
<1>9. IgnoredStayOut' BY <1>3, <1>6, BatchAssumption DEF DInv, IgnoredStayOut
<1> QED BY <1>7, <1>8, <1>9 DEF DInv

LEMMA EndSafe == DInv /\ (EndDump \/ Rest) => DInv'
<1>1. ASSUME DInv, EndDump PROVE DInv'
  <2>1. task \in TaskType BY <1>1 DEF DInv, DumpTyped
  <2>2. /\ task'.left = task.left /\ task'.needs = task.needs /\ task.left = {}
        /\ task.pc = "batch" /\ task'.dump = task.dump /\ task'.failed = task.failed
        /\ task'.refused = task.refused /\ task' \in TaskType
    BY <1>1, <2>1 DEF EndDump, TaskType
  <2>3. UNCHANGED <<mapping, dark>> BY <1>1 DEF EndDump
  <2>4. Progress' BY <1>1, <2>2, <2>3 DEF DInv, Progress, Asked, Covered
  <2> QED BY <1>1, <2>2, <2>3, <2>4 DEF DInv, DumpTyped, InHandListed, IgnoredStayOut
<1>2. ASSUME DInv, Rest PROVE DInv'
  <2>1. /\ task' = Resting /\ UNCHANGED <<mapping, dark>> BY <1>2 DEF Rest
  <2>2. task' \in TaskType BY <2>1, AbsentTyped
  <2>3. InHandListed' /\ Progress' BY <2>1 DEF Resting, InHandListed, Progress
  <2> QED BY <1>2, <2>1, <2>2, <2>3 DEF DInv, DumpTyped, IgnoredStayOut
<1> QED BY <1>1, <1>2

LEMMA DumpNext == DInv /\ IInv /\ [Next]_vars => DInv'
<1> SUFFICES ASSUME DInv, IInv, [Next]_vars PROVE DInv' OBVIOUS
<1>1. ASSUME UNCHANGED <<mapping, dark, task>> PROVE DInv'
  BY <1>1 DEF DInv, DumpTyped, InHandListed, IgnoredStayOut, Progress, Asked, Covered
<1>2. ASSUME NEW f \in Paths, Access(f) PROVE DInv' BY <1>1, <1>2 DEF Access
<1>3. ASSUME UNCHANGED vars \/ UNCHANGED dumpVars PROVE DInv' BY <1>1, <1>3 DEF vars, dumpVars
<1> QED
  BY <1>2, <1>3, StartDumpSafe, CompareSafe, QuerySafe, WriteSafe, BatchFailsSafe,
     CompareFailsSafe, EndSafe
  DEF Next, Dump

-----------------------------------------------------------------------------
(* What the task promises.                                                  *)

\* A dump that reports no failed batch covers each of its files, whatever the
\* commands do to the catalogue meanwhile (process_eos_dump).
THEOREM DumpsCover == Spec => []DumpCovered
<1>1. Spec => []IInv BY TaskOnlyReads, CatalogueSound, PTL
<1>2. Spec => []DInv BY <1>1, DumpInit, DumpNext, PTL DEF Spec
<1>3. DInv => DumpCovered
  <2> SUFFICES ASSUME DInv PROVE DumpCovered OBVIOUS
  <2>1. \A f \in Ignored : ~mapping[f].there /\ ~dark[f].there BY DEF DInv, IgnoredStayOut
  <2>2. ASSUME task.pc = "done", ~task.failed, NEW f \in DOMAIN task.dump \ Ignored
        PROVE  Covered(f)
    BY <2>2 DEF DInv, InHandListed, Progress, Asked
  <2> QED BY <2>1, <2>2 DEF DumpCovered, Covered
<1> QED BY <1>2, <1>3, PTL

\* No step but a failing batch enters a file in both indices, whatever the
\* commands have done since the database was asked (_process_batch).
LEMMA StepsDoNotDouble ==
    ASSUME DInv, [Next]_vars, NEW f \in Paths, InBoth(f)'
    PROVE  InBoth(f) \/ task'.failed
<1>1. mapping \in [Paths -> IndexEntry] /\ dark \in [Paths -> IndexEntry] /\ task \in TaskType
  BY DEF DInv, DumpTyped
<1>2. ASSUME UNCHANGED <<mapping, dark>> PROVE InBoth(f) BY <1>2 DEF InBoth
<1>3. ASSUME CompareWithMapping PROVE InBoth(f)
  <2>1. PICK b \in BatchOf(task.left) : \E refused : mapping' = Touched(mapping, b, refused)
    BY <1>3 DEF CompareWithMapping
  <2>2. b \in SUBSET DOMAIN task.dump /\ dark' = dark
    BY <1>3 DEF BatchOf, DInv, InHandListed, CompareWithMapping
  <2>3. mapping'[f].there = mapping[f].there BY <1>1, <2>1, <2>2, TouchedIndex
  <2> QED BY <2>2, <2>3 DEF InBoth
<1>4. ASSUME WriteIndices PROVE InBoth(f)
  <2>1. PICK refused : Indexes(Items, refused) BY <1>4 DEF WriteIndices
  <2>2. Items \in SUBSET Items OBVIOUS
  <2>3. /\ f \notin task.needs => mapping'[f] = mapping[f] /\ dark'[f] = dark[f]
        /\ f \in Found => ~dark'[f].there
        /\ f \in task.needs \ Found => ~mapping'[f].there
    BY <2>1, <2>2, IndexesWritten
  <2> QED BY <2>3 DEF InBoth
<1>5. ASSUME CompareFails \/ BatchFails PROVE task'.failed
  BY <1>1, <1>5 DEF CompareFails, BatchFails, TaskType
<1>6. CASE StartDump \/ QueryDatabase \/ EndDump \/ Rest
  BY <1>2, <1>6 DEF StartDump, QueryDatabase, EndDump, Rest
<1>7. CASE (\E g \in Paths : Access(g)) \/ UNCHANGED dumpVars \/ UNCHANGED vars
  BY <1>2, <1>7 DEF Access, dumpVars, vars
<1> QED BY <1>3, <1>4, <1>5, <1>6, <1>7 DEF Next, Dump

\* For any batch size, any interleaving with the commands and every set of
\* faults: a file only becomes an entry of both indices in a dump that reports a
\* failed batch (_process_batch).
THEOREM NeverDoubled == Spec => OnlyFailuresDouble
<1>1. Spec => []IInv BY TaskOnlyReads, CatalogueSound, PTL
<1>2. Spec => []DInv BY <1>1, DumpInit, DumpNext, PTL DEF Spec
<1>3. DInv /\ [Next]_vars => [\A f \in Paths : InBoth(f)' => InBoth(f) \/ task'.failed]_vars
  BY StepsDoNotDouble
<1> QED BY <1>2, <1>3, PTL DEF Spec, OnlyFailuresDouble

\* Nor does the task change anything about the files of records that are gone.
THEOREM FilesAreHeldMeanwhile ==
    ASSUME \A k, l \in Loaders : k = l
    PROVE  Spec => []PathsHeld
BY TaskOnlyReads, FilesAreHeld, PTL

=============================================================================
