------------------------------ MODULE EosDump ------------------------------
(* The daily task process_eos_dump (cernopendata/tasks.py) next to the      *)
(* commands that fill the catalogue: every file that a dump of EOS lists is *)
(* put in one of two search indices, the mapping from files to records or,  *)
(* when no record has it, the dark files.                                   *)
EXTENDS Catalogue

CONSTANTS
    Ignored,        \* the paths below /upload/
    BatchSize,      \* BATCH_SIZE
    Opened,         \* the files that somebody may read on EOS
    DumpFaults      \* what may go wrong in this instance

ASSUME BatchAssumption == BatchSize \in Nat \ {0} /\ Ignored \subseteq Paths /\ Opened \subseteq Paths
ASSUME DumpFaultsAssumption == DumpFaults \subseteq {"batch_fails", "update_fails"}

VARIABLES
    mapping,        \* the records-recid_mapping index
    dark,           \* the dark-files index
    accessed,       \* the files that have been read on EOS
    task            \* the task that runs

dumpVars == <<mapping, dark, accessed, task>>
vars == <<catalogueVars, dumpVars>>

-----------------------------------------------------------------------------

Absent == [there |-> FALSE, value |-> "none", atime |-> 0]
Resting == [pc |-> "idle", dump |-> <<>>, left |-> {}, needs |-> {}, inDb |-> {},
            failed |-> FALSE, refused |-> {}]

\* The times of access are 0 and, once the file has been read, 1.
Dumped == [f \in hot |-> IF f \in accessed THEN 1 ELSE 0]

\* (mutant) the buckets of the file indices are not joined.
RecordsOfOwnBuckets(paths) ==
    {<<o[1], rows[o[2]].json.value>> :
        o \in {p \in paths \X Uuids : p[1] \in store[p[2]].keys \cap rows[p[2]].json.files}}

\* _get_records_by_paths: the versions of the objects with their records, also
\* those that the session has committed a moment ago.
RecordsByPaths(paths) ==
    {<<o[1], rows[o[2]].json.value>> :
        o \in {p \in paths \X Uuids : p[1] \in store[p[2]].keys \cup store[p[2]].older}}

\* _get_existing_mapping_info: the paths that an index has.
ExistingIn(index, paths) == {f \in paths : index[f].there}

Outdated(index, paths) == {f \in ExistingIn(index, paths) : index[f].atime # task.dump[f]}

\* _update_last_accessed: the paths of an index whose time has changed, except
\* for those that the index refuses, which is only logged.
Touched(index, paths, refused) ==
    [f \in Paths |-> IF f \in Outdated(index, paths) \ refused
                     THEN [index[f] EXCEPT !.atime = task.dump[f]] ELSE index[f]]
Refused(paths) == IF "update_fails" \in DumpFaults THEN SUBSET paths ELSE {{}}

\* _transform_from_db, and _transform_dark_file of a file without record.
TransformFromDb(f, value) == [there |-> TRUE, value |-> value, atime |-> task.dump[f]]
TransformDarkFile(f) == [there |-> TRUE, value |-> "none", atime |-> task.dump[f]]

-----------------------------------------------------------------------------
(* The task.                                                                *)

StartDump ==
    /\ task.pc = "idle"
    /\ task' = [Resting EXCEPT !.pc = "batch", !.dump = Dumped, !.left = DOMAIN Dumped \ Ignored]
    /\ UNCHANGED <<catalogueVars, mapping, dark, accessed>>

\* The next batch, which is only smaller when nothing else is left.
BatchOf(left) ==
    {b \in SUBSET left : Cardinality(b) = BatchSize \/ (b = left /\ 0 < Cardinality(b)
                                                       /\ Cardinality(b) < BatchSize)}

\* The batch is compared with the mapping, whose times are brought up to date;
\* only when it has files that are not there is the database asked.
CompareWithMapping ==
    \E b \in BatchOf(task.left) : \E refused \in Refused(Outdated(mapping, b)) :
        /\ task.pc = "batch"
        /\ mapping' = Touched(mapping, b, refused)
        /\ LET needs == b \ ExistingIn(mapping, b)
           IN  task' = [task EXCEPT !.left = @ \ b, !.refused = @ \cup refused, !.needs = needs,
                                    !.pc = IF needs = {} THEN "batch" ELSE "query"]
        /\ UNCHANGED <<catalogueVars, dark, accessed>>

QueryDatabase ==
    /\ task.pc = "query"
    /\ task' = [task EXCEPT !.pc = "write", !.inDb = RecordsByPaths(task.needs)]
    /\ UNCHANGED <<catalogueVars, mapping, dark, accessed>>

\* (mutant) the files that are no longer dark are left among the dark ones.
NoLongerDarkKept(found) == {}

NoLongerDark(found) == {f \in found : dark[f].there}

\* The files with a record go to the mapping and out of the dark files, the
\* others become or stay dark.
Found == {f \in task.needs : \E r \in task.inDb : r[1] = f}
NotDark == {f \in task.needs \ Found : ~dark[f].there}
Items == {<<"map", f>> : f \in Found} \cup {<<"undark", f>> : f \in NoLongerDark(Found)}
         \cup {<<"dark", f>> : f \in NotDark}
SeenAgain == Outdated(dark, task.needs \ Found)

\* The indices after those of the items that are done.
Indexes(done, refused) ==
    LET old == Touched(dark, SeenAgain, refused)
    IN  /\ \E owner \in [Found -> Values \cup {"none"}] :
             /\ \A f \in Found : <<f, owner[f]>> \in task.inDb
             /\ mapping' = [f \in Paths |-> IF <<"map", f>> \in done
                                            THEN TransformFromDb(f, owner[f]) ELSE mapping[f]]
        /\ dark' = [f \in Paths |-> IF <<"undark", f>> \in done THEN Absent
                                    ELSE IF <<"dark", f>> \in done THEN TransformDarkFile(f)
                                    ELSE old[f]]

WriteIndices ==
    /\ task.pc = "write"
    /\ \E refused \in Refused(SeenAgain) :
          /\ Indexes(Items, refused)
          /\ task' = [task EXCEPT !.pc = "batch", !.needs = {}, !.inDb = {},
                                  !.refused = @ \cup refused]
    /\ UNCHANGED <<catalogueVars, accessed>>

\* A batch that raises is logged, and the next one is processed.  bulk sends
\* the items in chunks of 500 and raises after the first chunk with an item that
\* is refused: any of the items may have been done, and so may the updates.
CompareFails ==
    /\ task.pc = "batch" /\ "batch_fails" \in DumpFaults
    /\ \E b \in BatchOf(task.left) : \E refused \in SUBSET Outdated(mapping, b) :
          /\ mapping' = Touched(mapping, b, refused)
          /\ task' = [task EXCEPT !.left = @ \ b, !.failed = TRUE]
    /\ UNCHANGED <<catalogueVars, dark, accessed>>

BatchFails ==
    /\ task.pc \in {"query", "write"} /\ "batch_fails" \in DumpFaults
    /\ \E done \in SUBSET Items, refused \in SUBSET SeenAgain :
          /\ task.pc = "query" => done = {} /\ refused = SeenAgain
          /\ Indexes(done, refused)
    /\ task' = [task EXCEPT !.pc = "batch", !.needs = {}, !.inDb = {}, !.failed = TRUE]
    /\ UNCHANGED <<catalogueVars, accessed>>

\* (mutant) what is left after the last whole batch is forgotten.
EndDumpShort ==
    /\ task.pc = "batch" /\ Cardinality(task.left) < BatchSize
    /\ task' = [task EXCEPT !.pc = "done"]
    /\ UNCHANGED <<catalogueVars, mapping, dark, accessed>>

EndDump ==
    /\ task.pc = "batch" /\ task.left = {}
    /\ task' = [task EXCEPT !.pc = "done"]
    /\ UNCHANGED <<catalogueVars, mapping, dark, accessed>>

Rest == /\ task.pc = "done" /\ task' = Resting
        /\ UNCHANGED <<catalogueVars, mapping, dark, accessed>>

\* Somebody reads a file on EOS.
Access(f) ==
    /\ f \in (hot \cap Opened) \ accessed /\ accessed' = accessed \cup {f}
    /\ UNCHANGED <<catalogueVars, mapping, dark, task>>

-----------------------------------------------------------------------------

Dump == \/ StartDump \/ CompareWithMapping \/ QueryDatabase
        \/ WriteIndices \/ EndDump \/ Rest

Init ==
    /\ CatalogueInit
    /\ mapping = [f \in Paths |-> Absent] /\ dark = [f \in Paths |-> Absent]
    /\ accessed = {} /\ task = Resting

Next ==
    \/ Dump \/ CompareFails \/ BatchFails \/ \E f \in Paths : Access(f)
    \/ CatalogueNext /\ UNCHANGED dumpVars

\* Celery starts the task every night, and it runs to its end; batches may fail
\* in any dump, but not in every dump from some night on.
Spec == /\ Init /\ [][Next]_vars /\ WF_vars(Dump)
        /\ []<>(task.pc = "done" /\ ~task.failed)

-----------------------------------------------------------------------------
(* What the task promises.                                                  *)

InBoth(f) == mapping[f].there /\ dark[f].there

\* A file that is found in the database leaves the dark files when it enters
\* the mapping: only in a dump that reports a failed batch can a file become an
\* entry of both (_process_batch).
OnlyFailuresDouble ==
    [][\A f \in Paths : InBoth(f)' => InBoth(f) \/ task'.failed]_vars

\* A dump that reports no failed batch leaves each of its files in one of the
\* indices, with the time of access of the dump unless it has logged that the
\* index refused it; and no dump ever enters a file that is ignored.
DumpCovered ==
    /\ task.pc = "done" /\ ~task.failed =>
        \A f \in DOMAIN task.dump \ Ignored :
            LET entry == IF mapping[f].there THEN mapping[f] ELSE dark[f]
            IN  entry.there /\ (entry.atime = task.dump[f] \/ f \in task.refused)
    /\ \A f \in Ignored : ~mapping[f].there /\ ~dark[f].there

\* A file that a record has, and keeps, and that stays on EOS is found in the
\* mapping in the end, whatever becomes of the batches that it is in first.
CataloguedIsMapped ==
    \A f \in Paths \ Ignored :
        (\E u \in Live : f \in store[u].keys) ~>
            \/ mapping[f].there \/ f \notin hot \/ ~\E u \in Live : f \in store[u].keys

=============================================================================
