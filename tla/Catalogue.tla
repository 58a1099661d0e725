----------------------------- MODULE Catalogue -----------------------------
(* The catalogue of the portal and the commands that fill it: `cernopendata *)
(* fixtures records|docs|glossary` (modules/fixtures/cli.py), the file      *)
(* indices (api.py) and `cernopendata datacite` (modules/datacite).         *)
(*                                                                          *)
(* A command takes its entries one by one.  The session of SQLAlchemy only  *)
(* writes when it commits, so that an entry is read in one step and written *)
(* in another one; a record that is replaced with its files is committed    *)
(* twice, and the search index is only written after the last commit.       *)
EXTENDS Naturals, FiniteSets, Sequences, Functions

CONSTANTS
    Uuids,          \* the rows that may ever be created
    Paths,          \* the files on EOS, by their URI
    Content,        \* the files that each index.json lists
    TextIndices,    \* the files of the type index.txt
    Filename,       \* the last part of each URI, which is the key of the object
    Loaders,        \* the processes that run a command
    Commands,       \* the commands that they run
    MaxCommands,    \* how many commands are run in all
    Faults          \* what may go wrong in this instance

\* What data says of its files: they may be missing altogether.
NoFiles == {"no files"}

\* An entry that is empty in the file.
Broken == [broken |-> TRUE]

PidTypes == {"recid", "docid", "termid"}
Modes == {"insert", "replace", "insert-or-replace", "insert-or-skip", "delete", "delete-or-skip"}
AllFaults == {"crash", "index_fails", "commit_fails", "file_fails", "datacite_fails"}

ASSUME CommandsAssumption ==
    \A c \in Commands :
        /\ c.type \in PidTypes /\ c.mode \in Modes /\ c.skip \in BOOLEAN
        /\ c.entries \in Seq(Range(c.entries))
        /\ \A e \in Range(c.entries) \ {Broken} :
              /\ e.value # "none"
              /\ e.files \subseteq Paths \cup DOMAIN Content \cup TextIndices \cup NoFiles
ASSUME ContentAssumption == \A i \in DOMAIN Content : Content[i] \subseteq Paths
ASSUME FilenameAssumption == Paths \subseteq DOMAIN Filename
ASSUME CatalogueFaultsAssumption == Faults \subseteq AllFaults /\ MaxCommands \in Nat

VARIABLES
    pids,       \* the registered PIDs: to which row they lead
    rows,       \* the rows of records_metadata
    store,      \* the objects in the buckets of each row
    strays,     \* the files that were registered and got no object
    search,     \* the documents of the search index
    hot,        \* the files that are on disk
    dois,       \* each DOI: as a PID, and at DataCite
    local,      \* the state of every loader
    issued      \* how many commands have been started

db == <<pids, rows, store, strays>>
catalogueVars == <<pids, rows, store, strays, search, hot, dois, local, issued>>

-----------------------------------------------------------------------------
(* Entries and rows.                                                        *)

NoStore == [gen |-> 0, keys |-> {}, cleared |-> {}, older |-> {}]
NoJson == [type |-> "none", value |-> "none", content |-> "none", doi |-> "none",
           files |-> NoFiles, seen |-> NoStore, avail |-> "missing"]
NoRow == [state |-> "unused", rev |-> 0, json |-> NoJson]
NoDoc == [rev |-> 0, json |-> NoJson]

Live == {u \in Uuids : rows[u].state = "live"}

Direct(e) == IF e.files = NoFiles THEN {} ELSE e.files \cap Paths

\* FileIndexMetadata.create: the files that the index files of e list.
Indexed(e) == UNION {Content[i] : i \in e.files \cap DOMAIN Content}

\* Record.check_availability, from the files and the file indices.
Availability(s) ==
    IF s.cleared = {} THEN "online" ELSE IF s.cleared = s.keys THEN "on demand" ELSE "partial"

\* Files of one name are versions of one object; the last that is loaded is its
\* head.
Heads(files) ==
    {heads \in SUBSET files :
        /\ \A f \in files : \E h \in heads : Filename[h] = Filename[f]
        /\ \A g, h \in heads : Filename[g] = Filename[h] => g = h}

\* The objects of a record that is loaded with its files, next to the older
\* versions that nobody removes; every entry of a file index has a name of its
\* own.  The files in lost got no object, which is only logged, and stay in the
\* database as strays.
Stored(e, gen, lost, older) ==
    {[gen |-> gen, keys |-> heads \cup Indexed(e), cleared |-> {},
      older |-> older \cup (Direct(e) \ (lost \cup heads))] : heads \in Heads(Direct(e) \ lost)}

\* _handle_record_files: the JSON of an entry whose files are in s.
WithFiles(type, e, s) ==
    [type |-> type, value |-> e.value, content |-> e.content, doi |-> e.doi,
     files |-> IF e.files = NoFiles THEN NoFiles ELSE Direct(e),
     seen |-> s,
     avail |-> IF e.files = NoFiles THEN "given" ELSE Availability(s)]

\* The JSON of an entry that is loaded without looking at its files: what the
\* row knew of them stays, all the other fields are those of the entry.
WithoutFiles(type, e, old) ==
    [type |-> type, value |-> e.value, content |-> e.content, doi |-> e.doi,
     files |-> IF e.files = NoFiles THEN old.files ELSE e.files,
     seen |-> old.seen, avail |-> "missing"]

\* The PIDs of an entry: a record also has one for OAI-PMH.
PidsOf(type, value) ==
    {<<type, value>>} \cup (IF type = "recid" THEN {<<"oai", value>>} ELSE {})

\* FileInstance.uri is unique: the paths that the row u cannot have, because
\* other rows or older versions hold them, or nobody does.
Held(u) == strays \cup UNION {store[w].keys : w \in Uuids \ {u}}
                  \cup UNION {store[w].older : w \in Uuids}

-----------------------------------------------------------------------------
(* The loaders.                                                             *)

\* alone: nobody else has written since the command started.
Idle == [pc |-> "idle", cmd |-> [type |-> "recid", mode |-> "insert", skip |-> FALSE],
         left |-> <<>>, row |-> "none", base |-> 0, body |-> NoJson,
         touched |-> {}, alone |-> TRUE]

Ended == {"idle", "finished"}
Running(l) == local[l].pc \notin Ended
Data(l) == Head(local[l].left)
Cmd(l) == local[l].cmd
KnownPid(l) == <<Cmd(l).type, Data(l).value>>
Becomes(l, loc) == local' = [local EXCEPT ![l] = loc]

\* The command ends here, with an error or an exception: what the session has
\* not committed is lost.
Stop(l) == /\ Becomes(l, Idle)
           /\ UNCHANGED <<db, search, hot, dois, issued>>

\* The command goes on with the entry after this one.
NextEntry(l, value) ==
    [local[l] EXCEPT !.pc = "entry", !.left = Tail(@), !.row = "none", !.base = 0,
                     !.body = NoJson, !.touched = @ \cup value]

Start(l, c) ==
    /\ ~Running(l) /\ issued < MaxCommands
    /\ issued' = issued + 1
    /\ local' = [k \in Loaders |->
                    IF k = l THEN [Idle EXCEPT !.pc = "entry", !.cmd = c, !.left = c.entries,
                                               !.alone = \A o \in Loaders \ {l} : ~Running(o)]
                    ELSE IF Running(k) THEN [local[k] EXCEPT !.alone = FALSE] ELSE Idle]
    /\ UNCHANGED <<db, search, hot, dois>>

Finish(l) ==
    /\ local[l].pc = "entry" /\ local[l].left = <<>>
    /\ Becomes(l, [local[l] EXCEPT !.pc = "finished"])
    /\ UNCHANGED <<db, search, hot, dois, issued>>

AtEntry(l) == local[l].pc = "entry" /\ local[l].left # <<>>
Deleting(l) == Cmd(l).mode \in {"delete", "delete-or-skip"}

\* An entry that is empty is ignored among the records and fatal elsewhere.
Skip(l) ==
    /\ AtEntry(l)
    /\ IF Data(l) = Broken THEN Cmd(l).type = "recid"
       ELSE IF KnownPid(l) \in DOMAIN pids THEN Cmd(l).mode = "insert-or-skip"
       ELSE Cmd(l).mode = "delete-or-skip"
    /\ Becomes(l, NextEntry(l, {}))
    /\ UNCHANGED <<db, search, hot, dois, issued>>

\* The row of the PID is read, if there is one: it may have been deleted.
Refuse(l) ==
    /\ AtEntry(l)
    /\ IF Data(l) = Broken THEN Cmd(l).type # "recid"
       ELSE IF KnownPid(l) \in DOMAIN pids
            THEN \/ Cmd(l).mode = "insert"
                 \/ Cmd(l).mode # "insert-or-skip" /\ pids[KnownPid(l)] \notin Live
            ELSE Cmd(l).mode \in {"replace", "delete"}
    /\ Stop(l)

Read(l) ==
    /\ AtEntry(l) /\ Data(l) # Broken
    /\ IF KnownPid(l) \in DOMAIN pids
       THEN LET u == pids[KnownPid(l)]
            IN  /\ Cmd(l).mode \notin {"insert", "insert-or-skip"} /\ u \in Live
                /\ Becomes(l, [local[l] EXCEPT !.pc = IF Deleting(l) THEN "delete" ELSE "update",
                                               !.row = u, !.base = rows[u].rev])
       ELSE /\ Cmd(l).mode \in {"insert", "insert-or-replace", "insert-or-skip"}
            /\ Becomes(l, [local[l] EXCEPT !.pc = "create"])
    /\ UNCHANGED <<db, search, hot, dois, issued>>

\* The entry is written with its files.
Filed(l) == Cmd(l).type = "recid" /\ ~Cmd(l).skip

\* A file that lacks a field, cannot be read as an index, is listed twice, or is
\* already in another record, ends the transaction.
FilesRefused(l, u) ==
    LET direct == Direct(Data(l))
        indexed == Indexed(Data(l))
    IN  Data(l).bad = "files" \/ direct \cap indexed # {} \/ (direct \cup indexed) \cap Held(u) # {}

Lost(l) == IF "file_fails" \in Faults THEN SUBSET Direct(Data(l)) ELSE {{}}

-----------------------------------------------------------------------------
(* Writing.                                                                 *)

\* create_record, create_doc and create_glossary_term, and the commit.  The
\* PIDs are minted first, and they are unique.
CreateFails(l) ==
    /\ local[l].pc = "create"
    /\ \/ PidsOf(Cmd(l).type, Data(l).value) \cap DOMAIN pids # {}
       \/ Data(l).bad = "schema" \/ "commit_fails" \in Faults
       \/ Filed(l) /\ FilesRefused(l, "none")
    /\ Stop(l)

Create(l) ==
    LET e == Data(l)
        mine == PidsOf(Cmd(l).type, e.value)
    IN  /\ local[l].pc = "create" /\ mine \cap DOMAIN pids = {} /\ e.bad # "schema"
        /\ Filed(l) => ~FilesRefused(l, "none")
        /\ \E u \in Uuids, lost \in Lost(l) :
             \E s \in IF Filed(l) THEN Stored(e, 1, lost, {}) ELSE {NoStore} :
               LET body == IF Filed(l) THEN WithFiles(Cmd(l).type, e, s)
                           ELSE WithoutFiles(Cmd(l).type, e, NoJson)
               IN  /\ rows[u].state = "unused"
                   /\ pids' = [p \in DOMAIN pids \cup mine |-> IF p \in mine THEN u ELSE pids[p]]
                   /\ store' = [store EXCEPT ![u] = s] /\ strays' = strays \cup lost
                   /\ rows' = [rows EXCEPT ![u] = [state |-> "live", rev |-> 1, json |-> body]]
                   /\ Becomes(l, [local[l] EXCEPT !.pc = "index", !.row = u, !.body = body])
        /\ UNCHANGED <<search, hot, dois, issued>>

\* update_record, when the files are not skipped: the heads are removed and
\* created again, without their tags, and the session is committed before the
\* JSON of the record is.
ReplaceFiles(l) ==
    LET u == local[l].row
    IN  /\ local[l].pc = "update" /\ Filed(l) /\ ~FilesRefused(l, u)
        /\ \E lost \in Lost(l) : \E s \in Stored(Data(l), store[u].gen + 1, lost, store[u].older) :
              /\ store' = [store EXCEPT ![u] = s] /\ strays' = strays \cup lost
              /\ Becomes(l, [local[l] EXCEPT !.pc = "written",
                                             !.body = WithFiles(Cmd(l).type, Data(l), s)])
        /\ UNCHANGED <<pids, rows, search, hot, dois, issued>>

\* After that commit the row is read again, so that only a row that has been
\* deleted is refused; without one the version that was read must still hold.
Current(l) ==
    LET row == rows[local[l].row]
    IN  row.state = "live" /\ (local[l].pc # "written" => row.rev = local[l].base)

Updating(l) == local[l].pc = "written" \/ (local[l].pc = "update" /\ ~Filed(l))

UpdateFails(l) ==
    /\ \/ Updating(l) /\ (~Current(l) \/ Data(l).bad = "schema" \/ "commit_fails" \in Faults)
       \/ local[l].pc = "update" /\ Filed(l) /\ FilesRefused(l, local[l].row)
    /\ Stop(l)

\* (mutant) what the row knew of its files is kept.
UpdatedButFiles(l) == WithoutFiles(Cmd(l).type, Data(l), rows[local[l].row].json)

\* The JSON of a record with its files, or update_doc_or_glossary and
\* update_record --skip-files, which keep nothing but the files.
Updated(l) == IF Filed(l) THEN local[l].body
              ELSE WithoutFiles(Cmd(l).type, Data(l), rows[local[l].row].json)

UpdateRow(l) ==
    LET u == local[l].row
        body == Updated(l)
    IN  /\ Updating(l) /\ Current(l) /\ Data(l).bad # "schema"
        /\ rows' = [rows EXCEPT ![u].rev = @ + 1, ![u].json = body]
        /\ Becomes(l, [local[l] EXCEPT !.pc = "index", !.body = body])
        /\ UNCHANGED <<pids, store, strays, search, hot, dois, issued>>

\* delete_record and delete_doc_or_glossary: nothing is taken out of the search
\* index, and a row that has changed meanwhile ends the command.
DeleteFails(l) ==
    /\ local[l].pc = "delete" /\ (~Current(l) \/ "commit_fails" \in Faults)
    /\ Stop(l)

\* (mutants) the PID for OAI-PMH is left; the tags of the objects are left;
\* the objects are left in their buckets.
FreedButOai(l) == {<<Cmd(l).type, Data(l).value>>}
EmptiedButTags(s) == [s EXCEPT !.keys = {}]
NotEmptied(s) == s

Freed(l) == PidsOf(Cmd(l).type, Data(l).value)
Emptied(s) == [s EXCEPT !.keys = {}, !.cleared = {}]

Delete(l) ==
    LET u == local[l].row
    IN  /\ local[l].pc = "delete" /\ Current(l)
        /\ rows' = [rows EXCEPT ![u] = [state |-> "deleted", rev |-> @.rev + 1, json |-> NoJson]]
        /\ pids' = Restrict(pids, DOMAIN pids \ Freed(l))
        /\ store' = [store EXCEPT ![u] = Emptied(@)]
        /\ Becomes(l, NextEntry(l, {}))
        /\ UNCHANGED <<strays, search, hot, dois, issued>>

\* indexer.index: the record that the command has in memory, under the version
\* that the row has by now.
Index(l) ==
    /\ local[l].pc = "index"
    /\ search' = [search EXCEPT ![local[l].row] =
                     [rev |-> rows[local[l].row].rev, json |-> local[l].body]]
    /\ Becomes(l, NextEntry(l, {Data(l).value}))
    /\ UNCHANGED <<db, hot, dois, issued>>

IndexFails(l) == local[l].pc = "index" /\ "index_fails" \in Faults /\ Stop(l)

Crash(l) == Running(l) /\ "crash" \in Faults /\ Stop(l)

Loader(l) ==
    \/ Finish(l) \/ Skip(l) \/ Refuse(l) \/ Read(l)
    \/ CreateFails(l) \/ Create(l)
    \/ ReplaceFiles(l) \/ UpdateFails(l) \/ UpdateRow(l)
    \/ DeleteFails(l) \/ Delete(l)
    \/ IndexFails(l) \/ Index(l)

-----------------------------------------------------------------------------
(* DataCite.  A DOI is absent, new or registered among the PIDs; posting    *)
(* while a command has told DataCite and not yet committed.                 *)

RecordOf(v) == rows[pids[<<"recid", v>>]].json
HasDoi(v) == /\ <<"recid", v>> \in DOMAIN pids /\ pids[<<"recid", v>>] \in Live
             /\ RecordOf(v).doi # "none"

\* (mutant) the PID is committed before DataCite is asked.
RegisterFirst(v) ==
    /\ HasDoi(v) /\ dois[RecordOf(v).doi].pid # "registered"
    /\ dois' = [dois EXCEPT ![RecordOf(v).doi].pid = "registered"]
    /\ UNCHANGED <<db, search, hot, local, issued>>

\* register: a DOI that is registered already is refused by the PID store.
Register(v) ==
    /\ HasDoi(v) /\ dois[RecordOf(v).doi].pid # "registered"
    /\ dois' = [dois EXCEPT ![RecordOf(v).doi] = [@ EXCEPT !.cite = v, !.posting = TRUE]]
    /\ UNCHANGED <<db, search, hot, local, issued>>

RegisterCommits(d) ==
    /\ dois[d].posting
    /\ dois' = [dois EXCEPT ![d] = [@ EXCEPT !.pid = "registered", !.posting = FALSE]]
    /\ UNCHANGED <<db, search, hot, local, issued>>

\* DataCite has the metadata and refuses the URL, or the command dies.
RegisterDies(d) ==
    /\ dois[d].posting /\ "datacite_fails" \in Faults
    /\ dois' = [dois EXCEPT ![d].posting = FALSE]
    /\ UNCHANGED <<db, search, hot, local, issued>>

\* update: the landing page of a DOI that is among the PIDs.
UpdateDoi(v) ==
    /\ HasDoi(v) /\ dois[RecordOf(v).doi].pid # "none"
    /\ dois' = [dois EXCEPT ![RecordOf(v).doi].cite = v]
    /\ UNCHANGED <<db, search, hot, local, issued>>

\* sync-pidstore: what DataCite has registered becomes a PID that is new.
SyncPidstore ==
    /\ dois' = [d \in DOMAIN dois |->
                   IF dois[d].cite # "none" /\ dois[d].pid = "none"
                   THEN [dois[d] EXCEPT !.pid = "new"] ELSE dois[d]]
    /\ UNCHANGED <<db, search, hot, local, issued>>

-----------------------------------------------------------------------------
(* The cold storage clears the disk of a file that is on tape, tags it and  *)
(* indexes the record (module ColdStorage).  It finds the file in the JSON. *)

ClearHot(u, f) ==
    /\ u \in Live /\ rows[u].json.seen = store[u]
    /\ f \in store[u].keys \ store[u].cleared
    /\ LET s == [store[u] EXCEPT !.cleared = @ \cup {f}]
           json == [rows[u].json EXCEPT !.seen = s, !.avail = Availability(s)]
       IN  /\ store' = [store EXCEPT ![u] = s]
           /\ rows' = [rows EXCEPT ![u].rev = @ + 1, ![u].json = json]
           /\ search' = [search EXCEPT ![u] = [rev |-> rows[u].rev + 1, json |-> json]]
    /\ hot' = hot \ {f}
    /\ local' = [l \in Loaders |-> [local[l] EXCEPT !.alone = @ /\ ~Running(l)]]
    /\ UNCHANGED <<pids, strays, dois, issued>>

-----------------------------------------------------------------------------

Entries == UNION {Range(c.entries) : c \in Commands}
Values == {e.value : e \in Entries \ {Broken}}
Contents == {e.content : e \in Entries \ {Broken}}
Dois == {e.doi : e \in Entries \ {Broken}} \ {"none"}

CatalogueInit ==
    /\ pids = <<>> /\ rows = [u \in Uuids |-> NoRow]
    /\ store = [u \in Uuids |-> NoStore] /\ strays = {} /\ search = [u \in Uuids |-> NoDoc]
    /\ hot = Paths
    /\ dois = [d \in Dois |-> [pid |-> "none", cite |-> "none", posting |-> FALSE]]
    /\ local = [l \in Loaders |-> Idle] /\ issued = 0

CatalogueNext ==
    \/ \E l \in Loaders : Loader(l) \/ Crash(l) \/ \E c \in Commands : Start(l, c)
    \/ \E v \in Values : Register(v) \/ UpdateDoi(v)
    \/ \E d \in Dois : RegisterCommits(d) \/ RegisterDies(d)
    \/ SyncPidstore
    \/ \E u \in Uuids, f \in Paths : ClearHot(u, f)

CatalogueSpec == CatalogueInit /\ [][CatalogueNext]_catalogueVars

-----------------------------------------------------------------------------
(* What the commands promise.                                               *)

JsonType == [type: PidTypes \cup {"none"}, value: Values \cup {"none"}, content: Contents \cup {"none"},
             doi: Dois \cup {"none"}, files: SUBSET (Paths \cup DOMAIN Content \cup TextIndices \cup NoFiles),
             seen: [gen: Nat, keys: SUBSET Paths, cleared: SUBSET Paths, older: SUBSET Paths],
             avail: {"missing", "given", "online", "on demand", "partial"}]

CatalogueTypeOK ==
    /\ DOMAIN pids \subseteq (PidTypes \cup {"oai"}) \X Values /\ Range(pids) \subseteq Uuids
    /\ \A u \in Uuids :
         /\ rows[u].state \in {"unused", "live", "deleted"} /\ rows[u].rev \in Nat
         /\ rows[u].json \in JsonType /\ search[u].json \in JsonType
         /\ store[u].keys \cup store[u].older \subseteq Paths
         /\ store[u].cleared \subseteq store[u].keys
         /\ rows[u].json.seen.gen <= store[u].gen
    /\ hot \subseteq Paths /\ strays \subseteq Paths /\ issued \in 0..MaxCommands
    /\ \A l \in Loaders : local[l].body \in JsonType /\ local[l].touched \subseteq Values

\* A PID leads to a live record that it is one of the PIDs of, and every live
\* record is reached by all of its PIDs, at any time and whatever dies
\* (minters/recid.py, delete_record).
PidsResolve ==
    /\ \A p \in DOMAIN pids : pids[p] \in Live
                            /\ p \in PidsOf(rows[pids[p]].json.type, rows[pids[p]].json.value)
    /\ \A u \in Live : \A p \in PidsOf(rows[u].json.type, rows[u].json.value) :
            p \in DOMAIN pids /\ pids[p] = u

\* A command that ran alone and ended without an error leaves the JSON of the
\* entries it wrote, their buckets and the search index in agreement, although
\* an earlier command may have died anywhere (_process_fixture_files).
CleanLoadAgrees ==
    \A l \in Loaders : (local[l].pc = "finished" /\ local[l].alone) =>
        \A v \in local[l].touched :
            LET u == pids[<<Cmd(l).type, v>>]
            IN  search[u].json = rows[u].json /\ (Filed(l) => rows[u].json.seen = store[u])

\* The files that some entry lists beside another one of the same name.
Namesakes == {f \in Paths : \E e \in Entries \ {Broken} : \E g \in Direct(e) \ {f} :
                                f \in Direct(e) /\ Filename[f] = Filename[g]}

\* No bucket of a record that is gone holds a file, which no other record could
\* then be loaded with (FileInstance.uri is unique), but for the older versions
\* that a namesake has pushed aside; when nobody has run two commands at once.
PathsHeld == \A u \in Uuids \ Live : store[u].keys = {} /\ store[u].older \subseteq Namesakes

\* A DOI that is a registered PID is known to DataCite (register_record_doi).
RegisteredAtDataCite == \A d \in Dois : dois[d].pid = "registered" => dois[d].cite # "none"

\* MultiURIFileObject: "If the file is available, the availability will be
\* `online`": a file without the tag hot_deleted can be read from disk.
OnlineIsOnDisk == \A u \in Live : store[u].keys \ store[u].cleared \subseteq hot

=============================================================================
