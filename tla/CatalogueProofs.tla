-------------------------- MODULE CatalogueProofs ---------------------------
(* Proofs about Catalogue, for any number of loaders, rows, commands and    *)
(* files, and for every set of faults: the types, that the PIDs always lead *)
(* to the records that they are of, and that a registered DOI is known to   *)
(* DataCite.                                                                *)
EXTENDS Catalogue, TLAPS

-----------------------------------------------------------------------------
(* The types.                                                               *)

StoreType == [gen: Nat, keys: SUBSET Paths, cleared: SUBSET Paths, older: SUBSET Paths]

Places == {"idle", "entry", "create", "update", "written", "delete", "index", "finished"}

LocalType ==
    [pc: Places, cmd: Commands \cup {Idle.cmd}, left: Seq(Entries), row: Uuids \cup {"none"},
     base: Nat, body: JsonType, touched: SUBSET Values, alone: BOOLEAN]

RowType == [state: {"unused", "live", "deleted"}, rev: Nat, json: JsonType]

DoiType == [pid: {"none", "new", "registered"}, cite: Values \cup {"none"}, posting: BOOLEAN]

PidsType ==
    /\ DOMAIN pids \subseteq (PidTypes \cup {"oai"}) \X Values
    /\ pids \in [DOMAIN pids -> Uuids]

\* The versions of the files that a row knows are not newer than the buckets,
\* and only an object that is there has a tag.
RowsType ==
    /\ rows \in [Uuids -> RowType] /\ store \in [Uuids -> StoreType]
    /\ search \in [Uuids -> [rev: Nat, json: JsonType]]
    /\ \A u \in Uuids : /\ rows[u].json.seen.gen <= store[u].gen
                        /\ store[u].cleared \subseteq store[u].keys

RestType == /\ strays \subseteq Paths /\ hot \subseteq Paths /\ issued \in 0..MaxCommands
            /\ dois \in [Dois -> DoiType]

\* What a loader with the local state loc relies on: the entry that it is at,
\* and, as long as its row is live, that this is the row of the entry.
Relies(loc) ==
    /\ loc.pc \in {"create", "update", "written", "delete", "index"} =>
          loc.left # <<>> /\ Head(loc.left) # Broken
    /\ loc.pc \in {"update", "written", "delete", "index"} => loc.row \in Uuids
    /\ loc.pc \in {"update", "written", "delete"} =>
          /\ rows[loc.row].state # "unused"
          /\ rows[loc.row].state = "live" =>
                /\ rows[loc.row].json.type = loc.cmd.type
                /\ rows[loc.row].json.value = Head(loc.left).value
    /\ loc.pc = "written" =>
          /\ loc.body.type = loc.cmd.type /\ loc.body.value = Head(loc.left).value
          /\ loc.body.seen.gen <= store[loc.row].gen

LoadersOK == local \in [Loaders -> LocalType] /\ \A l \in Loaders : Relies(local[l])

\* DataCite has been told of a DOI before it is registered.
Told == \A d \in Dois : dois[d].posting \/ dois[d].pid = "registered" => dois[d].cite # "none"

IInv == PidsType /\ RowsType /\ RestType /\ LoadersOK /\ PidsResolve /\ Told

-----------------------------------------------------------------------------
(* Entries and what is made of them.                                        *)

LEMMA EntryTypes ==
    ASSUME NEW e \in Entries, e # Broken
    PROVE  /\ e.value \in Values /\ e.value # "none" /\ e.doi \in Dois \cup {"none"}
           /\ e.content \in Contents
           /\ e.files \subseteq Paths \cup DOMAIN Content \cup TextIndices \cup NoFiles
<1>1. PICK c \in Commands : e \in Range(c.entries) BY DEF Entries
<1>2. e.value \in Values BY DEF Values
<1>3. e.doi \in Dois \cup {"none"} BY DEF Dois
<1>4. e.content \in Contents BY DEF Contents
<1> QED BY <1>1, <1>2, <1>3, <1>4, CommandsAssumption

LEMMA ValuesAreNamed == "none" \notin Values
BY EntryTypes DEF Values, Entries

LEMMA CommandTypes ==
    ASSUME NEW c \in Commands
    PROVE  c.type \in PidTypes /\ c.entries \in Seq(Entries)
<1>1. c.entries \in Seq(Range(c.entries)) /\ Range(c.entries) \subseteq Entries
  BY CommandsAssumption DEF Entries
<1> QED BY <1>1, CommandsAssumption

LEMMA RunsTyped ==
    ASSUME NEW loc \in LocalType
    PROVE  loc.cmd.type \in PidTypes
BY CommandTypes DEF LocalType, Idle, PidTypes

LEMMA HeadTyped ==
    ASSUME NEW loc \in LocalType, loc.left # <<>>
    PROVE  Head(loc.left) \in Entries /\ Tail(loc.left) \in Seq(Entries)
BY DEF LocalType

LEMMA ShapesTyped ==
    /\ NoStore \in StoreType /\ NoJson \in JsonType /\ NoRow \in RowType
    /\ NoDoc \in [rev: Nat, json: JsonType] /\ Idle \in LocalType
<1>1. NoStore \in StoreType BY DEF NoStore, StoreType
<1>2. NoJson \in JsonType
  <2>1. NoFiles \subseteq Paths \cup DOMAIN Content \cup TextIndices \cup NoFiles OBVIOUS
  <2>2. NoStore \in [gen: Nat, keys: SUBSET Paths, cleared: SUBSET Paths, older: SUBSET Paths]
    BY <1>1 DEF StoreType
  <2>3. NoFiles \in SUBSET (Paths \cup DOMAIN Content \cup TextIndices \cup NoFiles) BY <2>1
  <2> QED BY <2>2, <2>3 DEF NoJson, JsonType
<1>3. <<>> \in Seq(Entries) OBVIOUS
<1>4. Idle \in LocalType BY <1>2, <1>3 DEF Idle, LocalType, Places
<1> QED BY <1>1, <1>2, <1>4 DEF NoRow, NoDoc, RowType

LEMMA StoredTyped ==
    ASSUME NEW e \in Entries, e # Broken, NEW gen \in Nat, NEW lost, NEW older \in SUBSET Paths,
           NEW s \in Stored(e, gen, lost, older)
    PROVE  s \in StoreType /\ s.gen = gen /\ s.cleared \subseteq s.keys
<1>1. PICK heads \in Heads(Direct(e) \ lost) :
        s = [gen |-> gen, keys |-> heads \cup Indexed(e), cleared |-> {},
             older |-> older \cup (Direct(e) \ (lost \cup heads))]
  BY DEF Stored
<1>2. Indexed(e) \subseteq Paths BY ContentAssumption DEF Indexed
<1>3. Direct(e) \subseteq Paths BY DEF Direct
<1>4. heads \subseteq Direct(e) BY DEF Heads
<1> QED BY <1>1, <1>2, <1>3, <1>4 DEF StoreType

\* What another file of the same name pushes aside is a namesake.
LEMMA OlderAreNamesakes ==
    ASSUME NEW e \in Entries, e # Broken, NEW gen, NEW lost, NEW older \in SUBSET Namesakes,
           NEW s \in Stored(e, gen, lost, older)
    PROVE  s.older \subseteq Namesakes
<1>1. PICK heads \in Heads(Direct(e) \ lost) :
        s = [gen |-> gen, keys |-> heads \cup Indexed(e), cleared |-> {},
             older |-> older \cup (Direct(e) \ (lost \cup heads))]
  BY DEF Stored
<1>2. ASSUME NEW f \in Direct(e) \ (lost \cup heads) PROVE f \in Namesakes
  <2>1. PICK h \in heads : Filename[h] = Filename[f] BY DEF Heads
  <2>2. h \in Direct(e) \ {f} BY <2>1 DEF Heads
  <2>3. f \in Paths BY DEF Direct
  <2> QED BY <2>1, <2>2, <2>3 DEF Namesakes
<1> QED BY <1>1, <1>2

LEMMA WithFilesTyped ==
    ASSUME NEW e \in Entries, e # Broken, NEW type \in PidTypes, NEW s \in StoreType
    PROVE  WithFiles(type, e, s) \in JsonType
<1>1. Direct(e) \subseteq Paths BY DEF Direct
<1>2. Availability(s) \in {"online", "on demand", "partial"} BY DEF Availability
<1> QED BY <1>1, <1>2, EntryTypes DEF WithFiles, JsonType, StoreType

LEMMA WithoutFilesTyped ==
    ASSUME NEW e \in Entries, e # Broken, NEW type \in PidTypes, NEW old \in JsonType
    PROVE  WithoutFiles(type, e, old) \in JsonType
BY EntryTypes DEF WithoutFiles, JsonType

-----------------------------------------------------------------------------
(* Steps that only change what a loader knows.                              *)

LEMMA OnlyLocal ==
    ASSUME IInv, NEW l \in Loaders, NEW loc \in LocalType, Relies(loc), Becomes(l, loc),
           UNCHANGED <<db, search, hot, dois, issued>>
    PROVE  IInv'
<1>1. /\ PidsType' /\ RowsType' /\ RestType' /\ PidsResolve' /\ Told'
  BY DEF IInv, db, PidsType, RowsType, RestType, PidsResolve, Told, Live
<1>2. LoadersOK'
  BY DEF IInv, LoadersOK, Becomes, Relies, db
<1> QED BY <1>1, <1>2 DEF IInv

LEMMA IdleRelies == Relies(Idle)
BY DEF Relies, Idle

LEMMA StopSafe ==
    ASSUME IInv, NEW l \in Loaders, Stop(l)
    PROVE  IInv'
BY OnlyLocal, ShapesTyped, IdleRelies DEF Stop

LEMMA LocalTyped ==
    ASSUME IInv, NEW l \in Loaders
    PROVE  local[l] \in LocalType /\ Relies(local[l])
BY DEF IInv, LoadersOK

LEMMA NextEntryTyped ==
    ASSUME IInv, NEW l \in Loaders, local[l].left # <<>>, NEW value \in SUBSET Values
    PROVE  NextEntry(l, value) \in LocalType /\ NextEntry(l, value).pc = "entry"
<1>1. local[l] \in LocalType /\ Tail(local[l].left) \in Seq(Entries)
  BY LocalTyped, HeadTyped
<1> QED BY <1>1, ShapesTyped DEF NextEntry, LocalType, Places

\* At an entry, and at the end, a loader relies on nothing.
LEMMA EntryRelies ==
    ASSUME NEW loc, loc.pc \in {"entry", "finished"}
    PROVE  Relies(loc)
BY DEF Relies

LEMMA ReadSafe ==
    ASSUME IInv, NEW l \in Loaders, Read(l)
    PROVE  IInv'
<1> DEFINE pid == KnownPid(l)
<1>1. /\ local[l] \in LocalType /\ local[l].pc = "entry" /\ local[l].left # <<>>
      /\ Data(l) # Broken
  BY LocalTyped DEF Read, AtEntry
<1>2. CASE pid \in DOMAIN pids
  <2> DEFINE u == pids[pid]
             loc == [local[l] EXCEPT !.pc = IF Deleting(l) THEN "delete" ELSE "update",
                                     !.row = u, !.base = rows[u].rev]
  <2>1. u \in Live /\ Becomes(l, loc) BY <1>2 DEF Read
  <2>2. u \in Uuids /\ rows[u].rev \in Nat /\ rows[u].state = "live"
    BY <2>1 DEF Live, IInv, RowsType, RowType
  <2>3. rows[u].json.type = Cmd(l).type /\ rows[u].json.value = Data(l).value
    <3>1. pid \in PidsOf(rows[u].json.type, rows[u].json.value) BY <1>2 DEF IInv, PidsResolve
    <3>2. pid[1] = Cmd(l).type /\ pid[2] = Data(l).value /\ Cmd(l).type # "oai"
      BY <1>1, RunsTyped DEF KnownPid, Cmd, PidTypes
    <3> QED BY <3>1, <3>2 DEF PidsOf
  <2>4. loc \in LocalType /\ loc.left = local[l].left /\ loc.cmd = local[l].cmd /\ loc.row = u
        /\ loc.pc \in {"delete", "update"}
    BY <1>1, <2>2 DEF LocalType, Places
  <2>5. Relies(loc) BY <1>1, <2>2, <2>3, <2>4 DEF Relies, Data, Cmd
  <2> QED BY <2>1, <2>4, <2>5, OnlyLocal DEF Read
<1>3. CASE pid \notin DOMAIN pids
  <2> DEFINE loc == [local[l] EXCEPT !.pc = "create"]
  <2>1. Becomes(l, loc) BY <1>3 DEF Read
  <2>2. loc \in LocalType /\ loc.left = local[l].left /\ loc.pc = "create"
    BY <1>1 DEF LocalType, Places
  <2>3. Relies(loc) BY <1>1, <2>2 DEF Relies, Data
  <2> QED BY <2>1, <2>2, <2>3, OnlyLocal DEF Read
<1> QED BY <1>2, <1>3

LEMMA GoingOnSafe ==
    ASSUME IInv, NEW l \in Loaders, Finish(l) \/ Skip(l)
    PROVE  IInv'
<1>1. local[l] \in LocalType BY LocalTyped
<1>2. CASE Finish(l)
  <2> DEFINE loc == [local[l] EXCEPT !.pc = "finished"]
  <2>1. loc \in LocalType /\ loc.pc = "finished" BY <1>1 DEF LocalType, Places
  <2>2. Relies(loc)
    <3> HIDE DEF loc
    <3> QED BY <2>1, EntryRelies
  <2> QED BY <1>2, <2>1, <2>2, OnlyLocal DEF Finish
<1>3. CASE Skip(l)
  <2>1. NextEntry(l, {}) \in LocalType /\ NextEntry(l, {}).pc = "entry"
    BY <1>3, NextEntryTyped DEF Skip, AtEntry
  <2> QED BY <1>3, <2>1, EntryRelies, OnlyLocal DEF Skip
<1> QED BY <1>2, <1>3

LEMMA StartSafe ==
    ASSUME IInv, NEW l \in Loaders, NEW c \in Commands, Start(l, c)
    PROVE  IInv'
<1>1. PidsType' /\ RowsType' /\ PidsResolve' /\ Told'
  BY DEF Start, IInv, db, PidsType, RowsType, PidsResolve, Told, Live
<1>2. RestType'
  <2>1. issued' \in 0..MaxCommands
    <3>1. issued < MaxCommands /\ issued' = issued + 1 BY DEF Start
    <3> QED BY <3>1, CatalogueFaultsAssumption DEF IInv, RestType
  <2> QED BY <2>1 DEF Start, IInv, db, RestType
<1>3. ASSUME NEW k \in Loaders PROVE local'[k] \in LocalType /\ Relies(local[k])'
  <2> DEFINE nobody == \A o \in Loaders \ {l} : ~Running(o)
             first == [Idle EXCEPT !.pc = "entry", !.cmd = c, !.left = c.entries,
                                   !.alone = nobody]
             other == [local[k] EXCEPT !.alone = FALSE]
  <2>1. local'[k] = first \/ local'[k] = other \/ local'[k] = Idle BY DEF Start
  <2>2. first \in LocalType /\ first.pc = "entry"
    <3>1. nobody \in BOOLEAN OBVIOUS
    <3> HIDE DEF nobody
    <3> QED BY <3>1, ShapesTyped, CommandTypes DEF LocalType, Places
  <2>3. /\ other \in LocalType /\ other.pc = local[k].pc /\ other.cmd = local[k].cmd
        /\ other.left = local[k].left /\ other.row = local[k].row /\ other.body = local[k].body
    BY LocalTyped DEF LocalType
  <2>4. Relies(local'[k])
    <3>1. Relies(other) BY <2>3, LocalTyped DEF Relies
    <3>2. CASE local'[k] = first
      <4> HIDE DEF first
      <4> QED BY <3>2, <2>2, EntryRelies
    <3>3. CASE local'[k] = other BY <3>3, <3>1
    <3>4. CASE local'[k] = Idle BY <3>4, IdleRelies
    <3> QED BY <2>1, <3>2, <3>3, <3>4
  <2>5. rows' = rows /\ store' = store BY DEF Start, db
  <2>6. local'[k] \in LocalType BY <2>1, <2>2, <2>3, ShapesTyped
  <2> QED BY <2>4, <2>5, <2>6 DEF Relies
<1>4. LoadersOK'
  <2>1. local' \in [Loaders -> LocalType] BY <1>3 DEF Start
  <2> QED BY <1>3, <2>1 DEF LoadersOK
<1> QED BY <1>1, <1>2, <1>4 DEF IInv

-----------------------------------------------------------------------------
(* Steps that write.                                                        *)

\* What a loader that writes has in hand.
LEMMA InHand ==
    ASSUME IInv, NEW l \in Loaders,
           local[l].pc \in {"create", "update", "written", "delete", "index"}
    PROVE  /\ local[l] \in LocalType /\ local[l].left # <<>>
           /\ Data(l) \in Entries /\ Data(l) # Broken /\ Data(l).value \in Values
           /\ Cmd(l).type \in PidTypes
           /\ local[l].pc # "create" => local[l].row \in Uuids
<1>1. local[l] \in LocalType /\ Relies(local[l]) BY LocalTyped
<1>2. local[l].left # <<>> /\ Data(l) # Broken BY <1>1 DEF Relies, Data
<1>3. Data(l) \in Entries BY <1>1, <1>2, HeadTyped DEF Data
<1>4. Cmd(l).type \in PidTypes BY <1>1, RunsTyped DEF Cmd
<1> QED BY <1>1, <1>2, <1>3, <1>4, EntryTypes DEF Relies

\* The other loaders are not disturbed by what happens to a row, as long as it
\* keeps its value and its type while it is live.
LEMMA OthersRely ==
    ASSUME IInv, NEW u \in Uuids,
           \A w \in Uuids \ {u} : rows'[w] = rows[w] /\ store'[w].gen = store[w].gen,
           rows[u].state = "unused" \/ rows'[u].state = "deleted"
               \/ (/\ rows[u].state # "unused" /\ rows'[u].state = rows[u].state
                   /\ rows'[u].json.type = rows[u].json.type
                   /\ rows'[u].json.value = rows[u].json.value),
           rows[u].state # "unused" => store'[u].gen >= store[u].gen,
           store \in [Uuids -> StoreType], store'[u].gen \in Nat,
           NEW k \in Loaders, local'[k] = local[k]
    PROVE  Relies(local[k])'
<1>1. Relies(local[k]) /\ local[k] \in LocalType BY LocalTyped
<1>2. CASE local[k].pc \notin {"update", "written", "delete"}
  BY <1>1, <1>2 DEF Relies
<1>3. CASE local[k].pc \in {"update", "written", "delete"}
  <2> DEFINE w == local[k].row
  <2>1. w \in Uuids /\ rows[w].state # "unused" BY <1>1, <1>3 DEF Relies
  <2>2. CASE w # u BY <1>1, <1>3, <2>1, <2>2 DEF Relies
  <2>3. CASE w = u
    <3>1. rows'[u].state # "unused" /\ store'[u].gen >= store[u].gen BY <2>1, <2>3
    <3>2. rows'[u].state = "live" =>
             /\ rows[u].state = "live" /\ rows'[u].json.type = rows[u].json.type
             /\ rows'[u].json.value = rows[u].json.value
      BY <2>1, <2>3
    <3>3. local[k].pc = "written" => local[k].body.seen.gen <= store'[u].gen
      <4>1. local[k].body.seen.gen \in Nat BY <1>1 DEF LocalType, JsonType
      <4>2. store[u].gen \in Nat BY DEF StoreType
      <4> QED BY <1>1, <2>3, <3>1, <4>1, <4>2 DEF Relies
    <3> QED BY <1>1, <1>3, <2>1, <2>3, <3>1, <3>2, <3>3 DEF Relies
  <2> QED BY <2>2, <2>3
<1> QED BY <1>2, <1>3

LEMMA PidsOfTyped ==
    ASSUME NEW type \in PidTypes, NEW value \in Values
    PROVE  PidsOf(type, value) \subseteq (PidTypes \cup {"oai"}) \X Values
BY DEF PidsOf

LEMMA CreateSafe ==
    ASSUME IInv, NEW l \in Loaders, Create(l)
    PROVE  IInv'
<1> DEFINE e == Data(l)
           type == Cmd(l).type
           mine == PidsOf(type, e.value)
<1>1. local[l].pc = "create" /\ mine \cap DOMAIN pids = {} BY DEF Create
<1>2. /\ local[l] \in LocalType /\ local[l].left # <<>> /\ e \in Entries /\ e # Broken
      /\ e.value \in Values /\ type \in PidTypes
  BY <1>1, InHand
<1> DEFINE Made(lost) == IF Filed(l) THEN Stored(e, 1, lost, {}) ELSE {NoStore}
           Creation(u, lost, s) ==
             LET body == IF Filed(l) THEN WithFiles(type, e, s) ELSE WithoutFiles(type, e, NoJson)
             IN  /\ rows[u].state = "unused"
                 /\ pids' = [p \in DOMAIN pids \cup mine |-> IF p \in mine THEN u ELSE pids[p]]
                 /\ store' = [store EXCEPT ![u] = s] /\ strays' = strays \cup lost
                 /\ rows' = [rows EXCEPT ![u] = [state |-> "live", rev |-> 1, json |-> body]]
                 /\ Becomes(l, [local[l] EXCEPT !.pc = "index", !.row = u, !.body = body])
<1>c. PICK u \in Uuids, lost \in Lost(l) : \E s \in Made(lost) : Creation(u, lost, s)
  BY DEF Create
<1>3. PICK s \in Made(lost) : Creation(u, lost, s)
  BY <1>c
<1> DEFINE body == IF Filed(l) THEN WithFiles(type, e, s) ELSE WithoutFiles(type, e, NoJson)
           loc == [local[l] EXCEPT !.pc = "index", !.row = u, !.body = body]
<1>4. s \in StoreType /\ body \in JsonType /\ s.cleared \subseteq s.keys
  <2>1. s \in StoreType BY <1>2, StoredTyped, ShapesTyped
  <2>2. s.cleared \subseteq s.keys BY <1>2, StoredTyped DEF NoStore
  <2>3. body \in JsonType BY <1>2, <2>1, WithFilesTyped, WithoutFilesTyped, ShapesTyped
  <2> QED BY <2>1, <2>2, <2>3
<1>5. body.type = type /\ body.value = e.value /\ body.seen.gen <= s.gen
  <2>1. CASE Filed(l)
    <3>1. body = WithFiles(type, e, s) /\ s.gen \in Nat BY <1>4, <2>1 DEF StoreType
    <3> QED BY <3>1 DEF WithFiles
  <2>2. CASE ~Filed(l)
    <3>1. body = WithoutFiles(type, e, NoJson) /\ s = NoStore BY <1>3, <2>2
    <3> QED BY <3>1 DEF WithoutFiles, NoJson, NoStore
  <2> QED BY <2>1, <2>2
<1>6. lost \subseteq Paths BY DEF Lost, Direct
<1> HIDE DEF e, type, body
<1>7. PidsType'
  <2>1. DOMAIN pids' = DOMAIN pids \cup mine BY <1>3
  <2>2. mine \subseteq (PidTypes \cup {"oai"}) \X Values BY <1>2, PidsOfTyped
  <2> QED BY <1>3, <2>1, <2>2 DEF IInv, PidsType
<1>8. RowsType'
  <2>1. rows' = [rows EXCEPT ![u] = [state |-> "live", rev |-> 1, json |-> body]]
        /\ store' = [store EXCEPT ![u] = s] /\ search' = search
    BY <1>3 DEF Create, body, e, type
  <2> QED BY <1>4, <1>5, <2>1 DEF IInv, RowsType, RowType
<1>9. RestType' BY <1>3, <1>6 DEF IInv, RestType, Create
<1>10. PidsResolve'
  <2>1. /\ rows' = [rows EXCEPT ![u] = [state |-> "live", rev |-> 1, json |-> body]]
        /\ pids' = [p \in DOMAIN pids \cup mine |-> IF p \in mine THEN u ELSE pids[p]]
        /\ rows[u].state = "unused"
    BY <1>3 DEF body, e, type
  <2>2. rows'[u].state = "live" /\ PidsOf(rows'[u].json.type, rows'[u].json.value) = mine
    BY <1>5, <2>1 DEF IInv, RowsType, e, type
  <2>3. \A w \in Uuids \ {u} : rows'[w] = rows[w] BY <2>1 DEF IInv, RowsType
  <2>4. \A p \in DOMAIN pids : pids'[p] = pids[p] /\ pids[p] \in Uuids \ {u}
    BY <1>1, <2>1 DEF IInv, PidsResolve, Live
  <2>5. \A p \in mine : pids'[p] = u BY <2>1
  <2> QED BY <2>1, <2>2, <2>3, <2>4, <2>5 DEF IInv, PidsResolve, Live
<1>11. LoadersOK'
  <2>1. /\ rows' = [rows EXCEPT ![u] = [state |-> "live", rev |-> 1, json |-> body]]
        /\ store' = [store EXCEPT ![u] = s]
        /\ local' = [local EXCEPT ![l] = loc] /\ rows[u].state = "unused"
    BY <1>3 DEF Becomes, body, e, type
  <2>2. loc \in LocalType /\ loc.pc = "index" /\ loc.left = local[l].left /\ loc.row = u
    BY <1>2, <1>4 DEF LocalType, Places
  <2>3. Relies(local[l])' BY <1>2, <2>1, <2>2 DEF Relies, IInv, LoadersOK, Data, e
  <2>4. ASSUME NEW k \in Loaders \ {l} PROVE Relies(local[k])'
    <3>1. local'[k] = local[k] BY <2>1 DEF IInv, LoadersOK
    <3>2. s.gen \in Nat BY <1>4 DEF StoreType
    <3>3. store \in [Uuids -> StoreType] /\ rows \in [Uuids -> RowType] BY DEF IInv, RowsType
    <3>4. /\ \A w \in Uuids \ {u} : rows'[w] = rows[w] /\ store'[w].gen = store[w].gen
          /\ store'[u].gen \in Nat
      BY <2>1, <3>2, <3>3
    <3> QED BY <2>1, <3>1, <3>3, <3>4, OthersRely
  <2>5. local' \in [Loaders -> LocalType] BY <2>1, <2>2 DEF IInv, LoadersOK
  <2> QED BY <2>3, <2>4, <2>5 DEF LoadersOK
<1>12. Told' BY DEF Create, IInv, Told
<1> QED BY <1>7, <1>8, <1>9, <1>10, <1>11, <1>12 DEF IInv

LEMMA ReplaceFilesSafe ==
    ASSUME IInv, NEW l \in Loaders, ReplaceFiles(l)
    PROVE  IInv'
<1> DEFINE u == local[l].row
           e == Data(l)
           type == Cmd(l).type
<1>1. local[l].pc = "update" BY DEF ReplaceFiles
<1>2. /\ local[l] \in LocalType /\ Relies(local[l]) /\ local[l].left # <<>> /\ e \in Entries
      /\ e # Broken /\ type \in PidTypes /\ u \in Uuids
  BY <1>1, InHand, LocalTyped
<1> DEFINE Replacement(lost, s) ==
             /\ store' = [store EXCEPT ![u] = s] /\ strays' = strays \cup lost
             /\ Becomes(l, [local[l] EXCEPT !.pc = "written", !.body = WithFiles(type, e, s)])
<1>c. PICK lost \in Lost(l) :
        \E s \in Stored(e, store[u].gen + 1, lost, store[u].older) : Replacement(lost, s)
  BY DEF ReplaceFiles
<1>3. PICK s \in Stored(e, store[u].gen + 1, lost, store[u].older) : Replacement(lost, s)
  BY <1>c
<1> DEFINE body == WithFiles(type, e, s)
           loc == [local[l] EXCEPT !.pc = "written", !.body = body]
<1>4. /\ store \in [Uuids -> StoreType] /\ rows \in [Uuids -> RowType]
      /\ store[u].gen \in Nat /\ store[u].older \in SUBSET Paths
  BY <1>2 DEF IInv, RowsType, StoreType
<1>5. /\ s \in StoreType /\ body \in JsonType /\ s.cleared \subseteq s.keys
      /\ s.gen = store[u].gen + 1
  <2>1. store[u].gen + 1 \in Nat BY <1>4
  <2>2. s \in StoreType /\ s.cleared \subseteq s.keys /\ s.gen = store[u].gen + 1
    BY <1>2, <1>4, <2>1, StoredTyped
  <2> QED BY <1>2, <2>2, WithFilesTyped
<1>6. body.type = type /\ body.value = e.value /\ body.seen = s BY DEF WithFiles
<1>7. lost \subseteq Paths BY DEF Lost, Direct
<1>8. UNCHANGED <<pids, rows, search, hot, dois, issued>> BY DEF ReplaceFiles
<1>9. store' = [store EXCEPT ![u] = s] /\ local' = [local EXCEPT ![l] = loc]
  BY <1>3 DEF Becomes
<1> HIDE DEF e, type, body, u
<1>10. PidsType' /\ PidsResolve' /\ Told'
  BY <1>8 DEF IInv, PidsType, PidsResolve, Told, Live
<1>11. RowsType'
  <2>1. \A w \in Uuids : rows[w].json.seen.gen \in Nat
    BY <1>4 DEF RowType, JsonType
  <2>2. store' \in [Uuids -> StoreType] BY <1>4, <1>5, <1>9
  <2>3. ASSUME NEW w \in Uuids
        PROVE  rows'[w].json.seen.gen <= store'[w].gen /\ store'[w].cleared \subseteq store'[w].keys
    <3>1. rows[w].json.seen.gen <= store[w].gen /\ store[w].cleared \subseteq store[w].keys
      BY DEF IInv, RowsType
    <3>2. CASE w = u BY <1>2, <1>4, <1>5, <1>8, <1>9, <2>1, <3>1, <3>2 DEF u
    <3>3. CASE w # u BY <1>4, <1>8, <1>9, <3>1, <3>3
    <3> QED BY <3>2, <3>3
  <2> QED BY <1>8, <2>2, <2>3 DEF IInv, RowsType
<1>12. RestType' BY <1>3, <1>7, <1>8 DEF IInv, RestType
<1>13. LoadersOK'
  <2>1. /\ loc \in LocalType /\ loc.pc = "written" /\ loc.left = local[l].left
        /\ loc.row = u /\ loc.cmd = local[l].cmd /\ loc.body = body
    BY <1>2, <1>5 DEF LocalType, Places, u
  <2>2. Relies(local[l])'
    BY <1>1, <1>2, <1>4, <1>5, <1>6, <1>8, <1>9, <2>1
    DEF Relies, IInv, LoadersOK, Data, e, Cmd, type, u
  <2>3. ASSUME NEW k \in Loaders \ {l} PROVE Relies(local[k])'
    <3>1. local'[k] = local[k] BY <1>9 DEF IInv, LoadersOK
    <3>2. rows[u].state # "unused" BY <1>1, <1>2 DEF Relies, u
    <3>3. /\ \A w \in Uuids \ {u} : rows'[w] = rows[w] /\ store'[w].gen = store[w].gen
          /\ store'[u].gen \in Nat /\ store'[u].gen >= store[u].gen
      BY <1>2, <1>4, <1>5, <1>8, <1>9
    <3> QED BY <1>2, <1>4, <1>8, <3>1, <3>2, <3>3, OthersRely
  <2>4. local' \in [Loaders -> LocalType] BY <1>9, <2>1 DEF IInv, LoadersOK
  <2> QED BY <2>2, <2>3, <2>4 DEF LoadersOK
<1> QED BY <1>10, <1>11, <1>12, <1>13 DEF IInv

\* Writing the JSON of a live row keeps its PIDs, when it keeps its value.
LEMMA SameValueResolves ==
    ASSUME IInv, NEW u \in Live, NEW row \in RowType, rows' = [rows EXCEPT ![u] = row],
           row.state = "live", row.json.type = rows[u].json.type,
           row.json.value = rows[u].json.value, pids' = pids
    PROVE  PidsResolve'
<1>1. u \in Uuids /\ rows \in [Uuids -> RowType] BY DEF IInv, RowsType, Live
<1>2. \A w \in Uuids : /\ rows'[w].state = "live" <=> rows[w].state = "live"
                       /\ rows'[w].json.type = rows[w].json.type
                       /\ rows'[w].json.value = rows[w].json.value
  BY <1>1 DEF Live
<1>3. Live' = Live BY <1>2 DEF Live
<1> QED BY <1>2, <1>3 DEF IInv, PidsResolve, Live

LEMMA UpdateRowSafe ==
    ASSUME IInv, NEW l \in Loaders, UpdateRow(l)
    PROVE  IInv'
<1> DEFINE u == local[l].row
           e == Data(l)
           type == Cmd(l).type
           body == Updated(l)
           loc == [local[l] EXCEPT !.pc = "index", !.body = body]
           row == [rows[u] EXCEPT !.rev = @ + 1, !.json = body]
<1>1. local[l].pc \in {"update", "written"} /\ rows[u].state = "live"
  BY DEF UpdateRow, Updating, Current
<1>2. /\ local[l] \in LocalType /\ Relies(local[l]) /\ local[l].left # <<>> /\ e \in Entries
      /\ e # Broken /\ type \in PidTypes /\ u \in Uuids
  BY <1>1, InHand, LocalTyped
<1>3. /\ rows \in [Uuids -> RowType] /\ store \in [Uuids -> StoreType]
      /\ rows[u] \in RowType /\ rows[u].json \in JsonType
  BY <1>2 DEF IInv, RowsType, RowType
<1>4. /\ body \in JsonType /\ body.type = type /\ body.value = e.value
      /\ body.seen.gen <= store[u].gen
  <2>1. CASE Filed(l)
    <3>1. local[l].pc = "written" /\ body = local[l].body
      BY <1>1, <2>1 DEF UpdateRow, Updating, Updated
    <3> QED BY <1>2, <3>1 DEF Relies, LocalType, Data, Cmd
  <2>2. CASE ~Filed(l)
    <3>1. body = WithoutFiles(type, e, rows[u].json) BY <2>2 DEF Updated
    <3>2. body \in JsonType BY <1>2, <1>3, <3>1, WithoutFilesTyped
    <3>3. body.seen = rows[u].json.seen /\ body.type = type /\ body.value = e.value
      BY <3>1 DEF WithoutFiles
    <3> QED BY <1>2, <3>2, <3>3 DEF IInv, RowsType
  <2> QED BY <2>1, <2>2
<1>5. rows[u].json.type = type /\ rows[u].json.value = e.value
  BY <1>1, <1>2 DEF Relies, Data, Cmd
<1>6. /\ rows' = [rows EXCEPT ![u] = row] /\ local' = [local EXCEPT ![l] = loc]
      /\ UNCHANGED <<pids, store, strays, search, hot, dois, issued>>
  BY <1>2, <1>3 DEF UpdateRow, Becomes
<1> HIDE DEF e, type, body, u
<1>7. /\ row \in RowType /\ row.state = "live" /\ row.json = body
  <2>1. rows[u].rev + 1 \in Nat BY <1>3 DEF RowType
  <2> QED BY <1>1, <1>3, <1>4, <2>1 DEF RowType, u
<1>8. PidsType' /\ RestType' /\ Told' BY <1>6 DEF IInv, PidsType, RestType, Told
<1>9. RowsType'
  <2> HIDE DEF row
  <2> QED BY <1>2, <1>3, <1>4, <1>6, <1>7 DEF IInv, RowsType
<1>10. PidsResolve'
  <2> HIDE DEF row
  <2>1. u \in Live BY <1>1, <1>2 DEF Live, u
  <2> QED BY <1>4, <1>5, <1>6, <1>7, <2>1, SameValueResolves
<1>11. LoadersOK'
  <2>1. /\ loc \in LocalType /\ loc.pc = "index" /\ loc.left = local[l].left /\ loc.row = u
    BY <1>2, <1>4 DEF LocalType, Places, u
  <2>2. Relies(local[l])' BY <1>2, <1>6, <2>1 DEF Relies, IInv, LoadersOK, Data, e
  <2>3. ASSUME NEW k \in Loaders \ {l} PROVE Relies(local[k])'
    <3>1. local'[k] = local[k] BY <1>6 DEF IInv, LoadersOK
    <3>2. /\ \A w \in Uuids \ {u} : rows'[w] = rows[w] /\ store'[w].gen = store[w].gen
          /\ rows'[u] = row /\ store' = store /\ store[u].gen \in Nat
      BY <1>2, <1>3, <1>6 DEF StoreType
    <3>3. rows'[u].state = rows[u].state /\ rows'[u].json.type = rows[u].json.type
          /\ rows'[u].json.value = rows[u].json.value /\ rows[u].state # "unused"
      <4> HIDE DEF row
      <4> QED BY <1>1, <1>4, <1>5, <1>7, <3>2 DEF u
    <3>4. store'[u].gen >= store[u].gen /\ store'[u].gen \in Nat BY <3>2
    <3> HIDE DEF row
    <3> QED BY <1>2, <1>3, <3>1, <3>2, <3>3, <3>4, OthersRely DEF u
  <2>4. local' \in [Loaders -> LocalType] BY <1>6, <2>1 DEF IInv, LoadersOK
  <2> QED BY <2>2, <2>3, <2>4 DEF LoadersOK
<1> QED BY <1>8, <1>9, <1>10, <1>11 DEF IInv

LEMMA DeleteSafe ==
    ASSUME IInv, NEW l \in Loaders, Delete(l)
    PROVE  IInv'
<1> DEFINE u == local[l].row
           mine == PidsOf(Cmd(l).type, Data(l).value)
           row == [state |-> "deleted", rev |-> rows[u].rev + 1, json |-> NoJson]
           s == [store[u] EXCEPT !.keys = {}, !.cleared = {}]
           loc == NextEntry(l, {})
<1>1. local[l].pc = "delete" /\ rows[u].state = "live" BY DEF Delete, Current
<1>2. /\ local[l] \in LocalType /\ Relies(local[l]) /\ local[l].left # <<>> /\ u \in Uuids
  BY <1>1, InHand, LocalTyped
<1>3. rows \in [Uuids -> RowType] /\ store \in [Uuids -> StoreType] BY DEF IInv, RowsType
<1>4. /\ rows' = [rows EXCEPT ![u] = row] /\ pids' = Restrict(pids, DOMAIN pids \ mine)
      /\ store' = [store EXCEPT ![u] = s] /\ local' = [local EXCEPT ![l] = loc]
      /\ UNCHANGED <<strays, search, hot, dois, issued>>
  BY <1>2, <1>3 DEF Delete, Becomes, Freed, Emptied
<1>5. rows[u].json.type = Cmd(l).type /\ rows[u].json.value = Data(l).value
  BY <1>1, <1>2 DEF Relies, Data, Cmd
<1>6. row \in RowType /\ s \in StoreType /\ s.gen = store[u].gen /\ NoJson.seen.gen = 0
  <2>1. rows[u].rev \in Nat BY <1>2, <1>3 DEF RowType
  <2>2. s \in StoreType /\ s.gen = store[u].gen BY <1>2, <1>3 DEF StoreType
  <2>3. row \in RowType
    <3>1. rows[u].rev + 1 \in Nat BY <2>1
    <3> QED BY <3>1, ShapesTyped DEF RowType
  <2> QED BY <2>2, <2>3 DEF NoJson, NoStore
<1>7. PidsType' BY <1>4 DEF IInv, PidsType, Restrict
<1>8. RowsType'
  <2>1. s.gen \in Nat /\ s.cleared \subseteq s.keys /\ row.json = NoJson
    BY <1>2, <1>3, <1>6 DEF StoreType
  <2> HIDE DEF row, s
  <2> QED BY <1>2, <1>3, <1>4, <1>6, <2>1 DEF IInv, RowsType
<1>9. RestType' /\ Told' BY <1>4 DEF IInv, RestType, Told
<1>10. PidsResolve'
  <2>1. Live' = Live \ {u} BY <1>2, <1>3, <1>4 DEF Live
  <2>2. \A w \in Uuids \ {u} : rows'[w] = rows[w] BY <1>3, <1>4
  <2>3. \A p \in DOMAIN pids : pids[p] = u => p \in mine BY <1>5 DEF IInv, PidsResolve
  <2>4. \A p \in mine : p \in DOMAIN pids /\ pids[p] = u
    BY <1>1, <1>2, <1>5 DEF IInv, PidsResolve, Live
  <2>5. DOMAIN pids' = DOMAIN pids \ mine /\ \A p \in DOMAIN pids' : pids'[p] = pids[p]
    BY <1>4 DEF Restrict
  <2> HIDE DEF mine, row, s, loc, u
  <2>6. ASSUME NEW p \in DOMAIN pids'
        PROVE  /\ pids'[p] \in Live'
               /\ p \in PidsOf(rows'[pids'[p]].json.type, rows'[pids'[p]].json.value)
    <3>1. p \in DOMAIN pids /\ pids'[p] = pids[p] /\ pids[p] # u BY <2>3, <2>5
    <3>2. pids[p] \in Live /\ rows'[pids[p]] = rows[pids[p]]
      BY <2>2, <3>1 DEF IInv, PidsResolve, Live
    <3> QED BY <2>1, <3>1, <3>2 DEF IInv, PidsResolve
  <2>7. ASSUME NEW w \in Live',
               NEW p \in PidsOf(rows'[w].json.type, rows'[w].json.value)
        PROVE  p \in DOMAIN pids' /\ pids'[p] = w
    <3>1. w \in Live /\ w # u /\ rows'[w] = rows[w] BY <2>1, <2>2 DEF Live
    <3>2. p \in DOMAIN pids /\ pids[p] = w BY <3>1 DEF IInv, PidsResolve
    <3> QED BY <2>4, <2>5, <3>1, <3>2
  <2> QED BY <2>6, <2>7 DEF PidsResolve
<1>11. LoadersOK'
  <2>1. loc \in LocalType /\ loc.pc = "entry" BY <1>2, NextEntryTyped
  <2>2. local' \in [Loaders -> LocalType] /\ local'[l] = loc
    <3> HIDE DEF loc
    <3> QED BY <1>4, <2>1 DEF IInv, LoadersOK
  <2>3. ASSUME NEW k \in Loaders \ {l} PROVE Relies(local[k])'
    <3>1. local'[k] = local[k] BY <1>4 DEF IInv, LoadersOK
    <3>2. /\ \A w \in Uuids \ {u} : rows'[w] = rows[w] /\ store'[w].gen = store[w].gen
          /\ rows'[u].state = "deleted"
      BY <1>2, <1>3, <1>4
    <3>3. store'[u].gen = store[u].gen /\ store[u].gen \in Nat
      BY <1>2, <1>3, <1>4 DEF StoreType
    <3>4. store'[u].gen >= store[u].gen /\ store'[u].gen \in Nat BY <3>3
    <3> QED BY <1>2, <1>3, <3>1, <3>2, <3>4, OthersRely
  <2>4. Relies(local[l])'
    <3> HIDE DEF loc
    <3> QED BY <2>1, <2>2 DEF Relies
  <2> QED BY <2>2, <2>3, <2>4 DEF LoadersOK
<1> QED BY <1>7, <1>8, <1>9, <1>10, <1>11 DEF IInv

LEMMA IndexSafe ==
    ASSUME IInv, NEW l \in Loaders, Index(l)
    PROVE  IInv'
<1> DEFINE u == local[l].row
           loc == NextEntry(l, {Data(l).value})
<1>1. local[l].pc = "index" BY DEF Index
<1>2. /\ local[l] \in LocalType /\ local[l].left # <<>> /\ u \in Uuids /\ Data(l).value \in Values
  BY <1>1, InHand
<1>3. /\ search' = [search EXCEPT ![u] = [rev |-> rows[u].rev, json |-> local[l].body]]
      /\ local' = [local EXCEPT ![l] = loc]
      /\ UNCHANGED <<pids, rows, store, strays, hot, dois, issued>>
  BY DEF Index, Becomes, db
<1>4. PidsType' /\ RestType' /\ PidsResolve' /\ Told'
  BY <1>3 DEF IInv, PidsType, RestType, PidsResolve, Live, Told
<1>5. RowsType'
  <2>1. [rev |-> rows[u].rev, json |-> local[l].body] \in [rev: Nat, json: JsonType]
    BY <1>2 DEF LocalType, IInv, RowsType, RowType
  <2> QED BY <1>2, <1>3, <2>1 DEF IInv, RowsType
<1>6. LoadersOK'
  <2>1. loc \in LocalType /\ loc.pc = "entry" BY <1>2, NextEntryTyped
  <2> HIDE DEF loc
  <2> QED BY <1>3, <2>1 DEF IInv, LoadersOK, Relies
<1> QED BY <1>4, <1>5, <1>6 DEF IInv

LEMMA ClearHotSafe ==
    ASSUME IInv, NEW u \in Uuids, NEW f \in Paths, ClearHot(u, f)
    PROVE  IInv'
<1> DEFINE s == [store[u] EXCEPT !.cleared = @ \cup {f}]
           json == [rows[u].json EXCEPT !.seen = s, !.avail = Availability(s)]
           row == [rows[u] EXCEPT !.rev = @ + 1, !.json = json]
<1>1. /\ rows \in [Uuids -> RowType] /\ store \in [Uuids -> StoreType]
      /\ rows[u].state = "live" /\ f \in store[u].keys /\ rows[u].rev \in Nat
      /\ store[u].gen \in Nat /\ rows[u].json \in JsonType
  BY DEF ClearHot, Live, IInv, RowsType, RowType, StoreType
<1>2. /\ store' = [store EXCEPT ![u] = s] /\ rows' = [rows EXCEPT ![u] = row]
      /\ search' = [search EXCEPT ![u] = [rev |-> rows[u].rev + 1, json |-> json]]
      /\ hot' = hot \ {f} /\ UNCHANGED <<pids, strays, dois, issued>>
  BY <1>1 DEF ClearHot
<1>3. /\ s \in StoreType /\ s.gen = store[u].gen /\ s.keys = store[u].keys
      /\ s.cleared = store[u].cleared \cup {f}
  BY <1>1 DEF StoreType
<1>4. Availability(s) \in {"online", "on demand", "partial"} BY DEF Availability
<1>5. /\ json \in JsonType /\ json.seen = s /\ json.type = rows[u].json.type
      /\ json.value = rows[u].json.value
  <2> HIDE DEF s
  <2> QED BY <1>1, <1>3, <1>4 DEF JsonType, StoreType
<1>6. /\ row \in RowType /\ row.state = "live" /\ row.json = json
  <2> HIDE DEF json
  <2>1. rows[u].rev + 1 \in Nat BY <1>1
  <2> QED BY <1>1, <1>5, <2>1 DEF RowType
<1> HIDE DEF s, json, row
<1>7. PidsType' /\ RestType' /\ Told' BY <1>2 DEF IInv, PidsType, RestType, Told
<1>8. RowsType'
  <2>1. [rev |-> rows[u].rev + 1, json |-> json] \in [rev: Nat, json: JsonType]
    BY <1>1, <1>5
  <2>2. ASSUME NEW w \in Uuids
        PROVE  rows'[w].json.seen.gen <= store'[w].gen /\ store'[w].cleared \subseteq store'[w].keys
    <3>1. rows[w].json.seen.gen <= store[w].gen /\ store[w].cleared \subseteq store[w].keys
      BY DEF IInv, RowsType
    <3>2. CASE w = u BY <1>1, <1>2, <1>3, <1>5, <1>6, <3>1, <3>2
    <3>3. CASE w # u BY <1>1, <1>2, <3>1, <3>3
    <3> QED BY <3>2, <3>3
  <2>3. /\ rows' \in [Uuids -> RowType] /\ store' \in [Uuids -> StoreType]
        /\ search' \in [Uuids -> [rev: Nat, json: JsonType]]
    BY <1>1, <1>2, <1>3, <1>6, <2>1 DEF IInv, RowsType
  <2> QED BY <2>2, <2>3 DEF RowsType
<1>9. PidsResolve'
  <2>1. u \in Live BY DEF ClearHot
  <2> QED BY <1>2, <1>5, <1>6, <2>1, SameValueResolves
<1>10. LoadersOK'
  <2> DEFINE after(l) == [local[l] EXCEPT !.alone = @ /\ ~Running(l)]
  <2>1. local' = [l \in Loaders |-> after(l)] BY DEF ClearHot
  <2>2. ASSUME NEW l \in Loaders
        PROVE  /\ after(l) \in LocalType /\ after(l).pc = local[l].pc
               /\ after(l).cmd = local[l].cmd /\ after(l).left = local[l].left
               /\ after(l).row = local[l].row /\ after(l).body = local[l].body
    <3> DEFINE still == local[l].alone /\ ~Running(l)
    <3>1. still \in BOOLEAN /\ local[l] \in LocalType BY LocalTyped
    <3> HIDE DEF still
    <3>2. [local[l] EXCEPT !.alone = still] = after(l) BY <3>1 DEF still, LocalType
    <3> QED BY <3>1, <3>2 DEF LocalType
  <2>3. ASSUME NEW l \in Loaders PROVE Relies(local[l])'
    <3>1. Relies(local[l]) /\ local[l] \in LocalType BY LocalTyped
    <3>2. \A w \in Uuids : /\ store'[w].gen = store[w].gen /\ rows'[w].state = rows[w].state
                           /\ rows'[w].json.type = rows[w].json.type
                           /\ rows'[w].json.value = rows[w].json.value
      BY <1>1, <1>2, <1>3, <1>5, <1>6
    <3>3. local'[l] = after(l) BY <2>1
    <3> HIDE DEF after
    <3> QED BY <2>2, <3>1, <3>2, <3>3 DEF Relies
  <2>4. local' \in [Loaders -> LocalType]
    <3> HIDE DEF after
    <3> QED BY <2>1, <2>2
  <2> QED BY <2>3, <2>4 DEF LoadersOK
<1> QED BY <1>7, <1>8, <1>9, <1>10 DEF IInv

-----------------------------------------------------------------------------
(* DataCite.                                                                *)

LEMMA OnlyDois ==
    ASSUME IInv, UNCHANGED <<db, search, hot, local, issued>>,
           dois' \in [Dois -> DoiType], Told'
    PROVE  IInv'
<1>1. PidsType' /\ RowsType' /\ RestType' /\ PidsResolve'
  BY DEF IInv, db, PidsType, RowsType, RestType, PidsResolve, Live
<1>2. LoadersOK' BY DEF IInv, LoadersOK, Relies, db
<1> QED BY <1>1, <1>2 DEF IInv

LEMMA DoisSafe ==
    ASSUME IInv,
           \/ \E v \in Values : Register(v) \/ UpdateDoi(v)
           \/ \E d \in Dois : RegisterCommits(d) \/ RegisterDies(d)
           \/ SyncPidstore
    PROVE  IInv'
<1>1. dois \in [Dois -> DoiType] /\ Told BY DEF IInv, RestType
<1>2. ASSUME NEW v \in Values, Register(v) PROVE IInv'
  <2> DEFINE d == RecordOf(v).doi
  <2>1. dois' = [dois EXCEPT ![d] = [@ EXCEPT !.cite = v, !.posting = TRUE]] BY <1>2 DEF Register
  <2>2. v # "none" BY ValuesAreNamed
  <2> HIDE DEF d
  <2>3. dois' \in [Dois -> DoiType] /\ Told' BY <1>1, <2>1, <2>2 DEF DoiType, Told
  <2> QED BY <1>2, <2>3, OnlyDois DEF Register
<1>3. ASSUME NEW v \in Values, UpdateDoi(v) PROVE IInv'
  <2> DEFINE d == RecordOf(v).doi
  <2>1. dois' = [dois EXCEPT ![d] = [@ EXCEPT !.cite = v]] BY <1>3 DEF UpdateDoi
  <2>2. v # "none" BY ValuesAreNamed
  <2> HIDE DEF d
  <2>3. dois' \in [Dois -> DoiType] /\ Told' BY <1>1, <2>1, <2>2 DEF DoiType, Told
  <2> QED BY <1>3, <2>3, OnlyDois DEF UpdateDoi
<1>4. ASSUME NEW d \in Dois, RegisterCommits(d) PROVE IInv'
  <2>1. dois' \in [Dois -> DoiType] /\ Told'
    BY <1>1, <1>4 DEF RegisterCommits, DoiType, Told
  <2> QED BY <1>4, <2>1, OnlyDois DEF RegisterCommits
<1>5. ASSUME NEW d \in Dois, RegisterDies(d) PROVE IInv'
  <2>1. dois' \in [Dois -> DoiType] /\ Told'
    BY <1>1, <1>5 DEF RegisterDies, DoiType, Told
  <2> QED BY <1>5, <2>1, OnlyDois DEF RegisterDies
<1>6. ASSUME SyncPidstore PROVE IInv'
  <2>1. dois' \in [Dois -> DoiType] /\ Told'
    BY <1>1, <1>6 DEF SyncPidstore, DoiType, Told
  <2> QED BY <1>6, <2>1, OnlyDois DEF SyncPidstore
<1> QED BY <1>2, <1>3, <1>4, <1>5, <1>6

-----------------------------------------------------------------------------
(* The theorems.                                                            *)

LEMMA LoaderSafe ==
    ASSUME IInv, NEW l \in Loaders, Loader(l)
    PROVE  IInv'
<1>1. CASE Refuse(l) BY <1>1, StopSafe DEF Refuse
<1>2. CASE CreateFails(l) \/ UpdateFails(l) \/ DeleteFails(l) \/ IndexFails(l)
  BY <1>2, StopSafe DEF CreateFails, UpdateFails, DeleteFails, IndexFails
<1> QED BY <1>1, <1>2, GoingOnSafe, ReadSafe, CreateSafe, ReplaceFilesSafe, UpdateRowSafe,
           DeleteSafe, IndexSafe DEF Loader

LEMMA InitSafe == CatalogueInit => IInv
<1> SUFFICES ASSUME CatalogueInit PROVE IInv OBVIOUS
<1>1. PidsType
  <2>1. pids = <<>> BY DEF CatalogueInit
  <2>2. DOMAIN pids = {} BY <2>1
  <2>3. pids \in [{} -> Uuids] BY <2>1, <2>2
  <2> QED BY <2>2, <2>3 DEF PidsType
<1>2. RowsType
  <2>1. NoRow.json.seen.gen = 0 /\ NoStore.gen = 0 /\ NoStore.cleared = {}
    BY DEF NoRow, NoJson, NoStore
  <2> QED BY <2>1, ShapesTyped DEF CatalogueInit, RowsType
<1>3. RestType BY CatalogueFaultsAssumption DEF CatalogueInit, RestType, DoiType
<1>4. LoadersOK BY ShapesTyped, IdleRelies DEF CatalogueInit, LoadersOK
<1>5. PidsResolve
  <2>1. DOMAIN pids = {} BY DEF CatalogueInit
  <2>2. Live = {} BY DEF CatalogueInit, Live, NoRow
  <2> QED BY <2>1, <2>2 DEF PidsResolve
<1>6. Told BY DEF CatalogueInit, Told
<1> QED BY <1>1, <1>2, <1>3, <1>4, <1>5, <1>6 DEF IInv

LEMMA NextSafe == IInv /\ [CatalogueNext]_catalogueVars => IInv'
<1> SUFFICES ASSUME IInv, [CatalogueNext]_catalogueVars PROVE IInv' OBVIOUS
<1>1. ASSUME NEW l \in Loaders, Loader(l) PROVE IInv' BY <1>1, LoaderSafe
<1>2. ASSUME NEW l \in Loaders, Crash(l) PROVE IInv' BY <1>2, StopSafe DEF Crash
<1>3. ASSUME NEW l \in Loaders, NEW c \in Commands, Start(l, c) PROVE IInv' BY <1>3, StartSafe
<1>4. ASSUME NEW u \in Uuids, NEW f \in Paths, ClearHot(u, f) PROVE IInv' BY <1>4, ClearHotSafe
<1>5. CASE UNCHANGED catalogueVars
  BY <1>5 DEF IInv, catalogueVars, PidsType, RowsType, RestType, LoadersOK, Relies, PidsResolve,
              Live, Told
<1> QED BY <1>1, <1>2, <1>3, <1>4, <1>5, DoisSafe DEF CatalogueNext

\* The inductive invariant: the types, what a loader relies on between the
\* step that reads an entry and the steps that write it, and the PIDs.
THEOREM CatalogueSound == CatalogueSpec => []IInv
BY InitSafe, NextSafe, PTL DEF CatalogueSpec

\* Every variable holds a value of its type, no row knows files that its
\* buckets are still to get, and no tag outlives its object.
THEOREM CatalogueTyped == CatalogueSpec => []CatalogueTypeOK
<1>1. IInv => CatalogueTypeOK
  <2> SUFFICES ASSUME IInv PROVE CatalogueTypeOK OBVIOUS
  <2>1. DOMAIN pids \subseteq (PidTypes \cup {"oai"}) \X Values /\ Range(pids) \subseteq Uuids
    BY DEF IInv, PidsType, Range
  <2>2. ASSUME NEW u \in Uuids
        PROVE  /\ rows[u].state \in {"unused", "live", "deleted"} /\ rows[u].rev \in Nat
               /\ rows[u].json \in JsonType /\ search[u].json \in JsonType
               /\ store[u].keys \cup store[u].older \subseteq Paths
               /\ store[u].cleared \subseteq store[u].keys
               /\ rows[u].json.seen.gen <= store[u].gen
    BY DEF IInv, RowsType, RowType, StoreType
  <2>3. \A l \in Loaders : local[l].body \in JsonType /\ local[l].touched \subseteq Values
    BY DEF IInv, LoadersOK, LocalType
  <2> QED BY <2>1, <2>2, <2>3 DEF CatalogueTypeOK, IInv, RestType
<1> QED BY <1>1, CatalogueSound, PTL

\* Whatever commands run at once, fail or die, a PID leads to a live record
\* that it is one of the PIDs of, and no record loses one of its PIDs.
THEOREM PidsAlwaysResolve == CatalogueSpec => []PidsResolve
<1>1. IInv => PidsResolve BY DEF IInv
<1> QED BY <1>1, CatalogueSound, PTL

\* A DOI among the registered PIDs is known to DataCite, although any of the
\* commands may die between the two.
THEOREM RegisteredIsKnown == CatalogueSpec => []RegisteredAtDataCite
<1>1. IInv => RegisteredAtDataCite BY DEF IInv, Told, RegisteredAtDataCite
<1> QED BY <1>1, CatalogueSound, PTL

-----------------------------------------------------------------------------
(* A command that runs alone.                                               *)

\* The row of v, its document and its buckets are in agreement.
Agree(l, v) ==
    LET u == pids[<<Cmd(l).type, v>>]
    IN  /\ <<Cmd(l).type, v>> \in DOMAIN pids
        /\ search[u].json = rows[u].json
        /\ Filed(l) => rows[u].json.seen = store[u]

\* What holds of a command as long as nobody else has written: the row it has
\* in hand is the one of its entry, what it is to index is what it has written,
\* and it is done with the entries before.
Undisturbed(l) ==
    local[l].alone /\ local[l].pc # "idle" =>
        /\ \A k \in Loaders \ {l} : ~Running(k)
        /\ local[l].pc \in {"update", "written", "index"} =>
              /\ rows[local[l].row].state = "live"
              /\ rows[local[l].row].json.type = Cmd(l).type
              /\ rows[local[l].row].json.value = Data(l).value
        /\ local[l].pc = "written" => local[l].body.seen = store[local[l].row]
        /\ local[l].pc = "index" =>
              /\ local[l].body = rows[local[l].row].json
              /\ Filed(l) => local[l].body.seen = store[local[l].row]
        /\ local[l].touched # {} => ~Deleting(l)
        /\ local[l].pc \in {"create", "update", "written", "index"} => ~Deleting(l)
        /\ local[l].pc = "delete" => Deleting(l)
        /\ \A v \in local[l].touched :
              Agree(l, v) \/ (local[l].pc \in {"written", "index"} /\ v = Data(l).value)

AInv == IInv /\ \A l \in Loaders : Undisturbed(l)

\* The rows of two values are not the same.
LEMMA OwnRow ==
    ASSUME IInv, NEW type \in PidTypes, NEW v, <<type, v>> \in DOMAIN pids
    PROVE  LET u == pids[<<type, v>>]
           IN  /\ u \in Live /\ u \in Uuids
               /\ rows[u].json.type = type /\ rows[u].json.value = v
<1> DEFINE u == pids[<<type, v>>]
<1>1. u \in Live /\ <<type, v>> \in PidsOf(rows[u].json.type, rows[u].json.value)
  BY DEF IInv, PidsResolve
<1>2. type # "oai" BY DEF PidTypes
<1> QED BY <1>1, <1>2 DEF PidsOf, Live

LEMMA RowInHand ==
    ASSUME AInv, NEW l \in Loaders, local[l].alone,
           local[l].pc \in {"update", "written", "index"}
    PROVE  KnownPid(l) \in DOMAIN pids /\ pids[KnownPid(l)] = local[l].row
<1>1. /\ rows[local[l].row].state = "live" /\ local[l].row \in Uuids
      /\ rows[local[l].row].json.type = Cmd(l).type
      /\ rows[local[l].row].json.value = Data(l).value
  BY InHand DEF AInv, Undisturbed
<1>2. KnownPid(l) \in PidsOf(rows[local[l].row].json.type, rows[local[l].row].json.value)
  BY <1>1 DEF KnownPid, PidsOf
<1> QED BY <1>1, <1>2 DEF AInv, IInv, PidsResolve, Live

\* A loader that acts is not another one that is alone.
LEMMA OthersUndisturbed ==
    ASSUME AInv, NEW l \in Loaders, Running(l), NEW loc, Becomes(l, loc),
           NEW k \in Loaders \ {l}
    PROVE  Undisturbed(k)'
<1>1. local'[k] = local[k] BY DEF Becomes, AInv, IInv, LoadersOK
<1>2. ~local[k].alone \/ local[k].pc = "idle" BY DEF AInv, Undisturbed
<1> QED BY <1>1, <1>2 DEF Undisturbed

\* Steps that leave the portal as it is.
LEMMA QuietUndisturbed ==
    ASSUME AInv, NEW l \in Loaders, Running(l), NEW loc \in LocalType, Becomes(l, loc),
           UNCHANGED <<db, search>>,
           loc.alone = local[l].alone, loc.cmd = local[l].cmd,
           loc.touched = local[l].touched, local[l].pc = "entry",
           \/ loc.pc \in {"entry", "finished"}
           \/ loc.pc = "create" /\ ~Deleting(l)
           \/ loc.pc = "delete" /\ Deleting(l)
           \/ /\ loc.pc = "update" /\ ~Deleting(l) /\ rows[loc.row].state = "live"
              /\ rows[loc.row].json.type = loc.cmd.type
              /\ rows[loc.row].json.value = Head(loc.left).value
    PROVE  Undisturbed(l)'
<1>1. local'[l] = loc BY DEF Becomes, AInv, IInv, LoadersOK
<1>2. \A k \in Loaders \ {l} : local'[k] = local[k] BY DEF Becomes, AInv, IInv, LoadersOK
<1>3. Filed(l)' = Filed(l) /\ Deleting(l)' = Deleting(l) /\ Cmd(l)' = Cmd(l)
  BY <1>1 DEF Filed, Deleting, Cmd
<1>4. \A v : Agree(l, v)' = Agree(l, v) BY <1>3 DEF Agree, db
<1>5. SUFFICES ASSUME loc.alone PROVE Undisturbed(l)' BY <1>1 DEF Undisturbed
<1>6. \A k \in Loaders \ {l} : ~Running(k)' BY <1>2, <1>5 DEF AInv, Undisturbed, Running
<1>7. \A v \in loc.touched : Agree(l, v)' BY <1>4, <1>5 DEF AInv, Undisturbed
<1>8. loc.touched # {} => ~Deleting(l) BY <1>5 DEF AInv, Undisturbed
<1> QED BY <1>1, <1>3, <1>6, <1>7, <1>8 DEF Undisturbed, Data, Cmd, db

LEMMA QuietStepsUndisturbed ==
    ASSUME AInv, NEW l \in Loaders, Finish(l) \/ Skip(l) \/ Read(l)
    PROVE  Undisturbed(l)'
<1>1. local[l] \in LocalType /\ Relies(local[l]) BY LocalTyped DEF AInv
<1>2. CASE Finish(l)
  <2> DEFINE loc == [local[l] EXCEPT !.pc = "finished"]
  <2>1. /\ loc \in LocalType /\ loc.pc = "finished" /\ loc.alone = local[l].alone
        /\ loc.cmd = local[l].cmd /\ loc.touched = local[l].touched
    BY <1>1 DEF LocalType, Places
  <2>2. /\ Becomes(l, loc) /\ local[l].pc = "entry" /\ Running(l)
        /\ UNCHANGED <<db, search>>
    BY <1>2 DEF Finish, Running, Ended
  <2> HIDE DEF loc
  <2> QED BY <2>1, <2>2, QuietUndisturbed
<1>3. CASE Skip(l)
  <2> DEFINE loc == NextEntry(l, {})
  <2>1. loc \in LocalType /\ loc.pc = "entry"
    BY <1>3, NextEntryTyped DEF Skip, AtEntry, AInv
  <2>2. loc.alone = local[l].alone /\ loc.cmd = local[l].cmd /\ loc.touched = local[l].touched
    BY <1>1 DEF NextEntry, LocalType
  <2>3. /\ Becomes(l, loc) /\ local[l].pc = "entry" /\ Running(l)
        /\ UNCHANGED <<db, search>>
    BY <1>3 DEF Skip, AtEntry, Running, Ended
  <2> HIDE DEF loc
  <2> QED BY <2>1, <2>2, <2>3, QuietUndisturbed
<1>4. CASE Read(l)
  <2>1. /\ local[l].pc = "entry" /\ local[l].left # <<>> /\ Running(l) /\ UNCHANGED <<db, search>>
    BY <1>4 DEF Read, AtEntry, Running, Ended
  <2>2. CASE KnownPid(l) \in DOMAIN pids
    <3> DEFINE u == pids[KnownPid(l)]
               loc == [local[l] EXCEPT !.pc = IF Deleting(l) THEN "delete" ELSE "update",
                                       !.row = u, !.base = rows[u].rev]
    <3>1. Becomes(l, loc) /\ u \in Live BY <1>4, <2>2 DEF Read
    <3>2. /\ u \in Uuids /\ rows[u].state = "live" /\ rows[u].rev \in Nat
          /\ rows[u].json.type = Cmd(l).type /\ rows[u].json.value = Data(l).value
      <4>1. Cmd(l).type \in PidTypes BY <1>1, RunsTyped DEF Cmd
      <4>2. /\ u \in Uuids /\ rows[u].json.type = Cmd(l).type
            /\ rows[u].json.value = Data(l).value
        BY <2>2, <4>1, OwnRow DEF KnownPid, AInv
      <4> QED BY <3>1, <4>2 DEF Live, AInv, IInv, RowsType, RowType
    <3>3. /\ loc \in LocalType /\ loc.alone = local[l].alone /\ loc.cmd = local[l].cmd
          /\ loc.touched = local[l].touched /\ loc.row = u /\ loc.left = local[l].left
          /\ loc.pc = IF Deleting(l) THEN "delete" ELSE "update"
      BY <1>1, <3>2 DEF LocalType, Places
    <3> HIDE DEF loc, u
    <3> QED BY <2>1, <3>1, <3>2, <3>3, QuietUndisturbed DEF Cmd, Data
  <2>3. CASE KnownPid(l) \notin DOMAIN pids
    <3> DEFINE loc == [local[l] EXCEPT !.pc = "create"]
    <3>1. Becomes(l, loc) /\ ~Deleting(l) BY <1>4, <2>3 DEF Read, Deleting
    <3>2. /\ loc \in LocalType /\ loc.pc = "create" /\ loc.alone = local[l].alone
          /\ loc.cmd = local[l].cmd /\ loc.touched = local[l].touched
      BY <1>1 DEF LocalType, Places
    <3> HIDE DEF loc
    <3> QED BY <2>1, <3>1, <3>2, QuietUndisturbed
  <2> QED BY <2>2, <2>3
<1> QED BY <1>2, <1>3, <1>4

\* A step that writes the row u and what depends on it leaves the other
\* entries of the command as they are.
LEMMA OthersAgree ==
    ASSUME IInv, NEW l \in Loaders, NEW u \in Uuids, NEW v, Agree(l, v),
           local[l] \in LocalType, Cmd(l)' = Cmd(l),
           pids[<<Cmd(l).type, v>>] # u,
           \A w \in Uuids \ {u} : /\ rows'[w] = rows[w] /\ store'[w] = store[w]
                                  /\ search'[w] = search[w],
           <<Cmd(l).type, v>> \in DOMAIN pids',
           pids'[<<Cmd(l).type, v>>] = pids[<<Cmd(l).type, v>>]
    PROVE  Agree(l, v)'
<1>1. Filed(l)' = Filed(l) BY DEF Filed
<1>2. Cmd(l).type \in PidTypes BY RunsTyped DEF Cmd
<1>3. pids[<<Cmd(l).type, v>>] \in Uuids BY <1>2, OwnRow DEF Agree
<1> QED BY <1>1, <1>3 DEF Agree

LEMMA CreateUndisturbed ==
    ASSUME AInv, NEW l \in Loaders, Create(l), local[l].alone
    PROVE  Undisturbed(l)'
<1> DEFINE e == Data(l)
           type == Cmd(l).type
           mine == PidsOf(type, e.value)
<1>1. local[l].pc = "create" /\ mine \cap DOMAIN pids = {} BY DEF Create
<1>2. /\ local[l] \in LocalType /\ local[l].left # <<>> /\ e \in Entries /\ e # Broken
      /\ e.value \in Values /\ type \in PidTypes
  BY <1>1, InHand DEF AInv
<1> DEFINE Made(lost) == IF Filed(l) THEN Stored(e, 1, lost, {}) ELSE {NoStore}
           Creation(u, lost, s) ==
             LET body == IF Filed(l) THEN WithFiles(type, e, s) ELSE WithoutFiles(type, e, NoJson)
             IN  /\ rows[u].state = "unused"
                 /\ pids' = [p \in DOMAIN pids \cup mine |-> IF p \in mine THEN u ELSE pids[p]]
                 /\ store' = [store EXCEPT ![u] = s] /\ strays' = strays \cup lost
                 /\ rows' = [rows EXCEPT ![u] = [state |-> "live", rev |-> 1, json |-> body]]
                 /\ Becomes(l, [local[l] EXCEPT !.pc = "index", !.row = u, !.body = body])
<1>c. PICK u \in Uuids, lost \in Lost(l) : \E s \in Made(lost) : Creation(u, lost, s)
  BY DEF Create
<1>3. PICK s \in Made(lost) : Creation(u, lost, s)
  BY <1>c
<1> DEFINE body == IF Filed(l) THEN WithFiles(type, e, s) ELSE WithoutFiles(type, e, NoJson)
           loc == [local[l] EXCEPT !.pc = "index", !.row = u, !.body = body]
<1>4. body.type = type /\ body.value = e.value /\ (Filed(l) => body.seen = s)
  <2>1. CASE Filed(l)
    <3>1. body = WithFiles(type, e, s) BY <2>1
    <3> QED BY <3>1 DEF WithFiles
  <2>2. CASE ~Filed(l)
    <3>1. body = WithoutFiles(type, e, NoJson) BY <2>2
    <3> QED BY <2>2, <3>1 DEF WithoutFiles
  <2> QED BY <2>1, <2>2
<1>5. /\ rows' = [rows EXCEPT ![u] = [state |-> "live", rev |-> 1, json |-> body]]
      /\ store' = [store EXCEPT ![u] = s] /\ search' = search
      /\ pids' = [p \in DOMAIN pids \cup mine |-> IF p \in mine THEN u ELSE pids[p]]
      /\ rows[u].state = "unused" /\ local' = [local EXCEPT ![l] = loc]
  BY <1>3 DEF Create, Becomes
<1> HIDE DEF body
<1>6. /\ loc.pc = "index" /\ loc.row = u /\ loc.body = body /\ loc.cmd = local[l].cmd
      /\ loc.left = local[l].left /\ loc.touched = local[l].touched
  BY <1>2 DEF LocalType
<1> HIDE DEF loc
<1>7. local'[l] = loc /\ \A k \in Loaders \ {l} : local'[k] = local[k]
  BY <1>5 DEF AInv, IInv, LoadersOK
<1>8. rows'[u] = [state |-> "live", rev |-> 1, json |-> body] /\ store'[u] = s
      /\ \A w \in Uuids \ {u} : /\ rows'[w] = rows[w] /\ store'[w] = store[w]
                                 /\ search'[w] = search[w]
  BY <1>5 DEF AInv, IInv, RowsType
<1>9. Cmd(l)' = Cmd(l) /\ Data(l)' = Data(l) /\ Filed(l)' = Filed(l) /\ Deleting(l)' = Deleting(l)
  BY <1>6, <1>7 DEF Cmd, Data, Filed, Deleting
<1>10. ASSUME NEW v \in local[l].touched PROVE Agree(l, v)'
  <2>1. Agree(l, v) BY <1>1 DEF AInv, Undisturbed
  <2>2. <<type, v>> \in DOMAIN pids /\ pids[<<type, v>>] \in Live
    BY <1>2, <2>1, OwnRow DEF Agree, AInv
  <2>3. pids[<<type, v>>] # u BY <1>5, <2>2 DEF Live
  <2>4. <<type, v>> \in DOMAIN pids' /\ pids'[<<type, v>>] = pids[<<type, v>>]
    BY <1>1, <1>5, <2>2
  <2> QED BY <1>2, <1>8, <1>9, <2>1, <2>3, <2>4, OthersAgree DEF AInv
<1>11. /\ ~Deleting(l)
       /\ \A k \in Loaders \ {l} : ~Running(k)'
  BY <1>1, <1>7 DEF AInv, Undisturbed, Running
<1>12. /\ rows'[u].state = "live" /\ rows'[u].json = body /\ body.type = Cmd(l)'.type
       /\ body.value = Data(l)'.value /\ (Filed(l)' => body.seen = store'[u])
  BY <1>4, <1>8, <1>9
<1> HIDE DEF e, type, mine
<1>13. /\ local'[l].pc = "index" /\ local'[l].row = u /\ local'[l].body = body
       /\ local'[l].touched = local[l].touched
  BY <1>6, <1>7
<1> QED BY <1>9, <1>10, <1>11, <1>12, <1>13 DEF Undisturbed

\* A touched value that is not the one of the row in hand has another row.
LEMMA AnotherRow ==
    ASSUME AInv, NEW l \in Loaders, local[l] \in LocalType,
           NEW u \in Uuids, rows[u].json.value = Data(l).value,
           NEW v, v # Data(l).value, Agree(l, v)
    PROVE  pids[<<Cmd(l).type, v>>] # u
<1>1. Cmd(l).type \in PidTypes BY RunsTyped DEF Cmd
<1> QED BY <1>1, OwnRow DEF Agree, AInv

LEMMA ReplaceFilesUndisturbed ==
    ASSUME AInv, NEW l \in Loaders, ReplaceFiles(l), local[l].alone
    PROVE  Undisturbed(l)'
<1> DEFINE u == local[l].row
           e == Data(l)
           type == Cmd(l).type
<1>1. local[l].pc = "update" /\ Filed(l) /\ UNCHANGED <<pids, rows, search>> BY DEF ReplaceFiles
<1>2. local[l] \in LocalType /\ u \in Uuids BY <1>1, InHand DEF AInv
<1> DEFINE Replacement(lost, s) ==
             /\ store' = [store EXCEPT ![u] = s] /\ strays' = strays \cup lost
             /\ Becomes(l, [local[l] EXCEPT !.pc = "written", !.body = WithFiles(type, e, s)])
<1>c. PICK lost \in Lost(l) :
        \E s \in Stored(e, store[u].gen + 1, lost, store[u].older) : Replacement(lost, s)
  BY DEF ReplaceFiles
<1>3. PICK s \in Stored(e, store[u].gen + 1, lost, store[u].older) : Replacement(lost, s)
  BY <1>c
<1> DEFINE body == WithFiles(type, e, s)
           loc == [local[l] EXCEPT !.pc = "written", !.body = body]
<1>4. body.seen = s BY DEF WithFiles
<1>5. store' = [store EXCEPT ![u] = s] /\ local' = [local EXCEPT ![l] = loc]
  BY <1>3 DEF Becomes
<1> HIDE DEF body
<1>6. /\ loc.pc = "written" /\ loc.row = u /\ loc.body = body /\ loc.cmd = local[l].cmd
      /\ loc.left = local[l].left /\ loc.touched = local[l].touched
  BY <1>2 DEF LocalType
<1> HIDE DEF loc
<1>7. local'[l] = loc /\ \A k \in Loaders \ {l} : local'[k] = local[k]
  BY <1>5 DEF AInv, IInv, LoadersOK
<1>8. /\ store'[u] = s
      /\ \A w \in Uuids \ {u} : /\ rows'[w] = rows[w] /\ store'[w] = store[w]
                                 /\ search'[w] = search[w]
  BY <1>1, <1>2, <1>5 DEF AInv, IInv, RowsType
<1>9. Cmd(l)' = Cmd(l) /\ Data(l)' = Data(l) /\ Filed(l)' = Filed(l) /\ Deleting(l)' = Deleting(l)
  BY <1>6, <1>7 DEF Cmd, Data, Filed, Deleting
<1>10. /\ rows[u].state = "live" /\ rows[u].json.type = type /\ rows[u].json.value = e.value
       /\ ~Deleting(l)
  BY <1>1 DEF AInv, Undisturbed
<1>11. ASSUME NEW v \in local[l].touched, v # e.value PROVE Agree(l, v)'
  <2>1. Agree(l, v) BY <1>1 DEF AInv, Undisturbed
  <2>2. pids[<<type, v>>] # u BY <1>2, <1>10, <1>11, <2>1, AnotherRow
  <2>3. <<type, v>> \in DOMAIN pids BY <2>1 DEF Agree
  <2> QED BY <1>1, <1>2, <1>8, <1>9, <2>1, <2>2, <2>3, OthersAgree DEF AInv
<1>12. \A k \in Loaders \ {l} : ~Running(k)' BY <1>1, <1>7 DEF AInv, Undisturbed, Running
<1> HIDE DEF e, type
<1>13. /\ local'[l].pc = "written" /\ local'[l].row = u /\ local'[l].body.seen = store'[u]
       /\ local'[l].touched = local[l].touched /\ rows'[u] = rows[u]
  BY <1>1, <1>4, <1>6, <1>7, <1>8
<1> QED BY <1>9, <1>10, <1>11, <1>12, <1>13 DEF Undisturbed, e, type

LEMMA UpdateRowUndisturbed ==
    ASSUME AInv, NEW l \in Loaders, UpdateRow(l), local[l].alone
    PROVE  Undisturbed(l)'
<1> DEFINE u == local[l].row
           e == Data(l)
           type == Cmd(l).type
           body == Updated(l)
           loc == [local[l] EXCEPT !.pc = "index", !.body = body]
           row == [rows[u] EXCEPT !.rev = @ + 1, !.json = body]
<1>1. local[l].pc \in {"update", "written"} /\ rows[u].state = "live"
  BY DEF UpdateRow, Updating, Current
<1>2. local[l] \in LocalType /\ Relies(local[l]) /\ u \in Uuids
  BY <1>1, InHand, LocalTyped DEF AInv
<1>3. rows \in [Uuids -> RowType] /\ rows[u] \in RowType BY <1>2 DEF AInv, IInv, RowsType
<1>4. /\ rows[u].json.type = type /\ rows[u].json.value = e.value /\ ~Deleting(l)
  BY <1>1 DEF AInv, Undisturbed
<1>5. body.type = type /\ body.value = e.value /\ (Filed(l) => body.seen = store[u])
  <2>1. CASE Filed(l)
    <3>1. local[l].pc = "written" /\ body = local[l].body
      BY <1>1, <2>1 DEF UpdateRow, Updating, Updated
    <3>2. body.seen = store[u] BY <3>1 DEF AInv, Undisturbed
    <3> QED BY <1>2, <3>1, <3>2 DEF Relies, Data, Cmd
  <2>2. CASE ~Filed(l)
    <3>1. body = WithoutFiles(type, e, rows[u].json) BY <2>2 DEF Updated
    <3> QED BY <2>2, <3>1 DEF WithoutFiles
  <2> QED BY <2>1, <2>2
<1>6. /\ rows' = [rows EXCEPT ![u] = row] /\ local' = [local EXCEPT ![l] = loc]
      /\ UNCHANGED <<pids, store, search>>
  BY <1>2, <1>3 DEF UpdateRow, Becomes
<1> HIDE DEF body
<1>7. row.state = "live" /\ row.json = body BY <1>1, <1>3 DEF RowType
<1>8. /\ loc.pc = "index" /\ loc.row = u /\ loc.body = body /\ loc.cmd = local[l].cmd
      /\ loc.left = local[l].left /\ loc.touched = local[l].touched
  BY <1>2 DEF LocalType
<1> HIDE DEF loc, row
<1>9. local'[l] = loc /\ \A k \in Loaders \ {l} : local'[k] = local[k]
  BY <1>6 DEF AInv, IInv, LoadersOK
<1>10. /\ rows'[u] = row
       /\ \A w \in Uuids \ {u} : /\ rows'[w] = rows[w] /\ store'[w] = store[w]
                                  /\ search'[w] = search[w]
  BY <1>2, <1>3, <1>6
<1>11. Cmd(l)' = Cmd(l) /\ Data(l)' = Data(l) /\ Filed(l)' = Filed(l) /\ Deleting(l)' = Deleting(l)
  BY <1>8, <1>9 DEF Cmd, Data, Filed, Deleting
<1>12. ASSUME NEW v \in local[l].touched, v # e.value PROVE Agree(l, v)'
  <2>1. Agree(l, v) BY <1>1, <1>12 DEF AInv, Undisturbed
  <2>2. pids[<<type, v>>] # u BY <1>2, <1>4, <1>12, <2>1, AnotherRow
  <2>3. <<type, v>> \in DOMAIN pids BY <2>1 DEF Agree
  <2> QED BY <1>2, <1>6, <1>10, <1>11, <2>1, <2>2, <2>3, OthersAgree DEF AInv
<1>13. \A k \in Loaders \ {l} : ~Running(k)' BY <1>1, <1>9 DEF AInv, Undisturbed, Running
<1> HIDE DEF e, type
<1>14. /\ local'[l].pc = "index" /\ local'[l].row = u /\ local'[l].body = body
       /\ local'[l].touched = local[l].touched /\ rows'[u].json = body
       /\ rows'[u].state = "live" /\ store' = store
  BY <1>6, <1>7, <1>8, <1>9, <1>10
<1> QED BY <1>4, <1>5, <1>11, <1>12, <1>13, <1>14 DEF Undisturbed, e, type

LEMMA DeleteUndisturbed ==
    ASSUME AInv, NEW l \in Loaders, Delete(l), local[l].alone
    PROVE  Undisturbed(l)'
<1> DEFINE loc == NextEntry(l, {})
<1>1. local[l].pc = "delete" /\ Becomes(l, loc) BY DEF Delete
<1>2. local[l] \in LocalType /\ local[l].left # <<>> BY <1>1, InHand DEF AInv
<1>3. loc.pc = "entry" /\ loc.touched = local[l].touched BY <1>2 DEF NextEntry, LocalType
<1>4. local[l].touched = {} BY <1>1 DEF AInv, Undisturbed
<1> HIDE DEF loc
<1>5. local'[l] = loc /\ \A k \in Loaders \ {l} : local'[k] = local[k]
  BY <1>1 DEF Becomes, AInv, IInv, LoadersOK
<1>6. \A k \in Loaders \ {l} : ~Running(k)' BY <1>1, <1>5 DEF AInv, Undisturbed, Running
<1> QED BY <1>3, <1>4, <1>5, <1>6 DEF Undisturbed

LEMMA IndexUndisturbed ==
    ASSUME AInv, NEW l \in Loaders, Index(l), local[l].alone
    PROVE  Undisturbed(l)'
<1> DEFINE u == local[l].row
           type == Cmd(l).type
           loc == NextEntry(l, {Data(l).value})
           doc == [rev |-> rows[u].rev, json |-> local[l].body]
<1>1. local[l].pc = "index" BY DEF Index
<1>2. local[l] \in LocalType /\ local[l].left # <<>> /\ u \in Uuids BY <1>1, InHand DEF AInv
<1> PICK x : x = Data(l).value OBVIOUS
<1>3. /\ search' = [search EXCEPT ![u] = doc] /\ local' = [local EXCEPT ![l] = loc]
      /\ UNCHANGED <<pids, rows, store>>
  BY DEF Index, Becomes, db
<1>4. /\ loc.pc = "entry" /\ loc.cmd = local[l].cmd
      /\ loc.touched = local[l].touched \cup {x}
  BY <1>2 DEF NextEntry, LocalType
<1> HIDE DEF loc
<1>5. local'[l] = loc /\ \A k \in Loaders \ {l} : local'[k] = local[k]
  BY <1>3 DEF AInv, IInv, LoadersOK
<1>6. Cmd(l)' = Cmd(l) /\ Filed(l)' = Filed(l) /\ Deleting(l)' = Deleting(l)
  BY <1>4, <1>5 DEF Cmd, Filed, Deleting
<1>7. /\ search'[u].json = local[l].body
      /\ \A w \in Uuids \ {u} : /\ rows'[w] = rows[w] /\ store'[w] = store[w]
                                 /\ search'[w] = search[w]
  BY <1>2, <1>3 DEF AInv, IInv, RowsType
<1>8. /\ local[l].body = rows[u].json /\ (Filed(l) => local[l].body.seen = store[u])
      /\ rows[u].json.value = x /\ ~Deleting(l)
  BY <1>1 DEF AInv, Undisturbed
<1>9. Agree(l, x)'
  <2>1. <<type, x>> \in DOMAIN pids /\ pids[<<type, x>>] = u
    BY <1>1, RowInHand DEF KnownPid
  <2> QED BY <1>3, <1>6, <1>7, <1>8, <2>1 DEF Agree
<1>10. ASSUME NEW v \in local[l].touched, v # x PROVE Agree(l, v)'
  <2>1. Agree(l, v) BY <1>1, <1>10 DEF AInv, Undisturbed
  <2>2. pids[<<type, v>>] # u BY <1>2, <1>8, <1>10, <2>1, AnotherRow
  <2>3. <<type, v>> \in DOMAIN pids BY <2>1 DEF Agree
  <2> QED BY <1>2, <1>3, <1>6, <1>7, <2>1, <2>2, <2>3, OthersAgree DEF AInv
<1>11. \A k \in Loaders \ {l} : ~Running(k)' BY <1>1, <1>5 DEF AInv, Undisturbed, Running
<1>12. local'[l].pc = "entry" /\ local'[l].touched = local[l].touched \cup {x}
  BY <1>4, <1>5
<1> QED BY <1>6, <1>8, <1>9, <1>10, <1>11, <1>12 DEF Undisturbed, Deleting

\* A command that has stopped is not disturbed by anything.
LEMMA StoppedUndisturbed ==
    ASSUME AInv, NEW l \in Loaders, Stop(l)
    PROVE  Undisturbed(l)'
<1>1. local'[l].pc = "idle" BY DEF Stop, Becomes, AInv, IInv, LoadersOK, Idle
<1> QED BY <1>1 DEF Undisturbed

\* Every step of a loader changes only what that loader knows.
LEMMA LoaderBecomes ==
    ASSUME NEW l \in Loaders, Loader(l) \/ Crash(l)
    PROVE  Running(l) /\ \E loc : Becomes(l, loc)
<1>1. CASE Finish(l) \/ Skip(l) \/ Read(l) \/ Refuse(l)
  BY <1>1 DEF Finish, Skip, Read, Refuse, Stop, AtEntry, Running, Ended
<1>2. CASE CreateFails(l) \/ UpdateFails(l) \/ DeleteFails(l) \/ IndexFails(l) \/ Crash(l)
  BY <1>2 DEF CreateFails, UpdateFails, DeleteFails, IndexFails, Crash, Stop, Updating, Running, Ended
<1>3. CASE Create(l) BY <1>3 DEF Create, Running, Ended
<1>4. CASE ReplaceFiles(l) BY <1>4 DEF ReplaceFiles, Running, Ended
<1>5. CASE UpdateRow(l) BY <1>5 DEF UpdateRow, Updating, Running, Ended
<1>6. CASE Delete(l) \/ Index(l) BY <1>6 DEF Delete, Index, Running, Ended
<1> QED BY <1>1, <1>2, <1>3, <1>4, <1>5, <1>6 DEF Loader

LEMMA LoaderUndisturbed ==
    ASSUME AInv, NEW l \in Loaders, Loader(l) \/ Crash(l), NEW k \in Loaders
    PROVE  Undisturbed(k)'
<1>1. CASE k # l BY <1>1, LoaderBecomes, OthersUndisturbed
<1>2. CASE k = l
  <2>1. CASE ~local[l].alone
    <3>1. ~local'[l].alone \/ local'[l].pc = "idle"
      <4>1. local[l] \in LocalType BY LocalTyped DEF AInv
      <4>2. local \in [Loaders -> LocalType] BY DEF AInv, IInv, LoadersOK
      <4>3. CASE Finish(l) BY <2>1, <4>1, <4>2, <4>3 DEF Finish, Becomes, LocalType
      <4>4. CASE Skip(l) BY <2>1, <4>1, <4>2, <4>4 DEF Skip, Becomes, NextEntry, LocalType
      <4>5. CASE Read(l)
        <5>1. CASE KnownPid(l) \in DOMAIN pids
          <6> DEFINE to == IF Deleting(l) THEN "delete" ELSE "update"
                     u == pids[KnownPid(l)]
          <6>1. local' = [local EXCEPT ![l] = [@ EXCEPT !.pc = to, !.row = u, !.base = rows[u].rev]]
            BY <4>5, <5>1, <4>2 DEF Read, Becomes
          <6> HIDE DEF to, u
          <6> QED BY <2>1, <4>1, <4>2, <6>1 DEF LocalType
        <5>2. CASE KnownPid(l) \notin DOMAIN pids
          BY <2>1, <4>1, <4>2, <4>5, <5>2 DEF Read, Becomes, LocalType
        <5> QED BY <5>1, <5>2
      <4>6. CASE Create(l) BY <2>1, <4>1, <4>2, <4>6 DEF Create, Becomes, LocalType
      <4>7. CASE ReplaceFiles(l) BY <2>1, <4>1, <4>2, <4>7 DEF ReplaceFiles, Becomes, LocalType
      <4>8. CASE UpdateRow(l) BY <2>1, <4>1, <4>2, <4>8 DEF UpdateRow, Becomes, LocalType
      <4>9. CASE Delete(l) BY <2>1, <4>1, <4>2, <4>9 DEF Delete, Becomes, NextEntry, LocalType
      <4>10. CASE Index(l) BY <2>1, <4>1, <4>2, <4>10 DEF Index, Becomes, NextEntry, LocalType
      <4>11. CASE Stop(l) BY <4>2, <4>11 DEF Stop, Becomes, Idle
      <4> QED BY <4>3, <4>4, <4>5, <4>6, <4>7, <4>8, <4>9, <4>10, <4>11
             DEF Loader, Refuse, CreateFails, UpdateFails, DeleteFails, IndexFails, Crash
    <3> QED BY <1>2, <3>1 DEF Undisturbed
  <2>2. CASE local[l].alone
    <3>1. Stop(l) => Undisturbed(l)' BY StoppedUndisturbed
    <3> QED BY <1>2, <2>2, <3>1, QuietStepsUndisturbed, CreateUndisturbed, ReplaceFilesUndisturbed,
               UpdateRowUndisturbed, DeleteUndisturbed, IndexUndisturbed
            DEF Loader, Refuse, CreateFails, UpdateFails, DeleteFails, IndexFails, Crash
  <2> QED BY <2>1, <2>2
<1> QED BY <1>1, <1>2

LEMMA StartUndisturbed ==
    ASSUME AInv, NEW l \in Loaders, NEW c \in Commands, Start(l, c), NEW k \in Loaders
    PROVE  Undisturbed(k)'
<1> DEFINE nobody == \A o \in Loaders \ {l} : ~Running(o)
           first == [Idle EXCEPT !.pc = "entry", !.cmd = c, !.left = c.entries, !.alone = nobody]
<1>1. local' = [j \in Loaders |-> IF j = l THEN first
                                  ELSE IF Running(j) THEN [local[j] EXCEPT !.alone = FALSE] ELSE Idle]
  BY DEF Start
<1>2. first.pc = "entry" /\ first.alone = nobody /\ first.touched = {} BY DEF Idle
<1> HIDE DEF first
<1>3. CASE k = l
  <2>1. local'[l] = first BY <1>1
  <2>2. nobody => \A j \in Loaders \ {l} : ~Running(j)'
    <3> SUFFICES ASSUME nobody, NEW j \in Loaders \ {l} PROVE ~Running(j)' OBVIOUS
    <3>1. local'[j] = Idle BY <1>1
    <3> QED BY <3>1 DEF Running, Ended, Idle
  <2>3. first.alone => \A j \in Loaders \ {l} : ~Running(j)' BY <1>2, <2>2
  <2> HIDE DEF nobody
  <2> QED BY <1>2, <1>3, <2>1, <2>3 DEF Undisturbed
<1>4. CASE k # l
  <2>1. local[k] \in LocalType BY LocalTyped DEF AInv
  <2>2. ~local'[k].alone \/ local'[k].pc = "idle" BY <1>1, <1>4, <2>1 DEF Idle, LocalType
  <2> QED BY <2>2 DEF Undisturbed
<1> QED BY <1>3, <1>4

LEMMA ClearHotUndisturbed ==
    ASSUME AInv, NEW u \in Uuids, NEW f \in Paths, ClearHot(u, f), NEW l \in Loaders
    PROVE  Undisturbed(l)'
<1> DEFINE s == [store[u] EXCEPT !.cleared = @ \cup {f}]
           json == [rows[u].json EXCEPT !.seen = s, !.avail = Availability(s)]
           row == [rows[u] EXCEPT !.rev = @ + 1, !.json = json]
           doc == [rev |-> rows[u].rev + 1, json |-> json]
           still == local[l].alone /\ ~Running(l)
           loc == [local[l] EXCEPT !.alone = still]
<1>1. local[l] \in LocalType BY LocalTyped DEF AInv
<1>2. /\ rows \in [Uuids -> RowType] /\ store \in [Uuids -> StoreType]
      /\ rows[u] \in RowType /\ rows[u].json \in JsonType
  BY DEF AInv, IInv, RowsType, RowType
<1>3. /\ store' = [store EXCEPT ![u] = s] /\ rows' = [rows EXCEPT ![u] = row]
      /\ search' = [search EXCEPT ![u] = doc] /\ pids' = pids
  BY <1>2 DEF ClearHot
<1>4. local'[l] = loc
  <2>1. local'[l] = [local[l] EXCEPT !.alone = @ /\ ~Running(l)] BY DEF ClearHot
  <2> QED BY <1>1, <2>1 DEF LocalType
<1> HIDE DEF still
<1>5. /\ loc.alone = still /\ loc.pc = local[l].pc /\ loc.cmd = local[l].cmd
      /\ loc.touched = local[l].touched
  BY <1>1 DEF LocalType
<1> HIDE DEF loc
<1>6. SUFFICES ASSUME still, local[l].pc # "idle" PROVE Undisturbed(l)'
  BY <1>4, <1>5 DEF Undisturbed
<1>7. local[l].alone /\ local[l].pc = "finished" BY <1>1, <1>6 DEF still, Running, Ended, LocalType
<1>8. \A k \in Loaders \ {l} : ~Running(k)'
  <2> SUFFICES ASSUME NEW k \in Loaders \ {l} PROVE ~Running(k)' OBVIOUS
  <2>1. ~Running(k) /\ local[k] \in LocalType BY <1>7, LocalTyped DEF AInv, Undisturbed
  <2> DEFINE quiet == local[k].alone /\ ~Running(k)
  <2>2. local'[k] = [local[k] EXCEPT !.alone = quiet] BY <2>1 DEF ClearHot, LocalType
  <2> HIDE DEF quiet
  <2>3. local'[k].pc = local[k].pc BY <2>1, <2>2 DEF LocalType
  <2> QED BY <2>1, <2>3 DEF Running
<1>9. /\ row.json = json /\ json.seen = s
  <2> HIDE DEF s
  <2>1. json.seen = s BY <1>2 DEF JsonType
  <2> HIDE DEF json
  <2> QED BY <1>2, <2>1 DEF RowType
<1>10. doc.json = json OBVIOUS
<1> HIDE DEF s, json, row, doc
<1>11. Cmd(l)' = Cmd(l) /\ Filed(l)' = Filed(l) /\ Deleting(l)' = Deleting(l)
  BY <1>4, <1>5 DEF Cmd, Filed, Deleting
<1>12. ASSUME NEW v \in local[l].touched PROVE Agree(l, v)'
  <2> DEFINE w == pids[<<Cmd(l).type, v>>]
  <2>1. Agree(l, v) BY <1>7 DEF AInv, Undisturbed
  <2>2. Cmd(l).type \in PidTypes BY <1>1, RunsTyped DEF Cmd
  <2>3. w \in Uuids BY <2>1, <2>2, OwnRow DEF Agree, AInv
  <2>4. search \in [Uuids -> [rev: Nat, json: JsonType]] BY DEF AInv, IInv, RowsType
  <2>5. search'[w].json = rows'[w].json
    <3>1. CASE w = u BY <1>2, <1>3, <1>9, <1>10, <2>4, <3>1
    <3>2. CASE w # u BY <1>2, <1>3, <2>1, <2>3, <2>4, <3>2 DEF Agree
    <3> QED BY <3>1, <3>2
  <2>6. Filed(l) => rows'[w].json.seen = store'[w]
    <3>1. CASE w = u BY <1>2, <1>3, <1>9, <3>1
    <3>2. CASE w # u BY <1>2, <1>3, <2>1, <2>3, <3>2 DEF Agree
    <3> QED BY <3>1, <3>2
  <2>7. <<Cmd(l).type, v>> \in DOMAIN pids BY <2>1 DEF Agree
  <2> QED BY <1>3, <1>11, <2>5, <2>6, <2>7 DEF Agree
<1>13. local[l].touched # {} => ~Deleting(l)' BY <1>7, <1>11 DEF AInv, Undisturbed, Deleting
<1>14. local'[l].pc = "finished" /\ local'[l].touched = local[l].touched BY <1>4, <1>5, <1>7
<1> QED BY <1>8, <1>12, <1>13, <1>14 DEF Undisturbed

LEMMA AInvNext == AInv /\ [CatalogueNext]_catalogueVars => AInv'
<1> SUFFICES ASSUME AInv, [CatalogueNext]_catalogueVars PROVE AInv' OBVIOUS
<1>1. IInv' BY NextSafe DEF AInv
<1>2. ASSUME NEW l \in Loaders PROVE Undisturbed(l)'
  <2>1. ASSUME NEW k \in Loaders, Loader(k) \/ Crash(k) PROVE Undisturbed(l)'
    BY <2>1, LoaderUndisturbed
  <2>2. ASSUME NEW k \in Loaders, NEW c \in Commands, Start(k, c) PROVE Undisturbed(l)'
    BY <2>2, StartUndisturbed
  <2>3. ASSUME NEW u \in Uuids, NEW f \in Paths, ClearHot(u, f) PROVE Undisturbed(l)'
    BY <2>3, ClearHotUndisturbed
  <2>4. ASSUME UNCHANGED <<db, search, local>> PROVE Undisturbed(l)'
    BY <2>4 DEF AInv, Undisturbed, db, Agree, Running, Cmd, Data, Filed, Deleting
  <2>5. ASSUME \/ \E v \in Values : Register(v) \/ UpdateDoi(v)
               \/ \E d \in Dois : RegisterCommits(d) \/ RegisterDies(d)
               \/ SyncPidstore
        PROVE  Undisturbed(l)'
    BY <2>4, <2>5 DEF Register, UpdateDoi, RegisterCommits, RegisterDies, SyncPidstore
  <2>6. CASE UNCHANGED catalogueVars BY <2>4, <2>6 DEF catalogueVars, db
  <2> QED BY <2>1, <2>2, <2>3, <2>5, <2>6 DEF CatalogueNext
<1> QED BY <1>1, <1>2 DEF AInv

\* A command that ran alone and ended without an error leaves the rows that it
\* wrote, their buckets and the search index in agreement, whatever the
\* commands before it left behind.
THEOREM CleanLoads == CatalogueSpec => []CleanLoadAgrees
<1>1. CatalogueInit => AInv
  <2> SUFFICES ASSUME CatalogueInit PROVE AInv OBVIOUS
  <2>1. \A l \in Loaders : local[l].pc = "idle" BY DEF CatalogueInit, Idle
  <2> QED BY <2>1, InitSafe DEF AInv, Undisturbed
<1>2. AInv => CleanLoadAgrees BY DEF AInv, Undisturbed, Agree, CleanLoadAgrees
<1> QED BY <1>1, <1>2, AInvNext, PTL DEF CatalogueSpec

-----------------------------------------------------------------------------
(* One command at a time.                                                   *)

\* Whatever becomes of a row, the older versions in its bucket are namesakes.
Kept == PathsHeld /\ \A u \in Uuids : store[u].older \subseteq Namesakes

\* The row that the loader has in hand stays live until it is written.
HInv == /\ IInv /\ Kept
        /\ \A l \in Loaders : local[l].pc \in {"update", "written", "delete"} =>
                              rows[local[l].row].state = "live"

LEMMA HeldNext ==
    ASSUME \A k, l \in Loaders : k = l, HInv, [CatalogueNext]_catalogueVars
    PROVE  HInv'
<1> DEFINE Hold(l) == local[l].pc \in {"update", "written", "delete"} =>
                        rows[local[l].row].state = "live"
<1>1. /\ IInv /\ IInv' /\ Kept /\ \A l \in Loaders : Hold(l)
  BY NextSafe DEF HInv
<1>2. /\ rows \in [Uuids -> RowType] /\ store \in [Uuids -> StoreType]
      /\ local \in [Loaders -> LocalType]
  BY <1>1 DEF IInv, RowsType, LoadersOK
<1>3. SUFFICES Kept' /\ \A l \in Loaders : Hold(l)' BY <1>1 DEF HInv
<1>4. ASSUME UNCHANGED db, NEW l \in Loaders, NEW loc, Becomes(l, loc),
             loc.pc \notin {"update", "written", "delete"}
      PROVE  Kept' /\ \A k \in Loaders : Hold(k)'
  BY <1>1, <1>2, <1>4 DEF db, Kept, PathsHeld, Live, Becomes
<1>5. ASSUME NEW l \in Loaders, Stop(l) PROVE Kept' /\ \A k \in Loaders : Hold(k)'
  <2>1. Idle.pc \notin {"update", "written", "delete"} BY DEF Idle
  <2> QED BY <1>4, <1>5, <2>1 DEF Stop
<1>6. ASSUME NEW l \in Loaders, Finish(l) \/ Skip(l) \/ Index(l)
      PROVE  Kept' /\ \A k \in Loaders : Hold(k)'
  <2>1. UNCHANGED db BY <1>6 DEF Finish, Skip, Index
  <2>2. \E loc : Becomes(l, loc) /\ loc.pc \notin {"update", "written", "delete"}
    <3>1. local[l] \in LocalType BY <1>2
    <3>2. \A value : NextEntry(l, value).pc = "entry" BY <3>1 DEF NextEntry, LocalType
    <3> QED BY <1>6, <3>1, <3>2 DEF Finish, Skip, Index, LocalType
  <2> QED BY <1>4, <2>1, <2>2
<1>7. ASSUME NEW l \in Loaders, Read(l) PROVE Kept' /\ \A k \in Loaders : Hold(k)'
  <2>1. UNCHANGED db BY <1>7 DEF Read
  <2>2. Hold(l)'
    <3>1. CASE KnownPid(l) \in DOMAIN pids
      <4> DEFINE to == IF Deleting(l) THEN "delete" ELSE "update"
                 u == pids[KnownPid(l)]
      <4>1. local' = [local EXCEPT ![l] = [@ EXCEPT !.pc = to, !.row = u, !.base = rows[u].rev]]
            /\ u \in Live
        BY <1>7, <3>1, <1>2 DEF Read, Becomes
      <4> HIDE DEF to, u
      <4>2. local'[l].row = u BY <1>2, <4>1 DEF LocalType
      <4> QED BY <2>1, <4>1, <4>2 DEF db, Live
    <3>2. CASE KnownPid(l) \notin DOMAIN pids BY <1>2, <1>7, <3>2 DEF Read, Becomes, LocalType
    <3> QED BY <3>1, <3>2
  <2> QED BY <1>1, <2>1, <2>2 DEF db, Kept, PathsHeld, Live
<1>8. ASSUME NEW l \in Loaders, Create(l) PROVE Kept' /\ \A k \in Loaders : Hold(k)'
  <2>1. local'[l].pc = "index" BY <1>2, <1>8 DEF Create, Becomes, LocalType
  <2>2. Data(l) \in Entries /\ Data(l) # Broken BY <1>1, <1>8, InHand DEF Create
  <2> DEFINE Made(lost) == IF Filed(l) THEN Stored(Data(l), 1, lost, {}) ELSE {NoStore}
             Row(s) == [state |-> "live", rev |-> 1,
                        json |-> IF Filed(l) THEN WithFiles(Cmd(l).type, Data(l), s)
                                 ELSE WithoutFiles(Cmd(l).type, Data(l), NoJson)]
  <2>c. PICK u \in Uuids, lost \in Lost(l) : \E s \in Made(lost) :
          store' = [store EXCEPT ![u] = s] /\ rows' = [rows EXCEPT ![u] = Row(s)]
    BY <1>8 DEF Create
  <2>3. PICK s \in Made(lost) :
          store' = [store EXCEPT ![u] = s] /\ rows' = [rows EXCEPT ![u] = Row(s)]
    BY <2>c
  <2>4. s.older \subseteq Namesakes
    <3>1. CASE Filed(l) BY <2>2, <2>3, <3>1, OlderAreNamesakes
    <3>2. CASE ~Filed(l) BY <2>3, <3>2 DEF NoStore
    <3> QED BY <3>1, <3>2
  <2>5. Kept' BY <1>1, <1>2, <2>3, <2>4 DEF Kept, PathsHeld, Live
  <2> QED BY <2>1, <2>5
<1>9. ASSUME NEW l \in Loaders, ReplaceFiles(l) PROVE Kept' /\ \A k \in Loaders : Hold(k)'
  <2> DEFINE u == local[l].row
  <2>1. u \in Uuids /\ rows[u].state = "live" /\ rows' = rows /\ Data(l) \in Entries /\ Data(l) # Broken
    BY <1>1, <1>9, InHand DEF ReplaceFiles
  <2>c. PICK lost \in Lost(l) : \E s \in Stored(Data(l), store[u].gen + 1, lost, store[u].older) :
          store' = [store EXCEPT ![u] = s]
    BY <1>9 DEF ReplaceFiles
  <2>2. PICK s \in Stored(Data(l), store[u].gen + 1, lost, store[u].older) :
          store' = [store EXCEPT ![u] = s]
    BY <2>c
  <2>3. local'[l].row = u BY <1>2, <1>9 DEF ReplaceFiles, Becomes, LocalType
  <2>4. s.older \subseteq Namesakes
    BY <1>1, <2>1, <2>2, OlderAreNamesakes DEF Kept
  <2>5. Kept' BY <1>1, <1>2, <2>1, <2>2, <2>4 DEF Kept, PathsHeld, Live
  <2> QED BY <1>1, <1>2, <2>1, <2>3, <2>5
<1>10. ASSUME NEW l \in Loaders, UpdateRow(l) PROVE Kept' /\ \A k \in Loaders : Hold(k)'
  <2> DEFINE u == local[l].row
             body == Updated(l)
             loc == [local[l] EXCEPT !.pc = "index", !.body = body]
  <2> HIDE DEF body
  <2>1. /\ rows' = [rows EXCEPT ![u].rev = @ + 1, ![u].json = body] /\ store' = store
        /\ Becomes(l, loc)
    BY <1>10 DEF UpdateRow, body
  <2>2. local'[l].pc = "index" BY <1>2, <2>1 DEF Becomes, LocalType
  <2>3. \A w \in Uuids : rows'[w].state = rows[w].state BY <1>2, <2>1 DEF RowType
  <2> QED BY <1>1, <2>1, <2>2, <2>3 DEF Kept, PathsHeld, Live
<1>11. ASSUME NEW l \in Loaders, Delete(l) PROVE Kept' /\ \A k \in Loaders : Hold(k)'
  <2> DEFINE u == local[l].row
             s == Emptied(store[u])
  <2>1. u \in Uuids /\ local[l] \in LocalType BY <1>1, <1>2, <1>11, InHand DEF Delete
  <2>2. s.keys = {} /\ s.older = store[u].older BY <1>2, <2>1 DEF Emptied, StoreType
  <2> HIDE DEF s
  <2>3. PICK row : /\ rows' = [rows EXCEPT ![u] = row] /\ store' = [store EXCEPT ![u] = s]
    BY <1>2, <2>1, <1>11 DEF Delete, s
  <2>4. Kept' BY <1>1, <1>2, <2>1, <2>2, <2>3 DEF Kept, PathsHeld, Live
  <2>5. local'[l].pc = "entry"
    BY <1>2, <1>11, <2>1 DEF Delete, Becomes, NextEntry, LocalType
  <2> QED BY <2>4, <2>5
<1>12. ASSUME NEW l \in Loaders, NEW c \in Commands, Start(l, c)
       PROVE  Kept' /\ \A k \in Loaders : Hold(k)'
  <2> DEFINE nobody == \A o \in Loaders \ {l} : ~Running(o)
             first == [Idle EXCEPT !.pc = "entry", !.cmd = c, !.left = c.entries, !.alone = nobody]
  <2>1. local'[l] = first /\ first.pc = "entry" /\ UNCHANGED db BY <1>12 DEF Start, Idle
  <2> QED BY <1>1, <2>1 DEF Kept, PathsHeld, Live, db
<1>13. ASSUME NEW u \in Uuids, NEW f \in Paths, ClearHot(u, f)
       PROVE  Kept' /\ \A k \in Loaders : Hold(k)'
  <2>1. \A w \in Uuids : /\ rows'[w].state = rows[w].state /\ store'[w].keys = store[w].keys
                         /\ store'[w].older = store[w].older
    BY <1>2, <1>13 DEF ClearHot, RowType, StoreType
  <2>2. \A l \in Loaders : local'[l].pc = local[l].pc /\ local'[l].row = local[l].row
    BY <1>2, <1>13 DEF ClearHot, LocalType
  <2>3. \A l \in Loaders : local[l].pc \in {"update", "written", "delete"} => local[l].row \in Uuids
    BY <1>1 DEF IInv, LoadersOK, Relies
  <2> QED BY <1>1, <2>1, <2>2, <2>3 DEF Kept, PathsHeld, Live
<1>14. ASSUME UNCHANGED <<db, local>> PROVE Kept' /\ \A k \in Loaders : Hold(k)'
  BY <1>1, <1>14 DEF db, Kept, PathsHeld, Live
<1>15. ASSUME NEW l \in Loaders, Loader(l) \/ Crash(l)
       PROVE  Kept' /\ \A k \in Loaders : Hold(k)'
  BY <1>5, <1>6, <1>7, <1>8, <1>9, <1>10, <1>11, <1>15
  DEF Loader, Crash, Refuse, CreateFails, UpdateFails, DeleteFails, IndexFails
<1>16. ASSUME \/ \E v \in Values : Register(v) \/ UpdateDoi(v)
              \/ \E d \in Dois : RegisterCommits(d) \/ RegisterDies(d)
              \/ SyncPidstore \/ UNCHANGED catalogueVars
       PROVE  Kept' /\ \A k \in Loaders : Hold(k)'
  BY <1>14, <1>16 DEF Register, UpdateDoi, RegisterCommits, RegisterDies, SyncPidstore,
                      catalogueVars, db
<1> QED BY <1>12, <1>13, <1>15, <1>16 DEF CatalogueNext

\* As long as commands are run one after the other, a file that is in a bucket
\* belongs to a live record, or a namesake has pushed it aside, although any of
\* the commands may have died (update_record, delete_record).
THEOREM FilesAreHeld ==
    ASSUME \A k, l \in Loaders : k = l
    PROVE  CatalogueSpec => []PathsHeld
<1>1. CatalogueInit => HInv
  <2> SUFFICES ASSUME CatalogueInit PROVE HInv OBVIOUS
  <2>1. Kept BY DEF CatalogueInit, Kept, PathsHeld, NoStore
  <2>2. \A l \in Loaders : local[l].pc = "idle" BY DEF CatalogueInit, Idle
  <2> QED BY <2>1, <2>2, InitSafe DEF HInv
<1>2. HInv /\ [CatalogueNext]_catalogueVars => HInv' BY HeldNext
<1>3. HInv => PathsHeld BY DEF HInv, Kept
<1> QED BY <1>1, <1>2, <1>3, PTL DEF CatalogueSpec

=============================================================================
