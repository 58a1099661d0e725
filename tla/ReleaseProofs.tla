---------------------------- MODULE ReleaseProofs ----------------------------
(* Proofs about Release: types for every instance; and, with one page open  *)
(* at a time, that the row, the portal and the tasks agree, for any         *)
(* entries, any number of tasks and under every fault.                      *)
EXTENDS Release, FiniteSetTheorems, TLAPS

-----------------------------------------------------------------------------
(* Types.                                                                   *)

LocalType == [pc: Labels, op: AllHandlers \cup {"none"},
              seen: Row, out: Row, todo: SUBSET Entries]

LEMMA ItemsAreFunctions ==
    ASSUME NEW its \in Items
    PROVE  /\ its \in [Entries -> Qualities \cup {"absent", "ok", "doi"}]
           /\ \A d \in Docs : its[d] # "doi"
BY DEF Items

LEMMA BlankTyped == Blank \in Row /\ NoItems \in Items
<1>1. NoItems \in Items BY DEF NoItems, Items, Entries
<1> QED BY <1>1 DEF Blank, Row, Statuses

LEMMA IdleTyped == Idle \in LocalType /\ [Idle EXCEPT !.pc = "done"] \in LocalType
BY BlankTyped DEF Idle, LocalType, Labels

\* What the fixes make of the entries are entries.
LEMMA RepairedTyped ==
    ASSUME NEW its \in Items, NEW new \in Repaired(its)
    PROVE  new \in Items
BY DEF Repaired, Items, Entries

LEMMA RenumberedTyped ==
    ASSUME NEW its \in Items, NEW new \in Renumbered(its)
    PROVE  new \in Items
<1> DEFINE taken == Taken("EDITING", its) \cap Records
           free == {i \in Records : its[i] = "absent" /\ portal[i] = "none"}
           moved(g) == [i \in Entries |->
                           IF i \in taken THEN "absent"
                           ELSE IF i \in Range(g) THEN its[CHOOSE j \in taken : g[j] = i]
                           ELSE its[i]]
<1>1. CASE new = its BY <1>1
<1>2. CASE \E g \in Injection(taken, free) : new = moved(g)
  <2>1. PICK g \in Injection(taken, free) : new = moved(g) BY <1>2
  <2>2. g \in [taken -> free] BY DEF Injection
  <2>3. taken \subseteq Entries /\ free \subseteq Records BY DEF Taken, In
  <2> HIDE DEF taken, free
  <2>4. \A i \in Range(g) : i \in Records /\ (CHOOSE j \in taken : g[j] = i) \in Entries
    <3> SUFFICES ASSUME NEW i \in Range(g)
                 PROVE  i \in Records /\ (CHOOSE j \in taken : g[j] = i) \in Entries
      OBVIOUS
    <3>1. \E j \in taken : g[j] = i BY <2>2 DEF Range
    <3> QED BY <2>2, <2>3, <3>1
  <2>5. ASSUME NEW i \in Entries
        PROVE  /\ moved(g)[i] \in Qualities \cup {"absent", "ok", "doi"}
               /\ i \in Docs => moved(g)[i] # "doi"
    BY <2>4, ItemsAreFunctions, EntriesAssumption
  <2>6. moved(g) \in [Entries -> Qualities \cup {"absent", "ok", "doi"}] BY <2>5
  <2> HIDE DEF moved
  <2> QED BY <2>1, <2>5, <2>6 DEF Items, Entries
<1> QED BY <1>1, <1>2 DEF Renumbered

\* What a handler makes of the entries are entries, and it keeps those that
\* it does not write.
LEMMA EditedTyped ==
    ASSUME NEW op \in Validating, NEW its \in Items, NEW dup, NEW new \in Edited(op, its, dup)
    PROVE  new \in Items /\ \A i \in Entries \ Columns(op) : new[i] = its[i]
<1>1. CASE op = "update_records" BY <1>1 DEF Edited, Replaced, Columns, Entries
<1>2. CASE op = "bulk"
  <2>1. PICK q \in Qualities \ {"doi"} :
            new = [i \in Entries |-> IF i \in Records \cap In(its) /\ (q = "bad" \/ its[i] = "bad")
                                     THEN q ELSE its[i]]
    BY <1>2 DEF Edited, BulkEdited
  <2> QED BY <1>2, <2>1, EntriesAssumption DEF Columns, Items, Entries
<1>3. CASE op = "add_records"
  <2>1. PICK i \in Records : \E q \in QualitiesOf(i) : new = [its EXCEPT ![i] = q]
    BY <1>3 DEF Edited, Appended
  <2>2. QualitiesOf(i) \subseteq Qualities /\ i \notin Docs
    BY EntriesAssumption DEF QualitiesOf
  <2> QED BY <1>3, <2>1, <2>2, EntriesAssumption DEF Columns, Items, Entries
<1>4. CASE op = "add_documents"
  <2>1. PICK i \in Docs : \E q \in QualitiesOf(i) : new = [its EXCEPT ![i] = q]
    BY <1>4 DEF Edited, Appended
  <2>2. QualitiesOf(i) = Qualities \ {"doi"} BY DEF QualitiesOf
  <2> QED BY <1>4, <2>1, <2>2 DEF Columns, Items, Entries
<1>5. CASE op = "update_document"
  <2>1. PICK d \in Docs, e \in Docs :
            \E q \in QualitiesOf(e) : new = [its EXCEPT ![d] = "absent", ![e] = q]
    BY <1>5 DEF Edited, DocumentReplaced
  <2> QED BY <1>5, <2>1 DEF Edited, DocumentReplaced, Columns
<1>6. CASE op = "fix_checks"
  <2>1. PICK mid \in IF dup THEN Renumbered(its) ELSE {its} : new \in Repaired(mid)
    BY <1>6 DEF Edited, Fixed
  <2>2. mid \in Items BY <2>1, RenumberedTyped
  <2> QED BY <1>6, <2>1, <2>2, RepairedTyped DEF Columns
<1>7. CASE op = "enable_validation" BY <1>7 DEF Edited
<1> QED BY <1>1, <1>2, <1>3, <1>4, <1>5, <1>6, <1>7 DEF Validating

LEMMA WithDoisTyped ==
    ASSUME NEW its \in Items, NEW new \in WithDois(its)
    PROVE  /\ new \in Items
           /\ \A i \in Entries : /\ (new[i] = "absent" <=> its[i] = "absent")
                                 /\ new[i] = "bad" => its[i] = "bad"
<1>1. PICK S \in SUBSET {i \in Records : its[i] = "ok"} :
          new = [i \in Entries |-> IF i \in S THEN "doi" ELSE its[i]]
  BY DEF WithDois
<1> QED BY <1>1, EntriesAssumption DEF Items, Entries

\* A validation leaves the release in one of two statuses, and READY means that
\* nothing is bad.
LEMMA ValidatedTyped ==
    ASSUME NEW r \in Row, NEW its \in Items, NEW strict \in BOOLEAN
    PROVE  LET v == Validated(r, its, strict) IN
           /\ v \in Row /\ v.items = its /\ v.exists = r.exists
           /\ v.status \in {"DRAFT", "READY"}
           /\ v.status = "READY" => \A i \in Entries : its[i] # "bad"
<1> DEFINE dup == Taken(r.status, its) # {}
           wrong == \/ \E i \in Entries : its[i] = "bad" \/ (strict /\ its[i] = "odd")
                    \/ Taken(r.status, its) \cup DoiTaken(its) # {}
           status == IF wrong THEN "DRAFT" ELSE "READY"
<1>1. Validated(r, its, strict) = [r EXCEPT !.items = its, !.strict = strict,
            !.dup = dup, !.errors = wrong, !.status = status]
  BY Zenon DEF Validated
<1>2. dup \in BOOLEAN /\ wrong \in BOOLEAN /\ status \in {"DRAFT", "READY"}
      /\ (status = "READY" => \A i \in Entries : its[i] # "bad")
  OBVIOUS
<1> HIDE DEF dup, wrong, status
<1> QED BY <1>1, <1>2 DEF Row, Statuses

LEMMA FlushedTyped ==
    ASSUME row \in Row, NEW op, NEW seen \in Row, NEW out \in Row, NEW more \in BOOLEAN
    PROVE  Flushed(op, seen, out, more) \in Row
<1> DEFINE its == [i \in Entries |-> IF i \in Columns(op) THEN out.items[i] ELSE row.items[i]]
           strict == Net(seen.strict, out.strict, row.strict)
           dup == Net(seen.dup, out.dup, row.dup)
           errors == IF seen.errors /\ out.errors /\ more THEN TRUE
                     ELSE Net(seen.errors, out.errors, row.errors)
           status == Net(seen.status, out.status, row.status)
<1>1. its \in Items BY DEF Row, Items, Entries
<1>2. strict \in BOOLEAN /\ dup \in BOOLEAN /\ errors \in BOOLEAN /\ status \in Statuses
  BY DEF Row, Net
<1>3. Flushed(op, seen, out, more) = [row EXCEPT !.items = its, !.strict = strict, !.dup = dup,
                                                 !.errors = errors, !.status = status]
  BY DEF Flushed
<1> HIDE DEF its, strict, dup, errors, status
<1> QED BY <1>1, <1>2, <1>3 DEF Row

-----------------------------------------------------------------------------
(* Every step keeps the types.                                              *)

LEMMA Moving ==
    ASSUME TypeOK, NEW p \in Procs, NEW l \in LocalType, Becomes(p, l)
    PROVE  local' \in [Procs -> LocalType]
BY DEF TypeOK, Becomes, LocalType

LEMMA LocalTyped ==
    ASSUME TypeOK, NEW p \in Procs
    PROVE  local[p] \in LocalType /\ row \in Row
BY DEF TypeOK, LocalType

\* A process moves on and the published records stay.
LEMMA RowTyped ==
    ASSUME TypeOK, row' \in Row, UNCHANGED published, local' \in [Procs -> LocalType]
    PROVE  TypeOK'
BY DEF TypeOK, published, LocalType

LEMMA JustMoves ==
    ASSUME TypeOK, NEW p \in Procs, NEW l \in LocalType, Becomes(p, l), row' \in Row,
           UNCHANGED published
    PROVE  TypeOK'
BY Moving, RowTyped

LEMMA FailsTyped ==
    ASSUME TypeOK, NEW t \in Tasks
    PROVE  [local[t] EXCEPT !.pc = "failed", !.out = Blank, !.todo = {}] \in LocalType
BY LocalTyped, BlankTyped DEF LocalType, Labels, Procs

\* What a handler that validates remembers to commit.
LEMMA EditMakes ==
    ASSUME TypeOK, NEW p \in Procs, Edit(p)
    PROVE  \/ Ends(p) /\ UNCHANGED <<row, published>>
           \/ /\ row.exists
              /\ \E out, seen \in Row :
                   /\ Becomes(p, [local[p] EXCEPT !.pc = "commit", !.out = out, !.seen = seen])
                   /\ seen.status = IF local[p].op \in Locking THEN row.status
                                    ELSE local[p].seen.status
                   /\ out.status \in {"DRAFT", "READY"}
                   /\ out.status = "READY" => \A i \in Entries : out.items[i] # "bad"
                   /\ \A i \in Entries \ Columns(local[p].op) : out.items[i] = row.items[i]
<1> DEFINE l == local[p]
           r == IF l.op \in Locking THEN row
                ELSE [row EXCEPT !.status = l.seen.status, !.errors = l.seen.errors]
           stricts == IF l.op = "enable_validation" THEN BOOLEAN ELSE {row.strict}
           edited == Edited(l.op, row.items, row.dup)
<1>0. l \in LocalType /\ row \in Row /\ row.items \in Items BY LocalTyped DEF Row
<1>a. l.op \in Validating BY Zenon DEF Edit
<1>1. l.seen \in Row /\ l.op \in Validating BY <1>0, <1>a DEF LocalType
<1>2. r \in Row /\ r.status = IF l.op \in Locking THEN row.status ELSE l.seen.status
  BY <1>0, <1>1 DEF Row
<1>3. stricts \subseteq BOOLEAN BY <1>0 DEF Row
<1>4. ASSUME NEW its \in edited
      PROVE  its \in Items /\ \A i \in Entries \ Columns(l.op) : its[i] = row.items[i]
  BY <1>0, <1>1, EditedTyped
<1>5. /\ UNCHANGED <<row, published>>
      /\ \/ Ends(p)
         \/ row.exists /\ \E its \in edited, strict \in stricts :
               Becomes(p, [l EXCEPT !.pc = "commit", !.out = Validated(r, its, strict),
                                    !.seen = [r EXCEPT !.items = NoItems]])
  BY Zenon DEF Edit
<1> HIDE DEF edited, r, stricts
<1>6. [r EXCEPT !.items = NoItems] \in Row /\ [r EXCEPT !.items = NoItems].status = r.status
  BY <1>2, BlankTyped DEF Row
<1>7. ASSUME NEW its \in edited, NEW strict \in stricts
      PROVE  LET v == Validated(r, its, strict) IN
             /\ v \in Row /\ v.status \in {"DRAFT", "READY"}
             /\ v.status = "READY" => \A i \in Entries : v.items[i] # "bad"
             /\ \A i \in Entries \ Columns(l.op) : v.items[i] = row.items[i]
  BY <1>2, <1>3, <1>4, ValidatedTyped
<1>8. CASE \E its \in edited, strict \in stricts :
               Becomes(p, [l EXCEPT !.pc = "commit", !.out = Validated(r, its, strict),
                                    !.seen = [r EXCEPT !.items = NoItems]])
  <2>1. PICK its \in edited, strict \in stricts :
               Becomes(p, [l EXCEPT !.pc = "commit", !.out = Validated(r, its, strict),
                                    !.seen = [r EXCEPT !.items = NoItems]])
    BY <1>8
  <2> DEFINE v == Validated(r, its, strict)
             seen == [r EXCEPT !.items = NoItems]
  <2>2. Becomes(p, [l EXCEPT !.pc = "commit", !.out = v, !.seen = seen]) BY <2>1
  <2>3. /\ v \in Row /\ v.status \in {"DRAFT", "READY"}
        /\ v.status = "READY" => \A i \in Entries : v.items[i] # "bad"
        /\ \A i \in Entries \ Columns(l.op) : v.items[i] = row.items[i]
    BY <1>7
  <2>4. seen \in Row /\ seen.status = IF l.op \in Locking THEN row.status ELSE l.seen.status
    BY <1>2, <1>6
  <2> HIDE DEF v, seen
  <2>5. row.exists \/ Ends(p) BY <1>5
  <2> QED BY <1>5, <2>2, <2>3, <2>4, <2>5
<1> QED BY <1>5, <1>8

LEMMA RequestTyped ==
    ASSUME TypeOK, NEW p \in Curators, Request(p)
    PROVE  TypeOK'
<1> DEFINE l == local[p]
<1>0. p \in Procs /\ l \in LocalType /\ row \in Row BY LocalTyped DEF Procs
<1>a. l.seen \in Row /\ l.out \in Row /\ l.op \in AllHandlers \cup {"none"} /\ l.todo \subseteq Entries
  BY <1>0 DEF LocalType
<1>b. \A its \in Items : [row EXCEPT !.items = its] \in Row BY <1>0 DEF Row
<1>1. CASE Ends(p) /\ UNCHANGED <<row, published>>
  BY <1>0, <1>1, IdleTyped, JustMoves DEF Ends
<1>2. CASE Load(p)
  <2>1. [l EXCEPT !.pc = IF l.op \in Locking THEN "lock" ELSE "read",
                  !.seen = [row EXCEPT !.items = NoItems]] \in LocalType
    BY <1>0, <1>b, BlankTyped DEF LocalType, Labels
  <2> QED BY <1>0, <1>1, <1>2, <2>1, JustMoves DEF Load
<1>3. CASE Lock(p)
  <2>1. [l EXCEPT !.seen = Blank, !.pc = IF l.op \in {"stage", "publish"} THEN "send" ELSE "read"]
            \in LocalType
    BY <1>0, BlankTyped DEF LocalType, Labels
  <2>2. [row EXCEPT !.status = Net(l.seen.status, LockStatus(l.op), @)] \in Row
    BY <1>0, <1>a DEF Row, Net, LockStatus, Statuses
  <2> QED BY <1>0, <1>1, <1>3, <2>1, <2>2, JustMoves DEF Lock
<1>4. CASE Edit(p)
  <2>1. CASE \E out, seen \in Row : Becomes(p, [l EXCEPT !.pc = "commit", !.out = out, !.seen = seen])
    <3>1. PICK out \in Row, seen \in Row :
              Becomes(p, [l EXCEPT !.pc = "commit", !.out = out, !.seen = seen])
      BY <2>1
    <3>2. [l EXCEPT !.pc = "commit", !.out = out, !.seen = seen] \in LocalType
      BY <1>0 DEF LocalType, Labels
    <3> QED BY <1>0, <1>4, <3>1, <3>2, JustMoves DEF Edit
  <2> QED BY <1>0, <1>1, <1>4, <2>1, EditMakes
<1>5. CASE FixFails(p)
  <2>1. PICK its \in Fixed(row.items, row.dup) :
            Becomes(p, [l EXCEPT !.pc = "commit",
                    !.seen = [row EXCEPT !.items = NoItems, !.errors = FALSE],
                    !.out = [row EXCEPT !.items = its, !.errors = FALSE, !.status = "DRAFT"]])
    BY <1>5 DEF FixFails
  <2>2. its \in Items
    <3>1. row.items \in Items BY <1>0 DEF Row
    <3> QED BY <3>1, EditedTyped DEF Edited, Validating
  <2>3. /\ [row EXCEPT !.items = NoItems, !.errors = FALSE] \in Row
        /\ [row EXCEPT !.items = its, !.errors = FALSE, !.status = "DRAFT"] \in Row
    BY <1>0, <2>2, BlankTyped DEF Row, Statuses
  <2>4. [l EXCEPT !.pc = "commit",
                  !.seen = [row EXCEPT !.items = NoItems, !.errors = FALSE],
                  !.out = [row EXCEPT !.items = its, !.errors = FALSE, !.status = "DRAFT"]]
            \in LocalType
    BY <1>0, <2>3 DEF LocalType, Labels
  <2> QED BY <1>0, <1>5, <2>1, <2>4, JustMoves DEF FixFails
<1>6. CASE CommitEdit(p)
  <2>1. row' = row \/ \E more \in BOOLEAN : row' = Flushed(l.op, l.seen, l.out, more)
    BY <1>6 DEF CommitEdit
  <2>2. \A more \in BOOLEAN : Flushed(l.op, l.seen, l.out, more) \in Row
    BY <1>0, <1>a, FlushedTyped
  <2>3. row' \in Row BY <1>0, <2>1, <2>2
  <2> QED BY <1>0, <1>6, <2>3, IdleTyped, JustMoves DEF CommitEdit, Ends
<1>7. CASE SendFails(p) BY <1>1, <1>7 DEF SendFails
<1>8. CASE ReadEntries(p)
  <2>1. CASE ~row.exists BY <1>1, <1>8, <2>1 DEF ReadEntries
  <2>2. CASE row.exists
    <3>1. PICK its \in IF l.op = "generate_doi" THEN WithDois(row.items) ELSE {row.items} :
              Becomes(p, [l EXCEPT !.pc = "commit", !.out.items = its])
      BY <1>8, <2>2 DEF ReadEntries
    <3>2. its \in Items BY <1>0, <3>1, WithDoisTyped DEF Row
    <3>3. [l EXCEPT !.pc = "commit", !.out.items = its] \in LocalType
      BY <1>0, <1>a, <3>2 DEF LocalType, Labels, Row
    <3> QED BY <1>0, <1>8, <3>1, <3>3, JustMoves DEF ReadEntries
  <2> QED BY <2>1, <2>2
<1>9. CASE CommitDois(p)
  <2> DEFINE its == [i \in Entries |-> IF i \in Records THEN l.out.items[i] ELSE row.items[i]]
  <2>1. its \in Items BY <1>0, <1>a DEF Row, Items, Entries
  <2>2. row' = [row EXCEPT !.items = its] \/ row' = row BY <1>9 DEF CommitDois
  <2> HIDE DEF its
  <2>3. row' \in Row BY <1>0, <1>b, <2>1, <2>2
  <2> QED BY <1>0, <1>9, <2>3, IdleTyped, JustMoves DEF CommitDois, Ends
<1>10. CASE CommitRollback(p)
  <2>1. row' \in Row /\ portal' \in [Entries -> {"none", "prerelease", "public", "other"}]
    BY <1>0, <1>a, <1>10 DEF CommitRollback, Row, Net, Statuses, TypeOK
  <2>2. local' \in [Procs -> LocalType] BY <1>0, <1>10, IdleTyped, Moving DEF CommitRollback, Ends
  <2> QED BY <1>10, <2>1, <2>2 DEF CommitRollback, TypeOK, LocalType
<1>11. CASE CommitDelete(p)
  <2>1. row' \in Row BY <1>11, BlankTyped DEF CommitDelete
  <2> QED BY <1>0, <1>11, <2>1, IdleTyped, JustMoves DEF CommitDelete, Ends
<1>12. ASSUME NEW t \in Tasks, Send(p, t) PROVE TypeOK'
  <2>1. row' \in Row BY <1>0, <1>12 DEF Send, Row
  <2>2. [Idle EXCEPT !.pc = "queued", !.op = l.op] \in LocalType
    BY <1>0, IdleTyped DEF LocalType, Labels
  <2>3. local' \in [Procs -> LocalType]
    BY <1>12, <2>2, IdleTyped DEF Send, TypeOK, LocalType
  <2> QED BY <1>12, <2>1, <2>3, RowTyped DEF Send
<1> QED BY <1>2, <1>3, <1>4, <1>5, <1>6, <1>7, <1>8, <1>9, <1>10, <1>11, <1>12 DEF Request

LEMMA TaskTyped ==
    ASSUME TypeOK, NEW t \in Tasks, Task(t)
    PROVE  TypeOK'
<1> DEFINE l == local[t]
<1>0. t \in Procs /\ l \in LocalType /\ row \in Row BY LocalTyped DEF Procs
<1>a. l.seen \in Row /\ l.out \in Row /\ l.op \in AllHandlers \cup {"none"} /\ l.todo \subseteq Entries
  BY <1>0 DEF LocalType
<1>b. /\ \A s \in Statuses : [row EXCEPT !.status = s] \in Row
      /\ \A s \in Statuses, e \in BOOLEAN : [row EXCEPT !.errors = e, !.status = s] \in Row
  BY <1>0 DEF Row
<1>c. \A s, now \in Statuses : \A old : Net(old, s, now) \in Statuses BY DEF Net
<1>d. row.status \in Statuses /\ row.errors \in BOOLEAN /\ row.items \in Items BY <1>0 DEF Row
<1>e. Finishes(t) => local' \in [Procs -> LocalType] BY <1>0, IdleTyped, Moving DEF Finishes
<1>f. Fails(t) => local' \in [Procs -> LocalType] BY <1>0, FailsTyped, Moving DEF Fails
<1>1. CASE Start(t)
  <2>1. row' \in Row BY <1>0, <1>1, <1>b DEF Start, Statuses
  <2>2. [l EXCEPT !.pc = "failed"] \in LocalType BY <1>0 DEF LocalType, Labels
  <2>3. [l EXCEPT !.pc = "work", !.seen.status = row.status, !.out.items = row.items,
                  !.todo = In(row.items)] \in LocalType
    BY <1>0, <1>a, <1>d DEF LocalType, Labels, Row, In
  <2> QED BY <1>0, <1>1, <2>1, <2>2, <2>3, IdleTyped, JustMoves DEF Start
<1>2. CASE StageEntries(t)
  <2> DEFINE s == Net(l.seen.status, "STAGED", row.status)
  <2>0. s \in Statuses BY <1>d DEF Net, Statuses
  <2>a. row' = row \/ row' = [row EXCEPT !.status = s] BY <1>2 DEF StageEntries
  <2> HIDE DEF s
  <2>1. row' \in Row BY <1>0, <1>b, <2>0, <2>a
  <2>2. portal' \in [Entries -> {"none", "prerelease", "public", "other"}]
    BY <1>2 DEF StageEntries, TypeOK
  <2>3. local' \in [Procs -> LocalType] BY <1>2, <1>e, <1>f DEF StageEntries
  <2> QED BY <1>2, <2>1, <2>2, <2>3 DEF StageEntries, TypeOK, LocalType
<1>3. CASE PublishRelease(t)
  <2>1. l.out.errors \in BOOLEAN BY <1>a DEF Row
  <2> DEFINE s == Net(l.seen.status, "PUBLISHED", row.status)
  <2>0. s \in Statuses BY <1>d DEF Net, Statuses
  <2>a. row' = row \/ row' = [row EXCEPT !.errors = l.out.errors, !.status = s]
    BY <1>3 DEF PublishRelease
  <2> HIDE DEF s
  <2>2. row' \in Row BY <1>0, <1>b, <2>0, <2>1, <2>a
  <2>3. portal' \in [Entries -> {"none", "prerelease", "public", "other"}]
    BY <1>3 DEF PublishRelease, TypeOK
  <2>4. local' \in [Procs -> LocalType] BY <1>3, <1>e, <1>f DEF PublishRelease
  <2> QED BY <1>3, <2>2, <2>3, <2>4 DEF PublishRelease, TypeOK, LocalType
<1>4. CASE WorkFails(t)
  BY <1>0, <1>4, <1>f, RowTyped DEF WorkFails
<1>5. CASE GetAgain(t)
  <2>1. [l EXCEPT !.pc = "mark", !.out = Blank,
                  !.seen = [Blank EXCEPT !.status = row.status, !.errors = row.errors]] \in LocalType
    BY <1>0, <1>d, BlankTyped DEF LocalType, Labels, Row
  <2>2. local' \in [Procs -> LocalType] BY <1>0, <1>5, <1>e, <2>1, Moving DEF GetAgain
  <2> QED BY <1>0, <1>5, <2>2, RowTyped DEF GetAgain
<1>6. CASE MarkFailed(t)
  <2>1. Net(l.seen.errors, TRUE, row.errors) \in BOOLEAN BY <1>d DEF Net
  <2>2. Net(l.seen.status, Reverts(l.op), row.status) \in Statuses
    BY <1>d DEF Net, Reverts, Statuses
  <2> DEFINE s == Net(l.seen.status, Reverts(l.op), row.status)
             e == Net(l.seen.errors, TRUE, row.errors)
  <2>a. \/ row' = row
        \/ \E more \in BOOLEAN :
              row' = [row EXCEPT !.errors = IF more THEN TRUE ELSE e, !.status = s]
    BY <1>6 DEF MarkFailed
  <2> HIDE DEF s, e
  <2>3. row' \in Row BY <1>0, <1>b, <2>1, <2>2, <2>a DEF s, e
  <2> QED BY <1>6, <1>e, <2>3, RowTyped DEF MarkFailed
<1>7. ASSUME NEW i \in Entries, PublishEntry(t, i) PROVE TypeOK'
  <2>1. CASE portal[i] = "none"
    <3>1. local' \in [Procs -> LocalType] BY <1>7, <1>f, <2>1 DEF PublishEntry
    <3> QED BY <1>7, <2>1, <3>1 DEF PublishEntry, TypeOK, LocalType
  <2>2. CASE portal[i] # "none"
    <3>1. PICK registered \in BOOLEAN :
              /\ dois' = IF l.out.items[i] = "doi" /\ registered THEN dois \cup {i} ELSE dois
              /\ Becomes(t, [l EXCEPT !.todo = @ \ {i},
                     !.out.errors = @ \/ (l.out.items[i] = "doi" /\ ~registered)])
      BY <1>7, <2>2 DEF PublishEntry
    <3> DEFINE e == l.out.errors \/ (l.out.items[i] = "doi" /\ ~registered)
    <3>2. e \in BOOLEAN BY <1>a DEF Row
    <3>3. Becomes(t, [l EXCEPT !.todo = @ \ {i}, !.out.errors = e]) BY <3>1
    <3> HIDE DEF e
    <3>4. [l EXCEPT !.todo = @ \ {i}, !.out.errors = e] \in LocalType
      BY <1>0, <1>a, <3>2 DEF LocalType, Row
    <3>5. local' \in [Procs -> LocalType] BY <1>0, <3>3, <3>4, Moving
    <3>6. l.out.items[i] = "doi" => i \in Records
      BY <1>a DEF Row, Items, Entries
    <3> QED BY <1>7, <2>2, <3>1, <3>5, <3>6 DEF PublishEntry, TypeOK, LocalType
  <2> QED BY <2>1, <2>2
<1> QED BY <1>1, <1>2, <1>3, <1>4, <1>5, <1>6, <1>7 DEF Task

LEMMA InitTyped == Init => TypeOK
<1> SUFFICES ASSUME Init PROVE TypeOK OBVIOUS
<1>1. row \in Row
  <2>1. PICK its \in Items : row = Validated([Blank EXCEPT !.exists = TRUE], its, FALSE)
    BY DEF Init
  <2>2. [Blank EXCEPT !.exists = TRUE] \in Row BY BlankTyped DEF Row
  <2> QED BY <2>1, <2>2, ValidatedTyped
<1> QED BY <1>1, IdleTyped, EntriesAssumption DEF Init, TypeOK, LocalType, Entries

LEMMA TypesKept == TypeOK /\ [Next]_vars => TypeOK'
<1> SUFFICES ASSUME TypeOK, [Next]_vars PROVE TypeOK' OBVIOUS
<1>1. CASE \E p \in Curators : Request(p) BY <1>1, RequestTyped
<1>2. CASE \E t \in Tasks : Task(t) BY <1>2, TaskTyped
<1>3. ASSUME NEW p \in Curators, NEW op \in Handlers, Begin(p, op) PROVE TypeOK'
  <2>1. [Idle EXCEPT !.pc = "load", !.op = op] \in LocalType
    BY IdleTyped, HandlersAssumption DEF LocalType, Labels
  <2> QED BY <1>3, <2>1, JustMoves, LocalTyped DEF Begin, Procs
<1>4. ASSUME NEW p \in Procs, Dies(p) PROVE TypeOK'
  BY <1>4, IdleTyped, JustMoves, LocalTyped DEF Dies, Ends, Finishes
<1>5. ASSUME NEW p \in Curators, EditMetadata(p) PROVE TypeOK'
  <2>1. row' \in Row BY <1>5 DEF EditMetadata, TypeOK, Row
  <2> QED BY <1>5, <2>1 DEF EditMetadata, TypeOK, published
<1>6. CASE UNCHANGED vars BY <1>6 DEF vars, TypeOK
<1> QED BY <1>1, <1>2, <1>3, <1>4, <1>5, <1>6 DEF Next

\* Types, for any curators, entries, tasks and faults.
THEOREM AlwaysTypeOK == Spec => []TypeOK
BY InitTyped, TypesKept, PTL DEF Spec

-----------------------------------------------------------------------------
(* One curator who uses the page.                                           *)

Live(t) == local[t].pc \notin {"idle", "done"}

\* A task that is under way has the release for itself.
Underway(t) ==
    Live(t) =>
        LET l == local[t]
        IN  /\ l.op \in {"stage", "publish"}
            /\ row.exists /\ row.status = LockStatus(l.op) /\ ~row.errors
            /\ \A c \in Curators : At(c, "idle")
            /\ \A u \in Tasks : Live(u) => u = t
            /\ l.pc = "work" =>
                  /\ l.seen.status = row.status /\ l.out.items = row.items
                  /\ l.op = "stage" => l.todo = In(row.items)
                  /\ l.op = "publish" => In(row.items) \ l.todo \subseteq index
            /\ l.pc = "mark" => l.seen.status = row.status

\* What a request is about to commit was made from the row as it is.
Prepared(l) ==
    /\ l.op \in Validating =>
          /\ l.seen.status = row.status /\ row.status \in {"DRAFT", "READY", "EDITING"}
          /\ l.out.status \in {"DRAFT", "READY"}
          /\ l.out.status = "READY" => \A i \in Entries : l.out.items[i] # "bad"
          /\ \A i \in Entries \ Columns(l.op) : l.out.items[i] = row.items[i]
    /\ l.op = "generate_doi" =>
          /\ row.status = "STAGED"
          /\ \A i \in Entries : /\ l.out.items[i] = "absent" <=> row.items[i] = "absent"
                                /\ l.out.items[i] = "bad" => row.items[i] = "bad"
    /\ l.op = "rollback" =>
          row.status = "STAGED" /\ l.seen.status = "STAGED" /\ l.out.items = row.items
    /\ l.op = "delete" => row.status \in {"DRAFT", "READY"}

\* What a request has read of the release still holds.
Asked(c) ==
    LET l == local[c]
    IN  /\ l.pc # "idle" => row.exists
        /\ l.pc = "load" => row.status \in Shown(l.op)
        /\ l.pc = "lock" => /\ l.op \in Locking /\ row.status \in Shown(l.op)
                            /\ l.seen.status = row.status
        /\ l.pc = "send" => l.op \in {"stage", "publish"} /\ row.status = LockStatus(l.op)
        /\ l.pc = "read" => IF l.op \in Locking THEN row.status = "EDITING"
                            ELSE row.status \in Shown(l.op) /\ l.seen.status = row.status
        /\ l.pc = "commit" => Prepared(l)

\* The previews of the portal are the entries of a release that is staged.
Previews ==
    \A i \in Entries : portal[i] = "prerelease" <=>
        row.exists /\ i \in In(row.items) /\ row.status \in {"STAGED", "PUBLISHING"}

\* A release that is ready has nothing that a validation rejects.
ReadyIsValid ==
    row.exists /\ row.status \notin {"DRAFT", "EDITING"}
        => \A i \in Entries : row.items[i] # "bad"

RowAgrees == Previews /\ ReadyIsValid /\ PublishedIsPublic

Core ==
    /\ TypeOK /\ RowAgrees
    /\ \A t \in Tasks : Underway(t)
    /\ \A c \in Curators : Asked(c)

\* What a step has to keep: the invariant and the lifecycle.
Kept ==
    /\ Core'
    /\ [Lifecycle!Next]_<<phase, portal>>

LEMMA CuratorMoves ==
    ASSUME TypeOK, NEW c \in Curators, NEW l, Becomes(c, l)
    PROVE  local'[c] = l /\ \A t \in Tasks : local'[t] = local[t]
BY ProcsAssumption DEF TypeOK, Becomes, Procs

LEMMA TaskMoves ==
    ASSUME TypeOK, NEW t \in Tasks, NEW l, Becomes(t, l)
    PROVE  local'[t] = l /\ \A p \in Procs \ {t} : local'[p] = local[p]
BY DEF TypeOK, Becomes, Procs

\* While a request is made no task is under way.
LEMMA NoTask ==
    ASSUME Core, NEW c \in Curators, ~At(c, "idle")
    PROVE  \A t \in Tasks : ~Live(t)
BY DEF Core, Underway

LEMMA CuratorStep ==
    ASSUME Core, TypeOK', NEW c, Curators = {c}, \A t \in Tasks : ~Live(t),
           \A t \in Tasks : local'[t] = local[t], Asked(c)', RowAgrees'
    PROVE  Core'
BY DEF Core, Underway, Live

\* A task that runs on, or ends.
LEMMA TaskStep ==
    ASSUME Core, TypeOK', NEW t \in Tasks, Live(t), \A p \in Procs \ {t} : local'[p] = local[p],
           Underway(t)' \/ ~Live(t)', RowAgrees'
    PROVE  Core'
<1>1. ASSUME NEW u \in Tasks, Live(u)' PROVE u = t /\ Underway(u)'
  <2>1. u = t
    <3> SUFFICES ASSUME u # t PROVE FALSE OBVIOUS
    <3>1. local'[u] = local[u] BY DEF Procs
    <3> QED BY <1>1, <3>1 DEF Core, Underway, Live
  <2> QED BY <1>1, <2>1
<1>2. \A u \in Tasks : Underway(u)' BY <1>1 DEF Underway
<1>3. ASSUME NEW c \in Curators PROVE Asked(c)'
  <2>1. local'[c] = local[c] BY ProcsAssumption DEF Procs
  <2>2. local[c].pc = "idle" BY DEF Core, Underway, At
  <2> QED BY <2>1, <2>2 DEF Asked
<1> QED BY <1>2, <1>3 DEF Core

LEMMA RowStill ==
    ASSUME Core, UNCHANGED <<row, published>>
    PROVE  /\ RowAgrees'
           /\ Core' => Kept
<1>1. RowAgrees'
  BY DEF Core, RowAgrees, Previews, ReadyIsValid, PublishedIsPublic, published, In
<1>2. phase' = phase /\ portal' = portal BY DEF phase, published
<1> QED BY <1>1, <1>2 DEF Kept

\* A request that only moves on.
LEMMA CuratorStill ==
    ASSUME Core, TypeOK', NEW c, Curators = {c}, \A t \in Tasks : ~Live(t), NEW l, Becomes(c, l),
           UNCHANGED <<row, published>>, Asked(c)'
    PROVE  Kept
<1>1. TypeOK BY DEF Core
<1> QED BY <1>1, CuratorMoves, CuratorStep, RowStill

LEMMA EndsKeeps ==
    ASSUME Core, TypeOK', NEW c, Curators = {c}, \A t \in Tasks : ~Live(t), Ends(c),
           UNCHANGED <<row, published>>
    PROVE  Kept
<1>1. local'[c] = Idle BY CuratorMoves DEF Ends, Core
<1>2. Asked(c)' BY <1>1 DEF Asked, Idle
<1> QED BY <1>2, CuratorStill DEF Ends

\* The statuses do not let a step of the lifecycle be taken twice.
LEMMA SamePhase ==
    ASSUME row'.exists = row.exists, portal' = portal,
           row'.status = row.status
           \/ {row.status, row'.status} \subseteq {"DRAFT", "READY", "EDITING", "STAGING"}
           \/ {row.status, row'.status} \subseteq {"STAGED", "PUBLISHING"}
    PROVE  UNCHANGED <<phase, portal>>
BY DEF phase

\* The row changes while the release is a draft: it has no previews.
LEMMA DraftRow ==
    ASSUME Core, row.exists, row'.exists,
           row.status \in {"DRAFT", "READY", "EDITING", "STAGING"},
           row'.status \in {"DRAFT", "READY", "EDITING", "STAGING"},
           row'.status \notin {"DRAFT", "EDITING"} => \A i \in Entries : row'.items[i] # "bad",
           UNCHANGED published
    PROVE  RowAgrees' /\ UNCHANGED <<phase, portal>>
<1>1. portal' = portal BY DEF published
<1>2. UNCHANGED <<phase, portal>> BY <1>1, SamePhase DEF Core, TypeOK, Row
<1>3. Previews' BY <1>1 DEF Core, RowAgrees, Previews
<1>4. ReadyIsValid' BY DEF ReadyIsValid
<1>5. PublishedIsPublic' BY DEF PublishedIsPublic
<1> QED BY <1>2, <1>3, <1>4, <1>5 DEF RowAgrees

\* The row changes while the release is staged: its entries are the same.
LEMMA StagedRow ==
    ASSUME Core, row.exists, row'.exists,
           row.status \in {"STAGED", "PUBLISHING"}, row'.status \in {"STAGED", "PUBLISHING"},
           \A i \in Entries : /\ row'.items[i] = "absent" <=> row.items[i] = "absent"
                              /\ row'.items[i] = "bad" => row.items[i] = "bad",
           UNCHANGED published
    PROVE  RowAgrees' /\ UNCHANGED <<phase, portal>>
<1>1. portal' = portal BY DEF published
<1>2. UNCHANGED <<phase, portal>> BY <1>1 DEF phase
<1>3. Previews' BY <1>1 DEF Core, RowAgrees, Previews, In
<1>4. ReadyIsValid' BY DEF Core, RowAgrees, ReadyIsValid
<1>5. PublishedIsPublic' BY DEF PublishedIsPublic
<1> QED BY <1>2, <1>3, <1>4, <1>5 DEF RowAgrees

LEMMA BeginKeeps ==
    ASSUME Core, TypeOK', ViaPage, NEW c, Curators = {c}, NEW op \in Handlers, Begin(c, op)
    PROVE  Kept
<1>1. row.exists /\ row.status \in Shown(op) BY DEF Begin
<1>2. \A t \in Tasks : ~Live(t)
  <2>1. row.status \in {"READY", "STAGED", "DRAFT", "EDITING"} BY <1>1 DEF Shown, NextAction, Editable
  <2> QED BY <2>1 DEF Core, Underway, LockStatus
<1> DEFINE l == [Idle EXCEPT !.pc = "load", !.op = op]
<1>3. l.pc = "load" /\ l.op = op BY DEF Idle
<1>4. Becomes(c, l) /\ UNCHANGED <<row, published>> BY DEF Begin
<1> HIDE DEF l
<1>5. local'[c] = l BY <1>4, CuratorMoves DEF Core
<1>6. Asked(c)' BY <1>1, <1>3, <1>4, <1>5 DEF Asked
<1> QED BY <1>2, <1>4, <1>6, CuratorStill

LEMMA LoadKeeps ==
    ASSUME Core, TypeOK', NEW c, Curators = {c}, Load(c)
    PROVE  Kept
<1> DEFINE l == local[c]
           k == [l EXCEPT !.pc = IF l.op \in Locking THEN "lock" ELSE "read",
                          !.seen = [row EXCEPT !.items = NoItems]]
<1>1. l.pc = "load" /\ UNCHANGED <<row, published>> BY DEF Load
<1>2. \A t \in Tasks : ~Live(t) BY <1>1, NoTask DEF At
<1>3. CASE Ends(c) BY <1>1, <1>2, <1>3, EndsKeeps
<1>4. CASE Becomes(c, k)
  <2>1. l \in LocalType /\ row \in Row BY LocalTyped DEF Core, Procs
  <2>2. row.exists /\ row.status \in Shown(l.op) BY <1>1 DEF Core, Asked
  <2>3. /\ k.pc = IF l.op \in Locking THEN "lock" ELSE "read"
        /\ k.op = l.op /\ k.seen.status = row.status
    BY <2>1 DEF LocalType, Row
  <2> HIDE DEF k
  <2>4. local'[c] = k BY <1>4, CuratorMoves DEF Core
  <2>5. Asked(c)' BY <1>1, <2>2, <2>3, <2>4 DEF Asked
  <2> QED BY <1>1, <1>2, <1>4, <2>5, CuratorStill
<1> QED BY <1>3, <1>4 DEF Load

LEMMA LockKeeps ==
    ASSUME Core, TypeOK', NEW c, Curators = {c}, Lock(c)
    PROVE  Kept
<1> DEFINE l == local[c]
           k == [l EXCEPT !.seen = Blank,
                          !.pc = IF l.op \in {"stage", "publish"} THEN "send" ELSE "read"]
           s == Net(l.seen.status, LockStatus(l.op), row.status)
<1>1. l.pc = "lock" /\ UNCHANGED published BY DEF Lock
<1>2. \A t \in Tasks : ~Live(t) BY <1>1, NoTask DEF At
<1>3. CASE Ends(c) /\ UNCHANGED row BY <1>1, <1>2, <1>3, EndsKeeps
<1>4. CASE row' = [row EXCEPT !.status = s] /\ Becomes(c, k)
  <2>1. l \in LocalType /\ row \in Row BY LocalTyped DEF Core, Procs
  <2>2. row.exists /\ row.status \in Shown(l.op) /\ l.op \in Locking /\ l.seen.status = row.status
    BY <1>1 DEF Core, Asked
  <2>3. s = LockStatus(l.op) BY <2>2 DEF Net
  <2> HIDE DEF s
  <2>4. k.pc = IF l.op \in {"stage", "publish"} THEN "send" ELSE "read" BY <2>1 DEF LocalType
  <2>5. k.op = l.op BY <2>1 DEF LocalType
  <2> HIDE DEF k
  <2>6. row'.exists /\ row'.status = LockStatus(l.op) /\ row'.items = row.items
    BY <1>4, <2>1, <2>2, <2>3 DEF Row
  <2>7. local'[c] = k /\ \A t \in Tasks : local'[t] = local[t] BY <1>4, CuratorMoves DEF Core
  <2>8. Asked(c)'
    <3>1. CASE l.op \in {"stage", "publish"} BY <2>4, <2>5, <2>6, <2>7, <3>1 DEF Asked
    <3>2. CASE l.op \notin {"stage", "publish"}
      <4>1. LockStatus(l.op) = "EDITING" BY <3>2 DEF LockStatus
      <4> QED BY <2>2, <2>4, <2>5, <2>6, <2>7, <3>2, <4>1 DEF Asked
    <3> QED BY <3>1, <3>2
  <2>9. RowAgrees' /\ UNCHANGED <<phase, portal>>
    <3>1. CASE l.op = "publish"
      BY <1>1, <2>2, <2>6, <3>1, StagedRow DEF Shown, NextAction, Editable, LockStatus
    <3>2. CASE l.op = "stage"
      <4>1. row.status = "READY" /\ row'.status = "STAGING"
        BY <2>2, <2>6, <3>2 DEF Shown, NextAction, Editable, LockStatus
      <4>2. \A i \in Entries : row.items[i] # "bad"
        BY <2>2, <4>1 DEF Core, RowAgrees, ReadyIsValid
      <4> QED BY <1>1, <2>2, <2>6, <4>1, <4>2, DraftRow
    <3>3. CASE l.op \notin {"stage", "publish"}
      <4>1. row.status \in {"DRAFT", "READY", "EDITING"} /\ row'.status = "EDITING"
        BY <2>2, <2>6, <3>3 DEF Shown, NextAction, Editable, LockStatus, Locking
      <4> QED BY <1>1, <2>2, <2>6, <4>1, DraftRow
    <3> QED BY <3>1, <3>2, <3>3
  <2>10. row.status # "PUBLISHED" BY <2>2 DEF Shown, NextAction, Editable
  <2>11. Core' BY <1>2, <2>7, <2>8, <2>9, CuratorStep
  <2> QED BY <2>9, <2>10, <2>11 DEF Kept
<1> QED BY <1>3, <1>4 DEF Lock

LEMMA EditKeeps ==
    ASSUME Core, TypeOK', NEW c, Curators = {c}, Edit(c)
    PROVE  Kept
<1> DEFINE l == local[c]
<1>1. l.pc = "read" /\ l.op \in Validating BY Zenon DEF Edit
<1>2. UNCHANGED <<row, published>> BY Zenon DEF Edit
<1>3. \A t \in Tasks : ~Live(t) BY <1>1, NoTask DEF At
<1>4. CASE Ends(c) BY <1>2, <1>3, <1>4, EndsKeeps
<1>5. ASSUME row.exists, NEW out \in Row, NEW seen \in Row,
             Becomes(c, [l EXCEPT !.pc = "commit", !.out = out, !.seen = seen]),
             seen.status = IF l.op \in Locking THEN row.status ELSE l.seen.status,
             out.status \in {"DRAFT", "READY"},
             out.status = "READY" => \A i \in Entries : out.items[i] # "bad",
             \A i \in Entries \ Columns(l.op) : out.items[i] = row.items[i]
      PROVE  Kept
  <2> DEFINE k == [l EXCEPT !.pc = "commit", !.out = out, !.seen = seen]
  <2>1. l \in LocalType BY LocalTyped DEF Core, Procs
  <2>2. seen.status = row.status /\ row.status \in {"DRAFT", "READY", "EDITING"}
    BY <1>1, <1>5 DEF Core, Asked, Shown, NextAction, Editable, Validating
  <2>3. k.pc = "commit" /\ k.op = l.op /\ k.out = out /\ k.seen = seen BY <2>1 DEF LocalType
  <2>4. Becomes(c, k) BY <1>5
  <2> HIDE DEF k
  <2>5. local'[c] = k BY <2>4, CuratorMoves DEF Core
  <2>6. row' = row BY <1>2
  <2> HIDE DEF l
  <2>7. local'[c].pc = "commit" /\ local'[c].op = l.op /\ local'[c].out = out /\ local'[c].seen = seen
    BY <2>3, <2>5
  <2>8. l.op \notin {"generate_doi", "rollback", "delete"} BY <1>1 DEF Validating
  <2>9. Prepared(local[c])' BY <1>5, <2>2, <2>6, <2>7, <2>8 DEF Prepared
  <2>10. Asked(c)' BY <1>5, <2>6, <2>7, <2>9 DEF Asked
  <2> QED BY <1>2, <1>3, <2>4, <2>10, CuratorStill
<1> QED BY <1>4, <1>5, EditMakes DEF Core, Procs

LEMMA FixFailsKeeps ==
    ASSUME Core, TypeOK', NEW c, Curators = {c}, FixFails(c)
    PROVE  Kept
<1> DEFINE l == local[c]
<1>1. l.pc = "read" /\ l.op = "fix_checks" /\ row.exists /\ UNCHANGED <<row, published>>
  BY DEF FixFails
<1>2. \A t \in Tasks : ~Live(t) BY <1>1, NoTask DEF At
<1>3. row.status = "EDITING" BY <1>1 DEF Core, Asked, Locking
<1>4. l \in LocalType /\ row \in Row BY LocalTyped DEF Core, Procs
<1>5. PICK its \in Fixed(row.items, row.dup) :
          Becomes(c, [l EXCEPT !.pc = "commit",
                  !.seen = [row EXCEPT !.items = NoItems, !.errors = FALSE],
                  !.out = [row EXCEPT !.items = its, !.errors = FALSE, !.status = "DRAFT"]])
  BY DEF FixFails
<1> DEFINE seen == [row EXCEPT !.items = NoItems, !.errors = FALSE]
           out == [row EXCEPT !.items = its, !.errors = FALSE, !.status = "DRAFT"]
           k == [l EXCEPT !.pc = "commit", !.seen = seen, !.out = out]
<1>6. seen.status = row.status /\ out.status = "DRAFT" BY <1>4 DEF Row
<1>7. Becomes(c, k) BY <1>5
<1> HIDE DEF seen, out
<1>8. k.pc = "commit" /\ k.op = l.op /\ k.seen = seen /\ k.out = out BY <1>4 DEF LocalType
<1> HIDE DEF k
<1>9. local'[c] = k BY <1>7, CuratorMoves DEF Core
<1>10. Columns("fix_checks") = Entries BY DEF Columns
<1> HIDE DEF l
<1>k. /\ local'[c].pc = "commit" /\ local'[c].op = "fix_checks"
      /\ local'[c].seen = seen /\ local'[c].out = out
  BY <1>1, <1>8, <1>9
<1>11. Prepared(local[c])' BY <1>1, <1>3, <1>6, <1>10, <1>k DEF Prepared
<1>12. Asked(c)' BY <1>1, <1>11, <1>k DEF Asked
<1> QED BY <1>1, <1>2, <1>7, <1>12, CuratorStill

LEMMA CommitEditKeeps ==
    ASSUME Core, TypeOK', NEW c, Curators = {c}, CommitEdit(c)
    PROVE  Kept
<1> DEFINE l == local[c]
<1>1. l.pc = "commit" /\ l.op \in Validating /\ Ends(c) /\ UNCHANGED published BY DEF CommitEdit
<1>2. \A t \in Tasks : ~Live(t) BY <1>1, NoTask DEF At
<1>3. /\ row.exists /\ l.seen.status = row.status
      /\ row.status \in {"DRAFT", "READY", "EDITING"} /\ l.out.status \in {"DRAFT", "READY"}
      /\ l.out.status = "READY" => \A i \in Entries : l.out.items[i] # "bad"
      /\ \A i \in Entries \ Columns(l.op) : l.out.items[i] = row.items[i]
  BY <1>1 DEF Core, Asked, Prepared
<1>4. l \in LocalType /\ row \in Row BY LocalTyped DEF Core, Procs
<1>5. PICK more \in BOOLEAN : row' = Flushed(l.op, l.seen, l.out, more) BY <1>3 DEF CommitEdit

<1> DEFINE its == [i \in Entries |-> IF i \in Columns(l.op) THEN l.out.items[i] ELSE row.items[i]]
           strict == Net(l.seen.strict, l.out.strict, row.strict)
           dup == Net(l.seen.dup, l.out.dup, row.dup)
           errors == IF l.seen.errors /\ l.out.errors /\ more THEN TRUE
                     ELSE Net(l.seen.errors, l.out.errors, row.errors)
           status == Net(l.seen.status, l.out.status, row.status)
<1>6. row' = [row EXCEPT !.items = its, !.strict = strict, !.dup = dup,
                         !.errors = errors, !.status = status]
  BY <1>5 DEF Flushed
<1> HIDE DEF its, strict, dup, errors, status
<1>a. row'.exists /\ row'.items = its /\ row'.status = status BY <1>3, <1>4, <1>6 DEF Row
<1>7. /\ row'.exists
      /\ \A i \in Entries :
            row'.items[i] = IF i \in Columns(l.op) THEN l.out.items[i] ELSE row.items[i]
      /\ row'.status = Net(l.seen.status, l.out.status, row.status)
  BY <1>a DEF its, status
<1>8. row'.status = l.out.status BY <1>3, <1>7 DEF Net
<1>9. \A i \in Entries : row'.items[i] = l.out.items[i] BY <1>3, <1>7
<1> HIDE DEF l
<1>10. RowAgrees' /\ UNCHANGED <<phase, portal>> BY <1>1, <1>3, <1>7, <1>8, <1>9, DraftRow
<1>11. local'[c] = Idle /\ \A t \in Tasks : local'[t] = local[t]
  BY <1>1, CuratorMoves DEF Ends, Core
<1>12. Asked(c)' BY <1>11 DEF Asked, Idle
<1>13. Core' BY <1>2, <1>10, <1>11, <1>12, CuratorStep
<1> QED BY <1>3, <1>10, <1>13 DEF Kept

LEMMA ReadEntriesKeeps ==
    ASSUME Core, TypeOK', NEW c, Curators = {c}, ReadEntries(c)
    PROVE  Kept
<1> DEFINE l == local[c]
<1>1. /\ l.pc = "read" /\ l.op \in {"generate_doi", "rollback", "delete"}
      /\ UNCHANGED <<row, published>>
  BY DEF ReadEntries
<1>2. \A t \in Tasks : ~Live(t) BY <1>1, NoTask DEF At
<1>3. row.exists /\ row.status \in Shown(l.op) /\ l.seen.status = row.status
  BY <1>1 DEF Core, Asked, Locking
<1>4. l \in LocalType /\ row \in Row BY LocalTyped DEF Core, Procs
<1>5. PICK its \in IF l.op = "generate_doi" THEN WithDois(row.items) ELSE {row.items} :
          Becomes(c, [l EXCEPT !.pc = "commit", !.out.items = its])
  BY <1>3 DEF ReadEntries
<1> DEFINE k == [l EXCEPT !.pc = "commit", !.out.items = its]
<1>6. k.pc = "commit" /\ k.op = l.op /\ k.seen = l.seen /\ k.out.items = its
  BY <1>4 DEF LocalType, Row
<1>7. Becomes(c, k) BY <1>5
<1> HIDE DEF k, l
<1>8. local'[c] = k BY <1>7, CuratorMoves DEF Core
<1>k. /\ local'[c].pc = "commit" /\ local'[c].op = l.op /\ local'[c].seen = l.seen
      /\ local'[c].out.items = its /\ row' = row
  BY <1>1, <1>6, <1>8
<1>9. Prepared(local[c])'
  <2>1. CASE l.op = "generate_doi"
    <3>1. \A i \in Entries : /\ its[i] = "absent" <=> row.items[i] = "absent"
                             /\ its[i] = "bad" => row.items[i] = "bad"
      BY <1>4, <1>5, <2>1, WithDoisTyped DEF Row
    <3>2. row.status = "STAGED" BY <1>3, <2>1 DEF Shown, NextAction, Editable
    <3> QED BY <1>1, <1>k, <2>1, <3>1, <3>2 DEF Prepared, Validating
  <2>2. CASE l.op = "rollback"
    <3>1. row.status = "STAGED" /\ its = row.items BY <1>3, <1>5, <2>2 DEF Shown, NextAction, Editable
    <3> QED BY <1>1, <1>3, <1>k, <2>2, <3>1 DEF Prepared, Validating
  <2>3. CASE l.op = "delete"
    <3>1. row.status \in {"DRAFT", "READY"} BY <1>3, <2>3 DEF Shown, NextAction, Editable
    <3> QED BY <1>1, <1>k, <2>3, <3>1 DEF Prepared, Validating
  <2> QED BY <1>1, <2>1, <2>2, <2>3
<1>10. Asked(c)' BY <1>3, <1>9, <1>k DEF Asked
<1> QED BY <1>1, <1>2, <1>7, <1>10, CuratorStill

LEMMA CommitDoisKeeps ==
    ASSUME Core, TypeOK', NEW c, Curators = {c}, CommitDois(c)
    PROVE  Kept
<1> DEFINE l == local[c]
           its == [i \in Entries |-> IF i \in Records THEN l.out.items[i] ELSE row.items[i]]
<1>1. l.pc = "commit" /\ l.op = "generate_doi" /\ Ends(c) /\ UNCHANGED published BY DEF CommitDois
<1>2. \A t \in Tasks : ~Live(t) BY <1>1, NoTask DEF At
<1>3. /\ row.exists /\ row.status = "STAGED"
      /\ \A i \in Entries : /\ l.out.items[i] = "absent" <=> row.items[i] = "absent"
                            /\ l.out.items[i] = "bad" => row.items[i] = "bad"
  BY <1>1 DEF Core, Asked, Prepared
<1>4. row \in Row BY DEF Core, TypeOK
<1>5. row' = [row EXCEPT !.items = its] BY <1>3 DEF CommitDois
<1>6. \A i \in Entries : /\ its[i] = "absent" <=> row.items[i] = "absent"
                         /\ its[i] = "bad" => row.items[i] = "bad"
  BY <1>3
<1> HIDE DEF its, l
<1>7. row'.exists /\ row'.status = "STAGED" /\ row'.items = its BY <1>3, <1>4, <1>5 DEF Row
<1>8. RowAgrees' /\ UNCHANGED <<phase, portal>> BY <1>1, <1>3, <1>6, <1>7, StagedRow
<1>9. local'[c] = Idle /\ \A t \in Tasks : local'[t] = local[t]
  BY <1>1, CuratorMoves DEF Ends, Core
<1>10. Asked(c)' BY <1>9 DEF Asked, Idle
<1>11. Core' BY <1>2, <1>8, <1>9, <1>10, CuratorStep
<1> QED BY <1>3, <1>8, <1>11 DEF Kept

LEMMA CommitRollbackKeeps ==
    ASSUME Core, TypeOK', NEW c, Curators = {c}, CommitRollback(c)
    PROVE  Kept
<1> DEFINE l == local[c]
<1>1. l.pc = "commit" /\ l.op = "rollback" /\ Ends(c) BY DEF CommitRollback
<1>2. \A t \in Tasks : ~Live(t) BY <1>1, NoTask DEF At
<1>3. row.exists /\ row.status = "STAGED" /\ l.seen.status = "STAGED" /\ l.out.items = row.items
  BY <1>1 DEF Core, Asked, Prepared
<1>4. row \in Row /\ portal \in [Entries -> {"none", "prerelease", "public", "other"}]
  BY DEF Core, TypeOK
<1>5. \A i \in Entries : portal[i] = "prerelease" <=> i \in In(row.items)
  BY <1>3 DEF Core, RowAgrees, Previews
<1>6. \A i \in In(l.out.items) : portal[i] # "none" BY <1>3, <1>5 DEF In
<1>7. /\ portal' = [i \in Entries |-> IF i \in In(row.items) THEN "none" ELSE portal[i]]
      /\ row' = [row EXCEPT !.status = Net(l.seen.status, "READY", row.status)]
  BY <1>3, <1>6 DEF CommitRollback
<1>8. row'.exists /\ row'.status = "READY" /\ row'.items = row.items
  BY <1>3, <1>4, <1>7 DEF Net, Row
<1>9. portal' = [i \in Entries |-> IF portal[i] = "prerelease" THEN "none" ELSE portal[i]]
  BY <1>5, <1>7
<1>10. RowAgrees'
  <2>1. Previews' BY <1>8, <1>9 DEF Previews
  <2>2. ReadyIsValid' BY <1>3, <1>8 DEF Core, RowAgrees, ReadyIsValid
  <2>3. PublishedIsPublic' BY <1>8 DEF PublishedIsPublic
  <2> QED BY <2>1, <2>2, <2>3 DEF RowAgrees
<1>11. Lifecycle!Rollback BY <1>3, <1>8, <1>9 DEF Lifecycle!Rollback, Lifecycle!Moves, phase
<1>12. local'[c] = Idle /\ \A t \in Tasks : local'[t] = local[t]
  BY <1>1, CuratorMoves DEF Ends, Core
<1>13. Asked(c)' BY <1>12 DEF Asked, Idle
<1>14. Core' BY <1>2, <1>10, <1>12, <1>13, CuratorStep
<1> QED BY <1>3, <1>11, <1>14 DEF Kept, Lifecycle!Next

LEMMA CommitDeleteKeeps ==
    ASSUME Core, TypeOK', NEW c, Curators = {c}, CommitDelete(c)
    PROVE  Kept
<1> DEFINE l == local[c]
<1>1. l.pc = "commit" /\ l.op = "delete" /\ Ends(c) /\ row' = Blank /\ UNCHANGED published
  BY DEF CommitDelete
<1>2. \A t \in Tasks : ~Live(t) BY <1>1, NoTask DEF At
<1>3. row.exists /\ row.status \in {"DRAFT", "READY"} BY <1>1 DEF Core, Asked, Prepared
<1>4. ~row'.exists /\ portal' = portal BY <1>1 DEF Blank, published
<1>5. RowAgrees'
  BY <1>3, <1>4 DEF Core, RowAgrees, Previews, ReadyIsValid, PublishedIsPublic
<1>6. Lifecycle!Delete BY <1>3, <1>4 DEF Lifecycle!Delete, phase
<1>7. local'[c] = Idle /\ \A t \in Tasks : local'[t] = local[t]
  BY <1>1, CuratorMoves DEF Ends, Core
<1>8. Asked(c)' BY <1>7 DEF Asked, Idle
<1>9. Core' BY <1>2, <1>5, <1>7, <1>8, CuratorStep
<1> QED BY <1>3, <1>6, <1>9 DEF Kept, Lifecycle!Next

\* The task takes over from the request.
LEMMA SendKeeps ==
    ASSUME Core, TypeOK', NEW c, Curators = {c}, NEW t \in Tasks, Send(c, t)
    PROVE  Kept
<1> DEFINE l == local[c]
           k == [Idle EXCEPT !.pc = "queued", !.op = l.op]
<1>1. /\ l.pc = "send" /\ row' = [row EXCEPT !.errors = FALSE] /\ UNCHANGED published
      /\ local' = [local EXCEPT ![c] = Idle, ![t] = k]
  BY DEF Send
<1>2. \A u \in Tasks : ~Live(u) BY <1>1, NoTask DEF At
<1>3. row.exists /\ l.op \in {"stage", "publish"} /\ row.status = LockStatus(l.op)
  BY <1>1 DEF Core, Asked
<1>4. k.pc = "queued" /\ k.op = l.op BY DEF Idle
<1> HIDE DEF k
<1>5. row \in Row /\ local \in [Procs -> LocalType] BY DEF Core, TypeOK, LocalType
<1>6. c \in Procs /\ t \in Procs /\ c # t BY ProcsAssumption DEF Procs
<1>7. local'[c] = Idle /\ local'[t] = k /\ \A u \in Tasks \ {t} : local'[u] = local[u]
  BY <1>1, <1>5, <1>6, ProcsAssumption DEF Procs
<1>8. row'.exists /\ row'.status = row.status /\ row'.items = row.items /\ ~row'.errors
  BY <1>1, <1>3, <1>5 DEF Row
<1> HIDE DEF l
<1>9. RowAgrees' /\ UNCHANGED <<phase, portal>>
  <2>1. RowAgrees'
    BY <1>1, <1>8 DEF Core, RowAgrees, Previews, ReadyIsValid, PublishedIsPublic, published
  <2> QED BY <1>1, <1>8, <2>1, SamePhase DEF published
<1>10. Asked(c)' BY <1>7 DEF Asked, Idle
<1>11. \A u \in Tasks : Live(u)' => u = t BY <1>2, <1>7 DEF Live
<1>12. Underway(t)'
  BY <1>3, <1>4, <1>7, <1>8, <1>11 DEF Underway, At, Idle
<1>13. \A u \in Tasks : Underway(u)' BY <1>11, <1>12 DEF Underway
<1>14. Core' BY <1>9, <1>10, <1>13 DEF Core
<1> QED BY <1>3, <1>9, <1>14 DEF Kept, LockStatus

LEMMA RequestKeeps ==
    ASSUME Core, TypeOK', NEW c, Curators = {c}, Request(c)
    PROVE  Kept
<1>1. CASE SendFails(c)
  <2>1. \A t \in Tasks : ~Live(t) BY <1>1, NoTask DEF SendFails, At
  <2> QED BY <1>1, <2>1, EndsKeeps DEF SendFails
<1> QED BY <1>1, LoadKeeps, LockKeeps, EditKeeps, FixFailsKeeps, CommitEditKeeps, ReadEntriesKeeps,
           CommitDoisKeeps, CommitRollbackKeeps, CommitDeleteKeeps, SendKeeps DEF Request

-----------------------------------------------------------------------------
(* The tasks.                                                               *)

\* What is known of a task that is under way.
LEMMA TaskFacts ==
    ASSUME Core, NEW t \in Tasks, Live(t)
    PROVE  /\ local[t].op \in {"stage", "publish"}
           /\ row.exists /\ row.status = LockStatus(local[t].op) /\ ~row.errors
           /\ local[t].op = "stage" => row.status = "STAGING"
           /\ local[t].op = "publish" => row.status = "PUBLISHING"
           /\ row.status # "PUBLISHED"
           /\ local[t] \in LocalType /\ row \in Row /\ t \in Procs
BY LocalTyped DEF Core, Underway, LockStatus, Procs

\* A task that goes on.
LEMMA TaskStill ==
    ASSUME Core, TypeOK', NEW t \in Tasks, Live(t), NEW l, Becomes(t, l),
           UNCHANGED <<row, published>>, Underway(t)' \/ ~Live(t)'
    PROVE  Kept
<1>1. TypeOK BY DEF Core
<1> QED BY <1>1, TaskMoves, TaskStep, RowStill

LEMMA FinishesStill ==
    ASSUME Core, TypeOK', NEW t \in Tasks, Live(t), Finishes(t), UNCHANGED <<row, published>>
    PROVE  Kept
<1> DEFINE l == [Idle EXCEPT !.pc = "done"]
<1>1. Becomes(t, l) BY DEF Finishes
<1>2. l.pc = "done" BY DEF Idle
<1> HIDE DEF l
<1>3. local'[t] = l BY <1>1, TaskMoves DEF Core
<1>4. local'[t].pc = "done" BY <1>2, <1>3
<1> QED BY <1>1, <1>4, TaskStill DEF Live

\* What stays of Underway when the row stays and the task does not work.
LEMMA UnderwayStays ==
    ASSUME Core, TypeOK', NEW t \in Tasks, Live(t), NEW l, Becomes(t, l),
           UNCHANGED row, l.op = local[t].op, l.pc # "work",
           l.pc = "mark" => l.seen.status = row.status
    PROVE  Underway(t)'
<1>1. local'[t] = l /\ \A p \in Procs \ {t} : local'[p] = local[p] BY TaskMoves DEF Core
<1>2. \A u \in Tasks : Live(u)' => u = t
  <2> SUFFICES ASSUME NEW u \in Tasks, Live(u)', u # t PROVE FALSE OBVIOUS
  <2>1. local'[u] = local[u] BY <1>1 DEF Procs
  <2> QED BY <2>1 DEF Core, Underway, Live
<1>3. \A c \in Curators : local'[c] = local[c] BY <1>1, ProcsAssumption DEF Procs
<1> QED BY <1>1, <1>2, <1>3, TaskFacts DEF Core, Underway, At

LEMMA FailsStill ==
    ASSUME Core, TypeOK', NEW t \in Tasks, Live(t), Fails(t), UNCHANGED <<row, published>>
    PROVE  Kept
<1> DEFINE l == [local[t] EXCEPT !.pc = "failed", !.out = Blank, !.todo = {}]
<1>1. Becomes(t, l) BY DEF Fails
<1>2. l.pc = "failed" /\ l.op = local[t].op BY TaskFacts DEF LocalType
<1> HIDE DEF l
<1>3. Underway(t)' BY <1>1, <1>2, UnderwayStays
<1> QED BY <1>1, <1>3, TaskStill

LEMMA StartKeeps ==
    ASSUME Core, TypeOK', NEW t \in Tasks, Start(t)
    PROVE  Kept
<1> DEFINE l == local[t]
           k == [l EXCEPT !.pc = "work", !.seen.status = row.status, !.out.items = row.items,
                          !.todo = In(row.items)]
<1>1. l.pc = "queued" /\ UNCHANGED published BY DEF Start
<1>2. Live(t) BY <1>1 DEF Live
<1>3. row.exists /\ row.status = LockStatus(l.op) /\ ~row.errors BY <1>2, TaskFacts
<1>4. Becomes(t, k) /\ UNCHANGED row BY <1>3 DEF Start
<1>5. /\ k.pc = "work" /\ k.op = l.op /\ k.seen.status = row.status
      /\ k.out.items = row.items /\ k.todo = In(row.items)
  BY <1>2, TaskFacts DEF LocalType, Row
<1> HIDE DEF k
<1>6. local'[t] = k /\ \A p \in Procs \ {t} : local'[p] = local[p] BY <1>4, TaskMoves DEF Core
<1>7. \A u \in Tasks : Live(u)' => u = t
  <2> SUFFICES ASSUME NEW u \in Tasks, Live(u)', u # t PROVE FALSE OBVIOUS
  <2>1. local'[u] = local[u] BY <1>6 DEF Procs
  <2> QED BY <1>2, <2>1 DEF Core, Underway, Live
<1>8. \A c \in Curators : At(c, "idle")'
  <2>1. \A c \in Curators : local'[c] = local[c] BY <1>6, ProcsAssumption DEF Procs
  <2> QED BY <1>2, <2>1 DEF Core, Underway, At
<1>9. l.op \in {"stage", "publish"} BY <1>2, TaskFacts
<1> HIDE DEF l
<1>10. /\ local'[t].pc = "work" /\ local'[t].op = l.op /\ local'[t].seen.status = row.status
       /\ local'[t].out.items = row.items /\ local'[t].todo = In(row.items)
  BY <1>5, <1>6
<1>11. Underway(t)' BY <1>3, <1>4, <1>7, <1>8, <1>9, <1>10 DEF Underway, In
<1> QED BY <1>1, <1>2, <1>4, <1>11, TaskStill

LEMMA StageEntriesKeeps ==
    ASSUME Core, TypeOK', NEW t \in Tasks, StageEntries(t)
    PROVE  Kept
<1> DEFINE l == local[t]
<1>1. l.pc = "work" /\ l.op = "stage" /\ UNCHANGED <<index, dois>> BY DEF StageEntries
<1>2. Live(t) BY <1>1 DEF Live
<1>3. row.exists /\ row.status = "STAGING" /\ row \in Row BY <1>1, <1>2, TaskFacts
<1>4. l.seen.status = "STAGING" /\ l.todo = In(row.items)
  BY <1>1, <1>2, <1>3 DEF Core, Underway
<1>5. CASE Fails(t) /\ UNCHANGED <<row, portal>>
  BY <1>1, <1>2, <1>5, FailsStill DEF published
<1>6. CASE /\ \A i \in l.todo : portal[i] = "none"
           /\ portal' = [i \in Entries |-> IF i \in l.todo THEN "prerelease" ELSE portal[i]]
           /\ row' = [row EXCEPT !.status = Net(l.seen.status, "STAGED", row.status)]
           /\ Finishes(t)
  <2>1. row'.exists /\ row'.status = "STAGED" /\ row'.items = row.items
    BY <1>3, <1>4, <1>6 DEF Net, Row
  <2>2. portal' = [i \in Entries |-> IF i \in In(row.items) THEN "prerelease" ELSE portal[i]]
    BY <1>4, <1>6
  <2>3. \A i \in Entries : portal[i] # "prerelease"
    BY <1>3 DEF Core, RowAgrees, Previews
  <2>4. RowAgrees'
    <3>1. Previews' BY <2>1, <2>2, <2>3 DEF Previews
    <3>2. ReadyIsValid' BY <1>3, <2>1 DEF Core, RowAgrees, ReadyIsValid
    <3>3. PublishedIsPublic' BY <2>1 DEF PublishedIsPublic
    <3> QED BY <3>1, <3>2, <3>3 DEF RowAgrees
  <2>5. Lifecycle!Stage(In(row.items))
    BY <1>3, <1>4, <1>6, <2>1, <2>2, <2>3 DEF Lifecycle!Stage, phase
  <2>6. Lifecycle!Next BY <2>5 DEF Lifecycle!Next, In
  <2>7. /\ local'[t] = [Idle EXCEPT !.pc = "done"]
        /\ \A p \in Procs \ {t} : local'[p] = local[p]
    BY <1>6, TaskMoves DEF Finishes, Core
  <2>8. ~Live(t)' BY <2>7 DEF Live, Idle
  <2>9. Core' BY <1>2, <2>4, <2>7, <2>8, TaskStep
  <2> QED BY <1>3, <2>6, <2>9 DEF Kept
<1> QED BY <1>5, <1>6 DEF StageEntries

LEMMA PublishReleaseKeeps ==
    ASSUME Core, TypeOK', NEW t \in Tasks, PublishRelease(t)
    PROVE  Kept
<1> DEFINE l == local[t]
<1>1. l.pc = "work" /\ l.op = "publish" /\ l.todo = {} /\ UNCHANGED <<index, dois>>
  BY DEF PublishRelease
<1>2. Live(t) BY <1>1 DEF Live
<1>3. row.exists /\ row.status = "PUBLISHING" /\ row \in Row BY <1>1, <1>2, TaskFacts
<1>4. l.seen.status = "PUBLISHING" /\ l.out.items = row.items /\ In(row.items) \subseteq index
  BY <1>1, <1>2, <1>3 DEF Core, Underway
<1>5. CASE Fails(t) /\ UNCHANGED <<row, portal>>
  BY <1>1, <1>2, <1>5, FailsStill DEF published
<1>6. CASE /\ portal' = [i \in Entries |-> IF i \in In(l.out.items) THEN "public" ELSE portal[i]]
           /\ row' = [row EXCEPT !.errors = l.out.errors,
                                 !.status = Net(l.seen.status, "PUBLISHED", row.status)]
           /\ Finishes(t)
  <2>1. row'.exists /\ row'.status = "PUBLISHED" /\ row'.items = row.items
    BY <1>3, <1>4, <1>6 DEF Net, Row
  <2>2. portal' = [i \in Entries |-> IF i \in In(row.items) THEN "public" ELSE portal[i]]
    BY <1>4, <1>6
  <2>3. \A i \in Entries : portal[i] = "prerelease" <=> i \in In(row.items)
    BY <1>3 DEF Core, RowAgrees, Previews
  <2>4. RowAgrees'
    <3>1. Previews' BY <2>1, <2>2, <2>3 DEF Previews
    <3>2. ReadyIsValid' BY <1>3, <2>1 DEF Core, RowAgrees, ReadyIsValid
    <3>3. PublishedIsPublic' BY <1>1, <1>4, <2>1, <2>2 DEF PublishedIsPublic, In
    <3> QED BY <3>1, <3>2, <3>3 DEF RowAgrees
  <2>5. portal' = [i \in Entries |-> IF portal[i] = "prerelease" THEN "public" ELSE portal[i]]
    BY <2>2, <2>3
  <2>6. Lifecycle!Publish BY <1>3, <2>1, <2>5 DEF Lifecycle!Publish, Lifecycle!Moves, phase
  <2>7. /\ local'[t] = [Idle EXCEPT !.pc = "done"]
        /\ \A p \in Procs \ {t} : local'[p] = local[p]
    BY <1>6, TaskMoves DEF Finishes, Core
  <2>8. ~Live(t)' BY <2>7 DEF Live, Idle
  <2>9. Core' BY <1>2, <2>4, <2>7, <2>8, TaskStep
  <2> QED BY <1>3, <2>6, <2>9 DEF Kept, Lifecycle!Next
<1> QED BY <1>5, <1>6 DEF PublishRelease

LEMMA PublishEntryKeeps ==
    ASSUME Core, TypeOK', NEW t \in Tasks, NEW i \in Entries, PublishEntry(t, i)
    PROVE  Kept
<1> DEFINE l == local[t]
<1>1. l.pc = "work" /\ l.op = "publish" /\ i \in l.todo /\ UNCHANGED <<row, portal>>
  BY DEF PublishEntry
<1>2. Live(t) BY <1>1 DEF Live
<1>3. CASE Fails(t) /\ UNCHANGED <<index, dois>>
  BY <1>1, <1>2, <1>3, FailsStill DEF published
<1>4. CASE /\ index' = index \cup {i}
           /\ \E registered :
                 Becomes(t, [l EXCEPT !.todo = @ \ {i},
                        !.out.errors = @ \/ (l.out.items[i] = "doi" /\ ~registered)])
  <2>1. PICK registered :
            Becomes(t, [l EXCEPT !.todo = l.todo \ {i},
                   !.out.errors = l.out.errors \/ (l.out.items[i] = "doi" /\ ~registered)])
    BY <1>4
  <2> DEFINE e == l.out.errors \/ (l.out.items[i] = "doi" /\ ~registered)
             k == [l EXCEPT !.todo = l.todo \ {i}, !.out.errors = e]
  <2>2. Becomes(t, k) BY <2>1
  <2> HIDE DEF e
  <2>3. /\ k.pc = l.pc /\ k.op = l.op /\ k.seen = l.seen /\ k.todo = l.todo \ {i}
        /\ k.out.items = l.out.items
    BY <1>2, TaskFacts DEF LocalType, Row
  <2> HIDE DEF k
  <2>4. local'[t] = k /\ \A p \in Procs \ {t} : local'[p] = local[p] BY <2>2, TaskMoves DEF Core
  <2>5. \A u \in Tasks : Live(u)' => u = t
    <3> SUFFICES ASSUME NEW u \in Tasks, Live(u)', u # t PROVE FALSE OBVIOUS
    <3>1. local'[u] = local[u] BY <2>4 DEF Procs
    <3> QED BY <1>2, <3>1 DEF Core, Underway, Live
  <2>6. \A c \in Curators : At(c, "idle")'
    <3>1. \A c \in Curators : local'[c] = local[c] BY <2>4, ProcsAssumption DEF Procs
    <3> QED BY <1>2, <3>1 DEF Core, Underway, At
  <2>7. /\ row.exists /\ row.status = LockStatus("publish") /\ ~row.errors
        /\ l.seen.status = row.status /\ l.out.items = row.items
        /\ In(row.items) \ l.todo \subseteq index
    BY <1>1, <1>2 DEF Core, Underway
  <2> HIDE DEF l
  <2>8. /\ local'[t].pc = "work" /\ local'[t].op = "publish" /\ local'[t].seen.status = row.status
        /\ local'[t].out.items = row.items /\ local'[t].todo = l.todo \ {i}
    BY <1>1, <2>3, <2>4, <2>7
  <2>9. In(row.items) \ (l.todo \ {i}) \subseteq index' BY <1>4, <2>7
  <2>10. Underway(t)' BY <1>1, <2>5, <2>6, <2>7, <2>8, <2>9 DEF Underway, In
  <2>11. RowAgrees'
    BY <1>1, <1>4 DEF Core, RowAgrees, Previews, ReadyIsValid, PublishedIsPublic, In
  <2>12. Core' BY <1>2, <2>4, <2>10, <2>11, TaskStep
  <2>13. UNCHANGED <<phase, portal>> BY <1>1 DEF phase
  <2> QED BY <1>1, <2>12, <2>13 DEF Kept
<1> QED BY <1>3, <1>4 DEF PublishEntry

LEMMA GetAgainKeeps ==
    ASSUME Core, TypeOK', NEW t \in Tasks, GetAgain(t)
    PROVE  Kept
<1> DEFINE s == [Blank EXCEPT !.status = row.status, !.errors = row.errors]
           k == [local[t] EXCEPT !.pc = "mark", !.out = Blank, !.seen = s]
<1>1. Live(t) /\ UNCHANGED <<row, published>> BY DEF GetAgain, At, Live
<1>2. Becomes(t, k) BY <1>1, TaskFacts DEF GetAgain
<1>3. s.status = row.status BY DEF Blank
<1> HIDE DEF s
<1>4. k.pc = "mark" /\ k.op = local[t].op /\ k.seen = s BY <1>1, TaskFacts DEF LocalType
<1> HIDE DEF k
<1>5. Underway(t)' BY <1>1, <1>2, <1>3, <1>4, UnderwayStays
<1> QED BY <1>1, <1>2, <1>5, TaskStill

LEMMA MarkFailedKeeps ==
    ASSUME Core, TypeOK', NEW t \in Tasks, MarkFailed(t)
    PROVE  Kept
<1> DEFINE l == local[t]
           s == Net(l.seen.status, Reverts(l.op), row.status)
<1>1. l.pc = "mark" /\ Finishes(t) /\ UNCHANGED published BY DEF MarkFailed
<1>2. Live(t) BY <1>1 DEF Live
<1>3. /\ row.exists /\ row \in Row /\ l.op \in {"stage", "publish"}
      /\ l.op = "stage" => row.status = "STAGING"
      /\ l.op = "publish" => row.status = "PUBLISHING"
      /\ row.status # "PUBLISHED"
  BY <1>2, TaskFacts
<1>4. l.seen.status = row.status BY <1>1, <1>2 DEF Core, Underway
<1>5. PICK e : row' = [row EXCEPT !.errors = e, !.status = s]
  <2>1. PICK more \in BOOLEAN :
            row' = [row EXCEPT !.errors = IF more THEN TRUE ELSE Net(l.seen.errors, TRUE, row.errors),
                               !.status = s]
    BY <1>3 DEF MarkFailed
  <2> QED BY <2>1
<1>6. s = Reverts(l.op) BY <1>3, <1>4 DEF Net, Reverts
<1> HIDE DEF s
<1>7. row'.exists /\ row'.status = Reverts(l.op) /\ row'.items = row.items
  BY <1>3, <1>5, <1>6 DEF Row
<1>8. RowAgrees' /\ UNCHANGED <<phase, portal>>
  <2>1. \A i \in Entries : row.items[i] # "bad" BY <1>3 DEF Core, RowAgrees, ReadyIsValid
  <2>2. CASE l.op = "stage"
    <3>1. row'.status = "READY" BY <1>7, <2>2 DEF Reverts
    <3> QED BY <1>1, <1>3, <1>7, <2>1, <2>2, <3>1, DraftRow
  <2>3. CASE l.op = "publish"
    <3>1. row'.status = "STAGED" BY <1>7, <2>3 DEF Reverts
    <3> QED BY <1>1, <1>3, <1>7, <2>3, <3>1, StagedRow
  <2> QED BY <1>3, <2>2, <2>3
<1>9. /\ local'[t] = [Idle EXCEPT !.pc = "done"]
      /\ \A p \in Procs \ {t} : local'[p] = local[p]
  BY <1>1, TaskMoves DEF Finishes, Core
<1>10. ~Live(t)' BY <1>9 DEF Live, Idle
<1>11. Core' BY <1>2, <1>8, <1>9, <1>10, TaskStep
<1> QED BY <1>3, <1>8, <1>11 DEF Kept

LEMMA TaskKeeps ==
    ASSUME Core, TypeOK', NEW t \in Tasks, Task(t)
    PROVE  Kept
<1>1. CASE WorkFails(t)
  <2>1. Live(t) BY <1>1 DEF WorkFails, At, Live
  <2> QED BY <1>1, <2>1, FailsStill DEF WorkFails
<1> QED BY <1>1, StartKeeps, StageEntriesKeeps, PublishReleaseKeeps, GetAgainKeeps, MarkFailedKeeps,
           PublishEntryKeeps DEF Task

-----------------------------------------------------------------------------
(* Every step.                                                              *)

\* A request that dies leaves the row as it is, a lost task too.
LEMMA DiesKeeps ==
    ASSUME Core, TypeOK', NEW c, Curators = {c}, NEW p \in Procs, Dies(p)
    PROVE  Kept
<1>1. CASE p \in Curators /\ ~At(p, "idle") /\ Ends(p)
  BY <1>1, NoTask, EndsKeeps DEF Dies
<1>2. CASE p \in Tasks /\ local[p].pc \notin {"idle", "done"} /\ Finishes(p)
  BY <1>2, FinishesStill DEF Dies, Live
<1> QED BY <1>1, <1>2 DEF Dies

\* The name of a release says nothing of its entries.
LEMMA EditMetadataKeeps ==
    ASSUME Core, TypeOK', NEW p \in Curators, EditMetadata(p)
    PROVE  Kept
<1>1. row' = [row EXCEPT !.named = TRUE] /\ UNCHANGED <<published, local>> BY DEF EditMetadata
<1>2. row \in Row BY DEF Core, TypeOK
<1>3. /\ row'.exists = row.exists /\ row'.status = row.status
      /\ row'.items = row.items /\ row'.errors = row.errors
  BY <1>1, <1>2 DEF Row
<1>4. RowAgrees'
  BY <1>1, <1>3 DEF Core, RowAgrees, Previews, ReadyIsValid, PublishedIsPublic, published, In
<1>5. \A t \in Tasks : Underway(t)' BY <1>1, <1>3 DEF Core, Underway, Live, At, In, published
<1>6. \A c \in Curators : Asked(c)' BY <1>1, <1>3 DEF Core, Asked, Prepared
<1>7. UNCHANGED <<phase, portal>> BY <1>1, <1>3 DEF phase, published
<1> QED BY <1>4, <1>5, <1>6, <1>7 DEF Core, Kept

LEMMA StepKeeps ==
    ASSUME Core, ViaPage, NEW c, Curators = {c}, [Next]_vars
    PROVE  Kept
<1>1. TypeOK' BY TypesKept DEF Core
<1>2. CASE UNCHANGED vars
  <2>1. UNCHANGED <<row, published>> BY <1>2 DEF vars, published
  <2>2. Core'
    <3>1. \A t \in Tasks : Underway(t)'
      BY <1>2 DEF vars, Core, Underway, Live, At, In
    <3>2. \A d \in Curators : Asked(d)' BY <1>2 DEF vars, Core, Asked, Prepared
    <3> QED BY <1>1, <2>1, <3>1, <3>2, RowStill DEF Core
  <2> QED BY <2>1, <2>2, RowStill
<1>3. CASE \E p \in Curators : Request(p) BY <1>1, <1>3, RequestKeeps
<1>4. CASE \E p \in Curators : \E op \in Handlers : Begin(p, op) BY <1>1, <1>4, BeginKeeps
<1>5. CASE \E t \in Tasks : Task(t) BY <1>1, <1>5, TaskKeeps
<1>6. CASE \E p \in Procs : Dies(p) BY <1>1, <1>6, DiesKeeps
<1>7. CASE \E p \in Curators : EditMetadata(p) BY <1>1, <1>7, EditMetadataKeeps
<1> QED BY <1>2, <1>3, <1>4, <1>5, <1>6, <1>7 DEF Next

LEMMA CoreStarts == Init => Core /\ Lifecycle!Init
<1> SUFFICES ASSUME Init PROVE Core /\ Lifecycle!Init OBVIOUS
<1>1. PICK its \in Items : row = Validated([Blank EXCEPT !.exists = TRUE], its, FALSE)
  BY DEF Init
<1>2. [Blank EXCEPT !.exists = TRUE] \in Row /\ [Blank EXCEPT !.exists = TRUE].exists
  BY BlankTyped DEF Row
<1>3. /\ row.exists /\ row.items = its /\ row.status \in {"DRAFT", "READY"}
      /\ row.status = "READY" => \A i \in Entries : its[i] # "bad"
  BY <1>1, <1>2, ValidatedTyped
<1>4. \A i \in Entries : portal[i] \in {"none", "other"} BY DEF Init
<1>5. \A p \in Procs : local[p] = Idle BY DEF Init
<1>6. Previews /\ ReadyIsValid /\ PublishedIsPublic
  BY <1>3, <1>4 DEF Previews, ReadyIsValid, PublishedIsPublic
<1>7. \A t \in Tasks : Underway(t) BY <1>5 DEF Underway, Live, Idle, Procs
<1>8. \A c \in Curators : Asked(c) BY <1>5 DEF Asked, Idle, Procs
<1>9. Core BY <1>6, <1>7, <1>8, InitTyped DEF Core, RowAgrees
<1>10. portal \in [Entries -> {"none", "other"}] BY DEF Init
<1> QED BY <1>3, <1>9, <1>10 DEF Lifecycle!Init, phase

\* One page is open at a time, and its request is one of those it shows.
OneCurator == ViaPage /\ \E c : Curators = {c}

LEMMA CoreInvariant == OneCurator => (Spec => []Core)
<1> SUFFICES ASSUME OneCurator PROVE Spec => []Core OBVIOUS
<1>1. Core /\ [Next]_vars => Core' BY StepKeeps DEF OneCurator, Kept
<1> QED BY <1>1, CoreStarts, PTL DEF Spec

\* What is staged is registered: with one page open at a time, the portal
\* has every entry of a release that is staged, being published or published,
\* whatever task fails or is lost and whatever request fails.
THEOREM AlwaysRegistered == OneCurator => (Spec => []StagedIsRegistered)
<1> SUFFICES ASSUME OneCurator PROVE Spec => []StagedIsRegistered OBVIOUS
<1>1. Core => StagedIsRegistered
  BY DEF Core, RowAgrees, Previews, PublishedIsPublic, StagedIsRegistered, In
<1> QED BY <1>1, CoreInvariant, PTL

\* What is published is public, and in the search.
THEOREM AlwaysPublic == OneCurator => (Spec => []PublishedIsPublic)
<1> SUFFICES ASSUME OneCurator PROVE Spec => []PublishedIsPublic OBVIOUS
<1>1. Core => PublishedIsPublic BY DEF Core, RowAgrees
<1> QED BY <1>1, CoreInvariant, PTL

\* No preview is left without the release that can publish it or take it back.
THEOREM AlwaysNoOrphans == OneCurator => (Spec => []NoOrphans)
<1> SUFFICES ASSUME OneCurator PROVE Spec => []NoOrphans OBVIOUS
<1>1. Core => NoOrphans BY DEF Core, RowAgrees, Previews, NoOrphans
<1> QED BY <1>1, CoreInvariant, PTL

\* Nothing that a validation rejects is staged.
THEOREM AlwaysOnlyValidated == OneCurator => (Spec => []OnlyValidated)
<1> SUFFICES ASSUME OneCurator PROVE Spec => []OnlyValidated OBVIOUS
<1>1. Core => OnlyValidated BY DEF Core, RowAgrees, ReadyIsValid, OnlyValidated
<1> QED BY <1>1, CoreInvariant, PTL

\* A release has one task at a time.
THEOREM AlwaysOneTask == OneCurator => (Spec => []OneTask)
<1> SUFFICES ASSUME OneCurator PROVE Spec => []OneTask OBVIOUS
<1>1. Core => OneTask
  <2> SUFFICES ASSUME Core PROVE OneTask OBVIOUS
  <2> DEFINE live == {t \in Tasks : local[t].pc \notin {"idle", "done"}}
  <2>1. \A t, u \in live : u = t BY DEF Core, Underway, Live
  <2>2. live = {} \/ \E t : live = {t} BY <2>1
  <2> HIDE DEF live
  <2>3. Cardinality(live) = 0 \/ Cardinality(live) = 1 BY <2>2, FS_EmptySet, FS_Singleton
  <2>4. Cardinality(live) <= 1 BY <2>3
  <2> QED BY <2>4 DEF OneTask, live
<1> QED BY <1>1, CoreInvariant, PTL

\* The release is what the lifecycle promises: every step of the views and the
\* tasks is one of its steps, or changes neither the phase nor the portal.
THEOREM Implements == OneCurator => (Spec => LifecycleSpec)
<1> SUFFICES ASSUME OneCurator PROVE Spec => LifecycleSpec OBVIOUS
<1>1. Init => Lifecycle!Init BY CoreStarts
<1>2. Core /\ [Next]_vars => [Lifecycle!Next]_<<phase, portal>>
  BY StepKeeps DEF OneCurator, Kept
<1> QED BY <1>1, <1>2, CoreInvariant, PTL DEF Spec, LifecycleSpec, Lifecycle!Spec

=============================================================================
