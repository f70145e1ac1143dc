------------------------------ MODULE MeasImport ------------------------------
(***************************************************************************)
(* What TestDirectory stores below its measurement files                   *)
(* (src/src/testdirectory.cpp, from UpdateMeasFile on): measurements,      *)
(* their quantities (MQ), and the global quantities and units that these   *)
(* refer to.  TestDirectory.tla has the files and the cycle around it.     *)
(*                                                                         *)
(* The lists of quantities and units are read in one scope and used in a   *)
(* later one; between the two, other programs change the database and the  *)
(* disk changes.  An MQ keeps beside its columns the channel it was made   *)
(* from (of).  Insert binds a text with quotes (Bound), so that only names *)
(* that another program has stored (Plain) are found again.                *)
(*                                                                         *)
(* Files of different names: of two files of one test with one name the    *)
(* second is refused before this scope, see twins in TestDirectory.tla.    *)
(***************************************************************************)
EXTENDS Naturals, Sequences, FiniteSets, SequencesExt, FiniteSetsExt

CONSTANTS
  Files,       \* the measurement files, in the order of the update list
  Contents,    \* what a file may hold: data groups, each a sequence of channels
               \* [name, unit, samples], one channel group after the other
  NoMdf,       \* what a file holds that MdfReader cannot read
  Others,      \* the quantities and units that other programs store
  Faults,      \* what may fail, a subset of {"statement", "commit", "crash"}
  MaxCycles, MaxTrouble

ASSUME MeasAssumption ==
  /\ Files \in Seq(STRING) /\ Files # << >>
  /\ \A c \in Contents : c \in Seq(Seq([name : STRING, unit : STRING, samples : Nat]))
  /\ MaxCycles \in Nat /\ MaxTrouble \in Nat

VARIABLES
  disk,        \* the content of each file
  db,          \* the committed tables; last: the ids that they have drawn
  quantity_list, unit_list,
  pc,          \* "idle", or "update" between FetchFromDb and UpdateMeasFile
  updated,     \* the files of the last UpdateMeasFile
  told,        \* how it has ended
  cycles, left

lists == <<quantity_list, unit_list>>
vars == <<disk, db, lists, pc, updated, told, cycles, left>>

Plain(n) == [text |-> n, quoted |-> FALSE]
Bound(n) == [text |-> n, quoted |-> TRUE]

Tables == {"file", "meas", "mq", "quantity", "unit"}
NewDb == [file |-> {}, meas |-> {}, mq |-> {}, quantity |-> {}, unit |-> {},
          last |-> [t \in Tables |-> 0]]

Ids(rows) == {r.id : r \in rows}

(***************************************************************************)
(* The scope of UpdateMeasFile: s holds its tables and lists, the number   *)
(* of statements so far, which of them throws (broken), and whether every  *)
(* method has returned true.                                               *)
(***************************************************************************)
Counted(s) == [s EXCEPT !.count = @ + 1]
Breaks(s) == s.count + 1 = s.broken

NewId(s, table) == s.db.last[table] + 1

MutWithRow(tables, table, row) == [tables EXCEPT ![table] = @ \cup {row}]

\* row has the id that is the next one of the table.
WithRow(tables, table, row) ==
  LET drawn == [tables.last EXCEPT ![table] = @ + 1]
  IN  [tables EXCEPT ![table] = @ \cup {row}, !.last = drawn]

Insert(s, table, row) == [Counted(s) EXCEPT !.db = WithRow(@, table, row)]

RefersTo(id, rows) == id \in Ids(rows) \cup {0}

(* The first of the rows with the name, 0 if there is none.                *)
MutFound(rows, name) == IF rows = {} THEN 0 ELSE Min(Ids(rows))

Found(rows, name) ==
  LET same == {r \in rows : r.name = Plain(name)}
  IN  IF same = {} THEN 0 ELSE Min(Ids(same))

(***************************************************************************)
(* UpdateUnit and UpdateQuantity: a row of the list, or a new one; a       *)
(* statement that fails is no failure of the scope, it gives id 0.         *)
(***************************************************************************)
UpdateUnit(s, unit) ==
  IF unit = "" \/ Found(s.units, unit) # 0 THEN [s EXCEPT !.id = Found(s.units, unit)]
  ELSE IF Breaks(s) \/ \E r \in s.db.unit : r.name = Bound(unit)
       THEN [Counted(s) EXCEPT !.id = 0]
       ELSE [Insert(s, "unit", [id |-> NewId(s, "unit"), name |-> Bound(unit)]) EXCEPT
               !.id = NewId(s, "unit"),
               !.units = @ \cup {[name |-> Plain(unit), id |-> NewId(s, "unit")]}]

(* u: s with the id of the unit.                                           *)
InsertQuantity(u, name) ==
  IF Breaks(u) \/ ~RefersTo(u.id, u.db.unit) THEN [Counted(u) EXCEPT !.id = 0]
  ELSE [Insert(u, "quantity", [id |-> NewId(u, "quantity"), name |-> Bound(name), unit |-> u.id]) EXCEPT
          !.id = NewId(u, "quantity"),
          !.quantities = @ \cup {[name |-> Plain(name), id |-> NewId(u, "quantity")]}]

UpdateQuantity(s, channel) ==
  IF Found(s.quantities, channel.name) # 0 THEN [s EXCEPT !.id = Found(s.quantities, channel.name)]
  ELSE InsertQuantity(UpdateUnit(s, channel.unit), channel.name)

(***************************************************************************)
(* UpdateMq: db_list (mqs) holds the rows of the measurement as they were  *)
(* fetched, and those that are inserted here.                              *)
(***************************************************************************)
Grown(channel, row) == channel.samples > row.samples

UpdateSamples(s, channel, row) ==
  IF ~Grown(channel, row) THEN s
  ELSE IF Breaks(s) THEN [Counted(s) EXCEPT !.ok = FALSE]
  ELSE [Counted(s) EXCEPT !.db.mq = {IF r.id = row.id THEN [r EXCEPT !.samples = channel.samples] ELSE r : r \in @}]

InsertMqRow(s, row) ==
  IF \/ Breaks(s)
     \/ ~RefersTo(row.quantity, s.db.quantity) \/ ~RefersTo(row.unit, s.db.unit)
     \/ \E r \in s.db.mq : r.meas = row.meas /\ r.name = row.name
  THEN [Counted(s) EXCEPT !.ok = FALSE]
  ELSE [Insert(s, "mq", row) EXCEPT !.mqs = @ \cup {[row EXCEPT !.name = Plain(row.of.name)]}]

(* q: s with the id of the quantity; u: q with the id of the unit.         *)
InsertMq(s, channel, meas) ==
  LET Linked(q, u) ==
        InsertMqRow(u, [id |-> NewId(u, "mq"), name |-> Bound(channel.name), meas |-> meas,
                        quantity |-> q.id, unit |-> u.id, samples |-> channel.samples,
                        of |-> [name |-> channel.name, unit |-> channel.unit]])
      WithUnit(q) == Linked(q, UpdateUnit(q, channel.unit))
  IN  WithUnit(UpdateQuantity(s, channel))

UpdateChannel(s, channel, meas) ==
  LET id == Found(s.mqs, channel.name)
  IN  IF ~s.ok THEN s
      ELSE IF id = 0 THEN InsertMq(s, channel, meas)
      ELSE UpdateSamples(s, channel, CHOOSE r \in s.mqs : r.id = id)

UpdateMq(s, group, meas) ==
  LET first == [s EXCEPT !.mqs = {r \in s.db.mq : r.meas = meas}]
      after[n \in 0 .. Len(group)] ==
        IF n = 0 THEN first ELSE UpdateChannel(after[n - 1], group[n], meas)
  IN  after[Len(group)]

(***************************************************************************)
(* UpdateMeas: a measurement is found by its number in the file.           *)
(***************************************************************************)
InsertMeas(s, file, nr) ==
  IF Breaks(s) THEN [Counted(s) EXCEPT !.ok = FALSE]
  ELSE Insert(s, "meas", [id |-> NewId(s, "meas"), file |-> file, nr |-> nr])

\* Mutant: every group is taken for the first one.
MutGroupNr(n) == 0

GroupNr(n) == n - 1

\* had: the measurements of the file before.
UpdateGroup(s, group, nr, file, had) ==
  LET same == {r \in had : r.nr = nr}
      Then(acc, id) == IF acc.ok THEN UpdateMq(acc, group, id) ELSE acc
  IN  Then(IF ~s.ok \/ same # {} THEN s ELSE InsertMeas(s, file, nr),
           IF same # {} THEN Min(Ids(same)) ELSE NewId(s, "meas"))

UpdateMeas(s, content, file) ==
  LET had == {r \in s.db.meas : r.file = file}
      after[n \in 0 .. Len(content)] ==
        IF n = 0 THEN s ELSE UpdateGroup(after[n - 1], content[n], GroupNr(n), file, had)
  IN  after[Len(content)]

(***************************************************************************)
(* UpdateMeasFile: the files of a directory (the update list has one), one *)
(* after the other, in one scope.  A file that cannot be read is passed    *)
(* over, with the rows that it has.  The row of a file that the worker     *)
(* itself has stored is not found; UNIQUE refuses another one.             *)
(***************************************************************************)
InsertFile(s, f) ==
  IF Breaks(s) \/ \E r \in s.db.file : r.name = Bound(f) THEN [Counted(s) EXCEPT !.ok = FALSE]
  ELSE Insert(s, "file", [id |-> NewId(s, "file"), name |-> Bound(f)])

UpdateFile(s, f) ==
  LET same == {r \in s.db.file : r.name = Plain(f)}
      Then(acc, id) == IF acc.ok THEN UpdateMeas(acc, disk[f], id) ELSE acc
  IN  IF disk[f] = NoMdf THEN s
      ELSE Then(IF ~s.ok \/ same # {} THEN s ELSE InsertFile(s, f),
                IF same # {} THEN Min(Ids(same)) ELSE NewId(s, "file"))

UpdateFiles(s, files) ==
  LET after[n \in 0 .. Len(Files)] ==
        IF n = 0 THEN s
        ELSE IF Files[n] \in files THEN UpdateFile(after[n - 1], Files[n]) ELSE after[n - 1]
  IN  after[Len(Files)]

(* ON DELETE SET NULL: the measurements of a file that goes stay without.  *)
Nulled(rows, column, ids) ==
  {IF r[column] \in ids THEN [r EXCEPT ![column] = 0] ELSE r : r \in rows}

WithoutFiles(tables, gone) ==
  [tables EXCEPT !.file = @ \ gone, !.meas = Nulled(@, "file", Ids(gone))]

WithoutQuantities(tables, gone) ==
  [tables EXCEPT !.quantity = @ \ gone, !.mq = Nulled(@, "quantity", Ids(gone))]

WithoutUnits(tables, gone) ==
  [tables EXCEPT !.unit = @ \ gone, !.mq = Nulled(@, "unit", Ids(gone)),
                 !.quantity = Nulled(@, "unit", Ids(gone))]

(* The rows that were there before and are not of a listed file.  The rows *)
(* that the worker has stored go as well, the quotes make them differ.     *)
DeleteUnlisted(s, had, files) ==
  LET gone == {r \in had : r.name \notin {Plain(f) : f \in files}}
      count == s.count + Cardinality(gone)
  IN  IF ~s.ok THEN s
      ELSE IF s.broken \in (s.count + 1)..count THEN [s EXCEPT !.count = count, !.ok = FALSE]
      ELSE [s EXCEPT !.count = count, !.db = WithoutFiles(@, gone)]

Begun(tables, quantities, units, broken) ==
  [db |-> tables, quantities |-> quantities, units |-> units, mqs |-> {},
   count |-> 0, broken |-> broken, id |-> 0, ok |-> TRUE]

Import(tables, quantities, units, files, broken) ==
  DeleteUnlisted(UpdateFiles(Begun(tables, quantities, units, broken), files), tables.file, files)

(***************************************************************************)
(* The state.  The database is new, or has what another program with the   *)
(* same tables has stored of some file, with plain names.                  *)
(***************************************************************************)
Unquoted(rows) == {[r EXCEPT !.name = Plain(@.text)] : r \in rows}

PlainDb(d) ==
  [d EXCEPT !.file = Unquoted(@), !.mq = Unquoted(@), !.quantity = Unquoted(@), !.unit = Unquoted(@)]

Init ==
  /\ disk \in [ToSet(Files) -> Contents \cup {NoMdf}]
  /\ db \in {PlainDb(Import(NewDb, {}, {}, files, 0).db) : files \in SUBSET {Head(Files)}}
  /\ quantity_list = {} /\ unit_list = {}
  /\ pc = "idle" /\ updated = {} /\ told = "none"
  /\ cycles = 0 /\ left = MaxTrouble

Trouble == left > 0 /\ left' = left - 1
Fails(kind) == kind \in Faults /\ Trouble

(* The disk and other programs (external); DeleteTest of the worker itself *)
(* takes away files as they do.                                            *)
WriteFile ==
  /\ Trouble
  /\ \E f \in ToSet(Files), c \in Contents \cup {NoMdf} : disk' = [disk EXCEPT ![f] = c]
  /\ UNCHANGED <<db, lists, pc, updated, told, cycles>>

OtherProgram ==
  /\ Trouble
  /\ \/ \E n \in Others :
          /\ \A r \in db.unit : r.name # Plain(n)
          /\ db' = WithRow(db, "unit", [id |-> db.last["unit"] + 1, name |-> Plain(n)])
     \/ \E n \in Others :
          /\ \A r \in db.quantity : r.name # Plain(n)
          /\ db' = WithRow(db, "quantity", [id |-> db.last["quantity"] + 1, name |-> Plain(n), unit |-> 0])
     \/ \E r \in db.quantity : db' = WithoutQuantities(db, {r})
     \/ \E r \in db.unit : db' = WithoutUnits(db, {r})
     \/ \E r \in db.file : db' = WithoutFiles(db, {r})
  /\ UNCHANGED <<disk, lists, pc, updated, told, cycles>>

(***************************************************************************)
(* The cycle.  WorkerThread skips the rest of it when FetchFromDb fails.   *)
(***************************************************************************)
FetchFromDb ==
  /\ pc = "idle" /\ cycles < MaxCycles
  /\ cycles' = cycles + 1
  /\ quantity_list' = db.quantity /\ unit_list' = db.unit
  /\ pc' = "update"
  /\ UNCHANGED <<disk, db, updated, told, left>>

EndCycle(answer) ==
  /\ pc' = "idle" /\ told' = answer
  /\ quantity_list' = {} /\ unit_list' = {}

UpdateMeasFile ==
  /\ pc = "update"
  /\ \E files \in SUBSET ToSet(Files) :
       LET Scope(broken) == Import(db, quantity_list, unit_list, files, broken)
           End(r) == /\ EndCycle(IF r.ok THEN "stored" ELSE "failed")
                     /\ db' = IF r.ok THEN r.db ELSE db
       IN  /\ updated' = files
           /\ \E whole \in {Scope(0)} :
                \/ End(whole) /\ UNCHANGED left
                \/ whole.ok /\ Fails("commit") /\ EndCycle("lost") /\ UNCHANGED db
                \/ Fails("statement") /\ EndCycle("failed") /\ UNCHANGED db   \* a SELECT
                \/ /\ Fails("statement")                                      \* another one
                   /\ \E r \in {Scope(n) : n \in 1..whole.count} : End(r)
  /\ UNCHANGED <<disk, cycles>>

Crash ==
  /\ pc = "update" /\ Fails("crash")
  /\ EndCycle("none")
  /\ UNCHANGED <<disk, db, updated, cycles>>

Next == WriteFile \/ OtherProgram \/ FetchFromDb \/ UpdateMeasFile \/ Crash

Spec == Init /\ [][Next]_vars
-------------------------------------------------------------------------------
(* Ids are drawn once, and references lead to rows or nowhere, although    *)
(* the ids of the lists come from an earlier scope.                        *)
TypeOK ==
  /\ \A t \in Tables :
       /\ Ids(db[t]) \subseteq 1..db.last[t]
       /\ \A r, q \in db[t] : r.id = q.id => r = q
  /\ \A r \in db.meas : RefersTo(r.file, db.file)
  /\ \A r \in db.mq : RefersTo(r.meas, db.meas) /\ RefersTo(r.quantity, db.quantity) /\ RefersTo(r.unit, db.unit)
  /\ \A r \in db.quantity : RefersTo(r.unit, db.unit)
  /\ pc \in {"idle", "update"} /\ told \in {"none", "stored", "failed", "lost"}
  /\ cycles \in 0..MaxCycles /\ left \in 0..MaxTrouble

(* An MQ refers to the quantity of its own name and to the unit of its own *)
(* channel, or to none: no failed insert, rollback or lost COMMIT leaves   *)
(* an id in the lists that is of another row later.                        *)
RefersToItsOwn ==
  \A q \in db.mq :
    /\ \A r \in db.quantity : r.id = q.quantity => r.name.text = q.name.text
    /\ \A r \in db.unit : r.id = q.unit => r.name.text = q.of.unit

(* The rows that a file has now: an UpdateMeasFile that has returned true  *)
(* and is committed leaves of a file that can be read one measurement for  *)
(* each data group, with one MQ for each of its channels that has at least *)
(* the samples of the last channel group with the channel; and no MQ that  *)
(* was there before is lost or has fewer samples than it had.              *)
ChannelsOf(group, name) == {k \in DOMAIN group : group[k].name = name}

HasChannel(tables, meas, group, name) ==
  \E q \in tables.mq :
    /\ {r \in tables.mq : r.meas = meas /\ r.name.text = name} = {q}
    /\ q.samples >= group[Max(ChannelsOf(group, name))].samples

HasGroup(tables, file, nr, group) ==
  \E m \in tables.meas :
    /\ {r \in tables.meas : r.file = file /\ r.nr = nr} = {m}
    /\ \A k \in DOMAIN group : HasChannel(tables, m.id, group, group[k].name)

HasFile(tables, f, content) ==
  \E file \in tables.file :
    /\ file.name.text = f
    /\ \A n \in DOMAIN content : HasGroup(tables, file.id, n - 1, content[n])

NoneLost(before, after) == \A r \in before.mq : \E q \in after.mq : q.id = r.id /\ q.samples >= r.samples

ImportedCompletely ==
  [][pc = "update" /\ pc' = "idle" /\ told' = "stored" =>
       /\ NoneLost(db, db')
       /\ \A f \in updated' : disk'[f] # NoMdf => HasFile(db', f, disk'[f])]_vars
===============================================================================
