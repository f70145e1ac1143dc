----------------------------- MODULE DumpRestore -----------------------------
(***************************************************************************)
(* A database is created from a model, dumped into a directory and read   *)
(* in from it (src/idatabase.cpp, src/ienvironment.cpp), on SQLite or     *)
(* PostgreSQL.  A scope of a DatabaseGuard is one step, for it is one     *)
(* transaction; other programs write between the scopes.                   *)
(*                                                                         *)
(* A text is its letters and the quotes that SqliteDatabase::Insert has   *)
(* put around them.  Of a row are kept the text of its name column, its   *)
(* references and its BLOB; a name column is neither obligatory nor has a *)
(* default, names have no blank at their ends (a dump line loses them),   *)
(* and the file of a table has its name in small letters.                  *)
(***************************************************************************)
EXTENDS ModelTables

CONSTANTS
  Models,       \* the models that databases are created from
  Sources,      \* what the dumped database may be at first
  Targets,      \* what the other database may be at first
  Stems,        \* the names of the dump files, in alphabetical order
  Writes,       \* what other programs insert: <<table, row>>
  Faults,       \* the faults that happen
  MaxFaults, MaxChanges, MaxDumps, MaxReads

VARIABLES
  source, target,
  dirs,         \* the dump directories on the disk
  reported,     \* those that DumpDatabase has returned
  stable,       \* rows that nobody has changed since the dump began
  lost,         \* rows that a write has failed to put into its files: <<table, id>>
  dumping,      \* DumpDatabase: where it is, the tables left
  reading,      \* ReadInDump
  faults, changes, reads

onRead == <<target, reading, reads>>
onDump == <<source, dirs, reported, stable, lost, dumping>>
vars == <<source, target, dirs, reported, stable, lost, dumping, reading, faults, changes, reads>>

NoText == [text |-> "", quotes |-> 0]
Plain(s) == [text |-> s, quotes |-> 0]
NoDir == [model |-> [title |-> NoText, tables |-> << >>, enums |-> << >>, relations |-> << >>],
          dbt |-> << >>]
Idle == [at |-> "idle", answer |-> "none"]

Fault(f) == f \in Faults /\ faults < MaxFaults /\ faults' = faults + 1
NoFault == UNCHANGED faults

------------------------------------------------------------------------------
(* Databases: the service tables (svc) and the tables with their rows.    *)
NewSvc == [made |-> {}, enums |-> {}, ents |-> << >>, attrs |-> << >>, refs |-> {}]

NewDatabase(kind, exists) ==
  [kind |-> kind, exists |-> exists, svc |-> NewSvc, tables |-> << >>, relations |-> {}]

Columns(t, base) == {n \in DOMAIN t.columns : t.columns[n].base = base /\ t.columns[n].stored}

Links(m, t) ==
  {<<t.columns[n].name, m.tables[t.columns[n].ref].db>> :
     n \in {k \in DOMAIN t.columns : t.columns[k].stored /\ t.columns[k].ref \in DOMAIN m.tables}}

MakeUniqueList(t) == {n \in Columns(t, "name") : "unique" \in t.columns[n].flags}

NewTable(m, t) ==
  [rows |-> << >>, last |-> 0, refs |-> Links(m, t), unique |-> MakeUniqueList(t) # {}]

(* A text without letters is NULL, of which UNIQUE allows any number.      *)
Quoted(db, text) ==
  IF db.kind = "sqlite" /\ text # NoText THEN [text EXCEPT !.quotes = @ + 1] ELSE text

(* Insert: the id is a new one, whatever the row says.  A refused row     *)
(* throws.                                                                 *)
Stored(db, row) == [row EXCEPT !.text = Quoted(db, @)]

Refused(db, name, row, checked) ==
  \/ name \notin DOMAIN db.tables
  \/ /\ db.tables[name].unique /\ row.text # NoText
     /\ \E i \in DOMAIN db.tables[name].rows :
          db.tables[name].rows[i].text = Stored(db, row).text
  \/ /\ checked
     /\ \E r \in db.tables[name].refs :
          row.refs[r[1]] \notin {0} \cup (IF r[2] \in DOMAIN db.tables
                                          THEN DOMAIN db.tables[r[2]].rows ELSE {})

Insert(db, name, row) ==
  LET t  == db.tables[name]
      id == t.last + 1
  IN  [db EXCEPT !.tables[name] =
         [t EXCEPT !.last = id,
                   !.rows = [i \in DOMAIN @ \cup {id} |-> IF i = id THEN Stored(db, row) ELSE @[i]]]]

NameRow(m, t, text) ==
  [text |-> text, data |-> "none", refs |-> [c \in {r[1] : r \in Links(m, t)} |-> 0]]

------------------------------------------------------------------------------
(* Create: eight steps of statements.  A step ends with its first failure *)
(* (the relation tables go on), the other steps run all the same, and     *)
(* what has succeeded is committed.  A column is numbered by its place,    *)
(* and FUNIT is NULL until its unit has a row.                             *)
Make(table) == <<[do |-> "make", table |-> table]>>

EnumRows(m) ==
  LET names == SetToSeq(DOMAIN m.enums)
      Items(n) == IF m.enums[names[n]] = {} THEN {0} ELSE m.enums[names[n]]
      Rows(n) == LET items == SetToSeq(Items(n))
                 IN  [k \in DOMAIN items |-> [do |-> "enum", row |-> <<n, items[k], names[n]>>]]
  IN  FlattenSeq([n \in DOMAIN names |-> Rows(n)])

AttrRows(m, list) ==
  LET Rows(n) == LET cols == m.tables[list[n]].columns
                 IN  [k \in DOMAIN cols |->
                        [do |-> "attr", id |-> list[n], column |-> [cols[k] EXCEPT !.nr = k, !.unit = NoText]]]
  IN  FlattenSeq([n \in DOMAIN list |-> Rows(n)])

RefRows(m) ==
  LET valid == SetToSeq({r \in DOMAIN m.relations :
                           m.relations[r].table1 > 0 /\ m.relations[r].table2 > 0})
  IN  [n \in DOMAIN valid |-> [do |-> "ref", name |-> valid[n], row |-> m.relations[valid[n]]]]

(* InsertModelUnits: the first column with a unit inserts it, and the      *)
(* FUNIT of every column with a unit is updated.  Units need a name.       *)
Places(m, list) ==
  FlattenSeq([n \in DOMAIN list |-> [k \in DOMAIN m.tables[list[n]].columns |-> <<list[n], k>>]])

UnitAt(m, at) == m.tables[at[1]].columns[at[2]].unit

HasNoName(t) == \A n \in DOMAIN t.columns : t.columns[n].base # "name"

UnitsOf(m, places, u) ==
  LET Link(n) == [do |-> "unit", at |-> places[n], table |-> m.tables[u].db, unit |-> UnitAt(m, places[n])]
      Row(n) == [do |-> "insert", table |-> m.tables[u].db,
                 row |-> NameRow(m, m.tables[u], UnitAt(m, places[n]))]
  IN  IF u = 0 THEN << >>
      ELSE IF HasNoName(m.tables[u]) THEN <<[do |-> "refuse"]>>
      ELSE IF m.tables[u].db = "" THEN << >>
      ELSE FlattenSeq([n \in DOMAIN places |->
             IF UnitAt(m, places[n]) = NoText THEN << >>
             ELSE IF \E k \in 1..(n - 1) : UnitAt(m, places[k]) = UnitAt(m, places[n]) THEN <<Link(n)>>
             ELSE <<Row(n), Link(n)>>])

UnitRows(m, list) == UnitsOf(m, Places(m, list), GetTableByBaseId(m.tables, "AoUnit"))

EnvRow(m, e) ==
  IF e = 0 \/ m.tables[e].db = "" \/ Columns(m.tables[e], "name") = {} THEN << >>
  ELSE <<[do |-> "insert", table |-> m.tables[e].db, row |-> NameRow(m, m.tables[e], m.title)]>>

EntRows(list) == [n \in DOMAIN list |-> [do |-> "ent", id |-> list[n]]]

TableRows(m, list) ==
  FlattenSeq([n \in DOMAIN list |->
    IF m.tables[list[n]].db = "" \/ m.tables[list[n]].columns = << >> THEN << >>
    ELSE <<[do |-> "table", id |-> list[n]]>>])

RelationTables(m) ==
  LET made == SetToSeq({r \in DOMAIN m.relations :
                          /\ m.relations[r].db # ""
                          /\ {m.relations[r].table1, m.relations[r].table2} \subseteq DOMAIN m.tables})
  IN  [n \in DOMAIN made |-> [do |-> "relation", rel |-> m.relations[made[n]]]]

Statements(m) ==
  LET list == AllTables(m.tables)
      Of(step, rows) == [n \in DOMAIN rows |-> [step |-> step, statement |-> rows[n]]]
  IN  Of("enum", Make("SVCENUM") \o EnumRows(m)) \o Of("ent", Make("SVCENT") \o EntRows(list))
      \o Of("attr", Make("SVCATTR") \o AttrRows(m, list)) \o Of("ref", Make("SVCREF") \o RefRows(m))
      \o Of("tables", TableRows(m, list)) \o Of("relations", RelationTables(m))
      \o Of("units", UnitRows(m, list))
      \o Of("env", EnvRow(m, GetTableByBaseId(m.tables, "AoEnvironment")))

IdNames(t) == {t.columns[n].name : n \in Columns(t, "id")}

(* A statement that the database, or the code before it, refuses.          *)
Fails(db, m, s) ==
  CASE s.do = "make" -> FALSE
    [] s.do = "enum" -> \E row \in db.svc.enums : row[1] = s.row[1] /\ row[2] = s.row[2]
    [] s.do = "ent" -> \/ s.id \in DOMAIN db.svc.ents
                       \/ \E i \in DOMAIN db.svc.ents : db.svc.ents[i].name = m.tables[s.id].name
    [] s.do = "attr" -> \E n \in DOMAIN db.svc.attrs :
                          /\ db.svc.attrs[n].id = s.id
                          /\ db.svc.attrs[n].column.name = s.column.name
    [] s.do = "ref" -> s.row.db = "" \/ \E r \in db.svc.refs : r.name = s.name
    [] s.do = "table" -> /\ db.kind = "postgres"
                         /\ \E r \in Links(m, m.tables[s.id]) :
                              r[2] \notin DOMAIN db.tables \cup {m.tables[s.id].db}
    [] s.do = "relation" -> LET ids1 == IdNames(m.tables[s.rel.table1])
                                ids2 == IdNames(m.tables[s.rel.table2])
                            IN  ids1 = {} \/ ids2 = {} \/ ids1 = ids2
    [] s.do = "insert" -> Refused(db, s.table, s.row, TRUE)
    [] s.do = "unit" -> FALSE
    [] s.do = "refuse" -> TRUE

MutSetUnit(db, s) ==
  LET rows == db.tables[s.table].rows
      id == Max({i \in DOMAIN rows : rows[i].text = Quoted(db, s.unit)})
  IN  [db EXCEPT !.svc.attrs = [n \in DOMAIN @ |->
         IF @[n].id = s.at[1] /\ @[n].column.nr = s.at[2] + 1 THEN [@[n] EXCEPT !.unit = id] ELSE @[n]]]

SetUnit(db, s) ==
  LET rows == db.tables[s.table].rows
      id == Max({i \in DOMAIN rows : rows[i].text = Quoted(db, s.unit)})
  IN  [db EXCEPT !.svc.attrs = [n \in DOMAIN @ |->
         IF @[n].id = s.at[1] /\ @[n].column.nr = s.at[2] THEN [@[n] EXCEPT !.unit = id] ELSE @[n]]]

Done(db, m, s) ==
  CASE s.do = "make" -> [db EXCEPT !.svc.made = @ \cup {s.table}]
    [] s.do = "enum" -> [db EXCEPT !.svc.enums = @ \cup {s.row}]
    [] s.do = "ent" ->
         [db EXCEPT !.svc.ents = [i \in DOMAIN @ \cup {s.id} |->
            IF i = s.id THEN [m.tables[i] EXCEPT !.columns = << >>] ELSE @[i]]]
    [] s.do = "attr" -> [db EXCEPT !.svc.attrs = Append(@, [id |-> s.id, unit |-> 0, column |-> s.column])]
    [] s.do = "ref" -> [db EXCEPT !.svc.refs = @ \cup {[name |-> s.name, row |-> s.row]}]
    [] s.do = "table" ->
         LET t == m.tables[s.id]
         IN  [db EXCEPT !.tables = [n \in DOMAIN @ \cup {t.db} |->
                IF n \in DOMAIN @ THEN @[n] ELSE NewTable(m, t)]]
    [] s.do = "relation" -> [db EXCEPT !.relations = @ \cup {s.rel.db}]
    [] s.do = "insert" -> Insert(db, s.table, s.row)
    [] OTHER -> SetUnit(db, s)

(* One statement; the one at place "broken" throws as well.                *)
Execute(m, broken, r, s, n) ==
  IF s.step \in r.failed /\ s.step # "relations" THEN r
  ELSE IF n = broken \/ Fails(r.db, m, s.statement) THEN [r EXCEPT !.failed = @ \cup {s.step}]
  ELSE [r EXCEPT !.db = Done(r.db, m, s.statement)]

AllSteps(db, m, statements, broken) ==
  LET after[n \in 0..Len(statements)] ==
        IF n = 0 THEN [db |-> db, failed |-> {}]
        ELSE Execute(m, broken, after[n - 1], statements[n], n)
  IN  after[Len(statements)]

OpenEx(db) == [db EXCEPT !.exists = TRUE]

(* PostgreSQL: ExecuteSql throws, and the server undoes the transaction    *)
(* and refuses the rest of it.  Without a BEGIN there is none (alone).     *)
BrokenOff(db, fails, alone) == db.kind = "postgres" /\ fails /\ ~alone

Closed(db, all) ==
  [db |-> IF BrokenOff(db, all.failed # {}, FALSE) THEN db ELSE all.db, ok |-> all.failed = {}]

Created(db, m, broken) == Closed(db, AllSteps(OpenEx(db), m, Statements(m), broken))

------------------------------------------------------------------------------
(* ReadModel of a database.  Both databases read the service tables alike; *)
(* a column has the number of its row, which a model file does not keep.   *)
EnumItems(svc, e) == {row[2] : row \in {r \in svc.enums : r[3] = e}}

ReadSvcEnumTable(svc) == [e \in {row[3] : row \in svc.enums} |-> EnumItems(svc, e)]

ReadSvcEntTable(svc) == svc.ents

AttrsOf(svc, i) ==
  FlattenSeq([n \in DOMAIN svc.attrs |-> IF svc.attrs[n].id = i THEN <<svc.attrs[n]>> ELSE << >>])

(* The last of the columns that name a parent counts.                      *)
ParentOf(attrs) ==
  LET p == {n \in DOMAIN attrs : attrs[n].column.base = "parent"}
  IN  IF p = {} THEN 0 ELSE attrs[Max(p)].column.ref

(* FixUnitStrings: FUNIT leads to the name of the unit.                    *)
FixUnitString(db, name, attr) ==
  IF name \in DOMAIN db.tables /\ attr.unit \in DOMAIN db.tables[name].rows
  THEN [attr.column EXCEPT !.unit = db.tables[name].rows[attr.unit].text]
  ELSE attr.column

DbName(T, i) == IF i = 0 THEN "" ELSE T[i].db

UnitTable(T) == DbName(T, GetTableByBaseId(T, "AoUnit"))
EnvironmentTable(T) == DbName(T, GetTableByBaseId(T, "AoEnvironment"))

WithColumns(db, ent, attrs, units) ==
  [ent EXCEPT !.at = ParentOf(attrs), !.parent = ParentOf(attrs),
              !.columns = [n \in DOMAIN attrs |-> FixUnitString(db, units, attrs[n])]]

Nested(flat) == [i \in Placed([j \in DOMAIN flat |-> flat[j].parent]) |-> flat[i]]

ReadSvcAttrTable(db) ==
  LET ents == ReadSvcEntTable(db.svc)
  IN  Nested([i \in DOMAIN ents |-> WithColumns(db, ents[i], AttrsOf(db.svc, i), UnitTable(ents))])

(* SVCREF is looked for in vain: the condition that SQLite gets is a text, *)
(* and PostgreSQL keeps the name of a table in small letters.              *)
Folded == [SVCENUM |-> "svcenum", SVCENT |-> "svcent", SVCATTR |-> "svcattr", SVCREF |-> "svcref"]

SqliteFinds(table) == FALSE
PostgresFinds(db, table) == table \in {Folded[name] : name \in db.svc.made}

RelationRows(svc) ==
  LET Row(r) == CHOOSE x \in svc.refs : x.name = r
  IN  [r \in {x.name : x \in svc.refs} |-> Row(r).row]

ReadSvcRefTable(db) ==
  LET found == IF db.kind = "sqlite" THEN SqliteFinds("SVCREF") ELSE PostgresFinds(db, "SVCREF")
  IN  IF found THEN RelationRows(db.svc) ELSE << >>

(* The title is the name in the last row of the environment table; for     *)
(* SQLite the name of the file if there is no row.                         *)
LastText(rows, default) == IF DOMAIN rows = {} THEN default ELSE rows[Max(DOMAIN rows)].text

EnvironmentName(db, name, default) ==
  LastText(IF name \notin DOMAIN db.tables THEN << >> ELSE db.tables[name].rows, default)

FetchModelEnvironment(db, T) ==
  EnvironmentName(db, EnvironmentTable(T), IF db.kind = "sqlite" THEN Plain("file") ELSE NoText)

ModelOf(db, T) ==
  [title |-> FetchModelEnvironment(db, T), tables |-> T, enums |-> ReadSvcEnumTable(db.svc),
   relations |-> ReadSvcRefTable(db)]

ReadDatabaseModel(db) == ModelOf(db, ReadSvcAttrTable(db))

(* A table that is missing makes a step of ReadModel fail on SQLite.  On   *)
(* PostgreSQL it spoils the transaction, and the search for SVCREF throws. *)
HasTables(db, T) == {EnvironmentTable(T), UnitTable(T)} \subseteq DOMAIN db.tables \cup {""}

Readable(db) ==
  /\ db.exists
  /\ {"SVCENUM", "SVCENT", "SVCATTR"} \subseteq db.svc.made
  /\ db.kind = "sqlite" => HasTables(db, ReadSvcAttrTable(db))

ReadFileModel(file) ==
  LET m == ReadModel(EmptyModel, file)
      Zeroed(t) == [n \in DOMAIN t.columns |-> [t.columns[n] EXCEPT !.nr = 0]]
      Unnumbered(t) == [t EXCEPT !.columns = Zeroed(t)]
  IN  [m EXCEPT !.tables = [i \in DOMAIN @ |-> Unnumbered(@[i])]]

------------------------------------------------------------------------------
(* What the databases are: a table has handed out the ids of its rows, and *)
(* the service tables of a database that is dumped list its tables.  The   *)
(* tables of a model have positive ids and hang under one another.         *)
IsTable(t) ==
  /\ DOMAIN t = {"rows", "last", "refs", "unique"}
  /\ t.last \in Nat /\ DOMAIN t.rows \subseteq 1..t.last

IsDatabase(db) ==
  /\ DOMAIN db = {"kind", "exists", "svc", "tables", "relations"}
  /\ \A name \in DOMAIN db.tables : IsTable(db.tables[name])

IsService(svc) ==
  /\ DOMAIN svc.ents \subseteq Nat \ {0} /\ svc.attrs \in Seq(ToSet(svc.attrs))
  /\ IsFiniteSet(DOMAIN svc.ents) /\ IsFiniteSet(svc.enums) /\ IsFiniteSet(svc.refs)
  /\ \A i \in DOMAIN svc.ents : {"at", "parent", "db", "columns"} \subseteq DOMAIN svc.ents[i]
  /\ \A i \in DOMAIN svc.ents : \A n \in DOMAIN AttrsOf(svc, i) :
       {"ref", "stored", "unit"} \subseteq DOMAIN AttrsOf(svc, i)[n].column

ListsItsTables(db) ==
  LET T == ReadSvcAttrTable(db)
  IN  DOMAIN db.tables = {T[i].db : i \in ToSet(AllTables(T))} \ {""}

IsModel(m) ==
  /\ AreTables(m.tables)
  /\ IsFiniteSet(DOMAIN m.enums) /\ IsFiniteSet(DOMAIN m.relations)
  /\ \A e \in DOMAIN m.enums : IsFiniteSet(m.enums[e])

ASSUME DumpAssumption ==
  /\ \A db \in Sources \cup Targets : IsDatabase(db)
  /\ \A db \in Sources : IsService(db.svc) /\ ListsItsTables(db)
  /\ \A m \in Models : IsModel(m)
  /\ Stems \in Seq(STRING)
  /\ {MaxFaults, MaxChanges, MaxDumps, MaxReads} \subseteq Nat

------------------------------------------------------------------------------
Init ==
  /\ source \in Sources
  /\ target \in Targets
  /\ dirs = << >>
  /\ reported = {}
  /\ stable = << >> /\ lost = {}
  /\ dumping = Idle
  /\ reading = Idle
  /\ faults = 0 /\ changes = 0 /\ reads = 0

(* Other programs.                                                         *)
Inserted(db, w) == IF Refused(db, w[1], w[2], TRUE) THEN {} ELSE {Insert(db, w[1], w[2])}

Pointed(db, name, id) ==
  \E t \in DOMAIN db.tables : \E r \in db.tables[t].refs : \E i \in DOMAIN db.tables[t].rows :
    r[2] = name /\ db.tables[t].rows[i].refs[r[1]] = id

Deleted(db, name, id) ==
  [db EXCEPT !.tables[name].rows = [i \in DOMAIN @ \ {id} |-> @[i]]]

Change == changes < MaxChanges /\ changes' = changes + 1

WriteSource ==
  /\ Change
  /\ \/ \E w \in Writes : source' \in Inserted(source, w) /\ UNCHANGED stable
     \/ \E name \in DOMAIN source.tables : \E id \in DOMAIN source.tables[name].rows :
          /\ ~Pointed(source, name, id)
          /\ source' = Deleted(source, name, id)
          /\ stable' = IF name \in DOMAIN stable THEN [stable EXCEPT ![name] = @ \ {id}] ELSE stable
  /\ UNCHANGED <<onRead, dirs, reported, lost, dumping, faults>>

WriteTarget ==
  /\ Change
  /\ \E w \in Writes : target' \in Inserted(target, w)
  /\ reading' = IF reading.at = "idle" THEN reading ELSE [reading EXCEPT !.clean = FALSE]
  /\ UNCHANGED <<onDump, reads, faults>>

------------------------------------------------------------------------------
(* DumpDatabase.                                                           *)
Newest == Len(dirs)

CreateDumpDir ==
  /\ dumping = Idle /\ Newest < MaxDumps
  /\ dirs' = Append(dirs, NoDir)
  /\ dumping' = [at |-> "model"]
  /\ stable' = [name \in DOMAIN source.tables |-> DOMAIN source.tables[name].rows]
  /\ lost' = {}
  /\ UNCHANGED <<onRead, source, reported, faults, changes>>

SaveModelFile(m) == dirs' = [dirs EXCEPT ![Newest].model = SaveModel(m)]

(* A SELECT that PostgreSQL refuses finds no row, nor does one after it.   *)
(* Of units and environment the model then lacks the later or both; before *)
(* the search for SVCREF, which throws, nothing else may be refused.       *)
PartModels(db) ==
  LET T == ReadSvcAttrTable(db)
      Without(names) == [db EXCEPT !.tables = [name \in DOMAIN @ |->
                           IF name \in names THEN [@[name] EXCEPT !.rows = << >>] ELSE @[name]]]
  IN  IF db.kind = "sqlite" THEN {}
      ELSE {ReadDatabaseModel(Without(names)) : names \in {{EnvironmentTable(T)}, DOMAIN db.tables}}

(* The places in the list of AllTables of what has a table in the database.*)
InDatabase(T) == {n \in DOMAIN AllTables(T) : T[AllTables(T)[n]].db # ""}

DumpModel ==
  /\ dumping.at = "model"
  /\ LET Go(m) ==
           /\ SaveModelFile(m)
           /\ dumping' = [at |-> "tables", model |-> m, ok |-> TRUE,
                          left |-> InDatabase(m.tables)]
     IN  \/ NoFault /\ Go(ReadDatabaseModel(source))
         \/ Fault("statement") /\ \E m \in PartModels(source) : Go(m)
         \/ /\ Fault("open") \/ Fault("file") \/ Fault("statement")
            /\ dumping' = Idle /\ UNCHANGED dirs
  /\ UNCHANGED <<onRead, source, reported, stable, lost, changes>>

(* The rows of a table in the order of their ids, as the file keeps them. *)
DbtRows(rows) ==
  LET Id(n) == CHOOSE id \in DOMAIN rows : Cardinality({i \in DOMAIN rows : i < id}) = n - 1
  IN  [n \in 1..Cardinality(DOMAIN rows) |-> [id |-> Id(n), row |-> rows[Id(n)]]]

NextTable ==
  LET T == dumping.model.tables
  IN  T[AllTables(T)[Min(dumping.left)]].db

MutDumpTable ==
  /\ dumping.at = "tables" /\ dumping.left # {}
  /\ LET name == NextTable
         list == DbtRows(source.tables[name].rows)
         Put(d) == [d EXCEPT ![Newest].dbt = [n \in DOMAIN @ \cup {name} |-> IF n = name THEN list ELSE @[n]]]
         Go(ok) == dumping' = [dumping EXCEPT !.left = @ \ {Min(@)}, !.ok = @ /\ ok]
     IN  \/ NoFault /\ Go(TRUE) /\ dirs' = IF list = << >> THEN dirs ELSE Put(dirs)
         \/ Fault("open") /\ Go(TRUE) /\ UNCHANGED dirs
  /\ UNCHANGED <<onRead, source, reported, stable, lost, changes>>

Count(db, name) == Cardinality(DOMAIN db.tables[name].rows)

(* The number of rows that FetchItems answers: PostgresDb counts none.     *)
FetchItems(db, rows) == IF db.kind = "postgres" THEN 0 ELSE Len(rows)

(* DumpRow: a write that fails leaves a part of a line, and the stream     *)
(* takes no more.  What is read of the line are its complete values: none, *)
(* or those up to its id or up to its name (a cut behind them is at the    *)
(* name).                                                                  *)
Cut(row, text) ==
  [row EXCEPT !.text = text, !.data = "none", !.refs = [c \in DOMAIN row.refs |-> 0]]

TornLines(r) ==
  {<< >>} \cup {<<[id |-> r.id, row |-> Cut(r.row, text)]>> : text \in {NoText, r.row.text}}

LostRows(name, list, n) == {<<name, list[k].id>> : k \in n + 1 .. Len(list)}

(* No file for an empty table.  Nobody asks the stream whether the rows    *)
(* were written.  A statement that throws ends the dump with a part of the *)
(* file; a SELECT that PostgreSQL refuses only the table.                  *)
DumpTable ==
  /\ dumping.at = "tables" /\ dumping.left # {}
  /\ LET name == NextTable
         list == DbtRows(source.tables[name].rows)
         empty == Count(source, name) = 0
         Put(d, file) == [d EXCEPT ![Newest].dbt =
                            [f \in DOMAIN @ \cup {name} |-> IF f = name THEN file ELSE @[f]]]
         Go(ok) == dumping' = [dumping EXCEPT !.left = @ \ {Min(@)}, !.ok = @ /\ ok]
         End == Go(empty \/ FetchItems(source, list) > 0)
     IN  \/ /\ NoFault /\ End
            /\ dirs' = IF empty THEN dirs ELSE Put(dirs, SubSeq(list, 1, Len(list)))
            /\ UNCHANGED lost
         \/ /\ Fault("write") /\ End
            /\ \E n \in 0..Len(list) - 1 :
                 /\ \E torn \in TornLines(list[n + 1]) : dirs' = Put(dirs, SubSeq(list, 1, n) \o torn)
                 /\ lost' = lost \cup LostRows(name, list, n)
         \/ (Fault("open") \/ (~empty /\ Fault("file"))) /\ Go(FALSE) /\ UNCHANGED <<dirs, lost>>
         \/ Fault("statement") /\ dumping' = Idle /\ UNCHANGED <<dirs, lost>>
         \/ /\ Fault("statement") /\ UNCHANGED lost
            /\ IF source.kind = "postgres" THEN Go(FALSE) ELSE dumping' = Idle
            /\ \E n \in 0..Len(list) - 1 : dirs' = Put(dirs, SubSeq(list, 1, n))
  /\ UNCHANGED <<onRead, source, reported, stable, changes>>

EndDump ==
  /\ dumping.at = "tables" /\ dumping.left = {}
  /\ dumping' = Idle
  /\ reported' = IF dumping.ok THEN reported \cup {Newest} ELSE reported
  /\ UNCHANGED <<onRead, source, dirs, stable, lost, faults, changes>>

------------------------------------------------------------------------------
(* ReadInDump.  "clean": no fault and no other program since its begin.    *)
Step(at) == reading' = [reading EXCEPT !.at = at]

Answer(a) ==
  reading' = [at |-> "idle", answer |-> a, dir |-> reading.dir, model |-> reading.model,
              clean |-> reading.clean]

AnswerAfter(f, a) ==
  Fault(f) /\ reading' = [Idle EXCEPT !.answer = a]

Begin(d, m) ==
  reading' = [at |-> "model", dir |-> d, model |-> m, ok |-> TRUE, clean |-> TRUE,
              left |-> {n \in DOMAIN Stems : Stems[n] \in DOMAIN dirs[d].dbt}]

(* The directory may be one that a failed dump has left.                   *)
ReadInDumpFiles ==
  /\ reading.at = "idle" /\ reads < MaxReads
  /\ reads' = reads + 1
  /\ \E d \in 1..Newest :
       LET m == ReadFileModel(dirs[d].model)
       IN  /\ dumping = Idle \/ d # Newest
           /\ DOMAIN m.tables # {} /\ dirs[d].dbt # << >>
           /\ Begin(d, m)
  /\ UNCHANGED <<onDump, target, faults, changes>>

MutReadTargetModel ==
  /\ reading.at = "model"
  /\ NoFault
  /\ LET m == ReadDatabaseModel(target)
     IN  Step(IF ~Readable(target) \/ DOMAIN m.tables = {} THEN "create" ELSE "data")
  /\ UNCHANGED <<onDump, target, reads, changes>>

(* Open of PostgresDb answers false and keeps its connection.              *)
BeginFails == target.kind = "postgres" /\ Fault("begin")

(* A model that cannot be read, for whatever reason, has the database      *)
(* created; another model than that of the dump is refused.  Without a     *)
(* transaction a missing table spoils nothing and is an empty one.         *)
Compare(m) ==
  IF DOMAIN m.tables = {} THEN Step("create")
  ELSE IF Same(m, reading.model) THEN Step("check")
  ELSE Answer("false")

ReadTargetModel ==
  /\ reading.at = "model"
  /\ \/ /\ NoFault
        /\ IF Readable(target) THEN Compare(ReadDatabaseModel(target))
           ELSE IF target.kind = "postgres" THEN Answer("throws")
           ELSE Step("create")
     \/ BeginFails /\ Compare(ReadDatabaseModel(target))
     \/ /\ \/ Fault("open")
           \/ target.kind = "sqlite" /\ Fault("statement")
        /\ reading' = [reading EXCEPT !.at = "create", !.clean = FALSE]
     \/ AnswerAfter("statement", "throws")
     \/ Fault("statement") /\ \E m \in PartModels(target) : Compare(m)
  /\ UNCHANGED <<onDump, target, reads, changes>>

(* A COMMIT that fails is logged by SqliteDatabase::Close, no more.         *)
Create ==
  /\ reading.at = "create"
  /\ LET Go(r, clean) ==
           reading' = IF r.ok
                      THEN [reading EXCEPT !.at = "check", !.clean = @ /\ clean]
                      ELSE [Idle EXCEPT !.answer = "false"]
     IN  \/ AnswerAfter("open", "false") /\ UNCHANGED target
         \/ \E whole \in {Created(target, reading.model, 0)} :
              \/ NoFault /\ Go(whole, TRUE) /\ target' = whole.db
              \/ /\ Fault("commit")
                 /\ Go([whole EXCEPT !.ok = @ /\ target.kind = "sqlite"], FALSE)
                 /\ target' = [target EXCEPT !.exists = TRUE]
         \/ /\ Fault("statement")
            /\ \E broken \in DOMAIN Statements(reading.model) :
                 \E r \in {Created(target, reading.model, broken)} : Go(r, FALSE) /\ target' = r.db
  /\ UNCHANGED <<onDump, reads, changes>>

(* Count throws for a table that is not there.                             *)
Counted(m) ==
  {m.tables[i].db : i \in {j \in ToSet(AllTables(m.tables)) : m.tables[j].base # "AoEnvironment"}} \ {""}

IsEmpty(m) == \A name \in Counted(m) : Count(target, name) = 0

CheckEmpty ==
  /\ reading.at = "check"
  /\ \/ /\ NoFault
        /\ IF ~(Counted(reading.model) \subseteq DOMAIN target.tables) THEN Answer("throws")
           ELSE IF IsEmpty(reading.model) THEN Step("data")
           ELSE Answer("false")
     \/ AnswerAfter("open", "throws")
     \/ AnswerAfter("statement", "throws")
  /\ UNCHANGED <<onDump, target, reads, changes>>

(* The hexadecimal digits of a BLOB are read as Base64.                    *)
FetchDbtRow(row) == [row EXCEPT !.data = IF @ = "bytes" THEN "garbled" ELSE @]

MutChecked(kind) == TRUE

(* EnableConstraints(false) comes before the guard opens the database.     *)
Checked(kind) == kind = "postgres"

MutInserts(db, name, rows, broken, alone) ==
  LET ids == {r.id : r \in ToSet(rows)}
      Row(id) == (CHOOSE r \in ToSet(rows) : r.id = id).row
  IN  [db |-> [db EXCEPT !.tables[name].rows =
                [i \in DOMAIN @ \cup ids |-> IF i \in ids THEN Stored(db, Row(i)) ELSE @[i]]],
       fails |-> 0]

(* The rows one after the other, the one at place "broken" refused; after *)
(* a failure PostgreSQL refuses all rows, unless BEGIN had failed.         *)
InsertRow(name, broken, alone, r, row, n) ==
  IF \/ n = broken \/ Refused(r.db, name, row, Checked(r.db.kind))
     \/ BrokenOff(r.db, r.fails > 0, alone)
  THEN [r EXCEPT !.fails = @ + 1]
  ELSE [r EXCEPT !.db = Insert(r.db, name, row)]

Inserts(db, name, rows, broken, alone) ==
  LET after[n \in 0..Len(rows)] ==
        IF n = 0 THEN [db |-> db, fails |-> 0]
        ELSE InsertRow(name, broken, alone, after[n - 1], FetchDbtRow(rows[n].row), n)
      all == after[Len(rows)]
  IN  IF BrokenOff(db, all.fails > 0, alone) THEN [all EXCEPT !.db = db] ELSE all

Failed(fails, rows) == fails > 0 /\ fails >= rows

ReadInTable ==
  /\ reading.at = "data" /\ reading.left # {}
  /\ LET stem == Stems[Min(reading.left)]
         T    == reading.model.tables
         i    == IF GetTableByDbName(T, stem) # 0 THEN GetTableByDbName(T, stem) ELSE GetTableByName(T, stem)
         rows == dirs[reading.dir].dbt[stem]
         Rest(ok, clean) ==
           reading' = [reading EXCEPT !.left = @ \ {Min(@)}, !.ok = @ /\ ok, !.clean = @ /\ clean]
         Put(broken, alone, n) == Inserts(target, T[i].db, SubSeq(rows, 1, n), broken, alone)
         Keep(r, clean) == Rest(~Failed(r.fails, Len(rows)), clean) /\ target' = r.db
     IN  IF i = 0 THEN NoFault /\ Rest(FALSE, TRUE) /\ UNCHANGED target
         ELSE \/ NoFault /\ Keep(Put(0, FALSE, Len(rows)), TRUE)
              \/ (Fault("open") \/ Fault("file")) /\ Rest(FALSE, FALSE) /\ UNCHANGED target
              \/ /\ Fault("commit")
                 /\ Rest(~Failed(Put(0, FALSE, Len(rows)).fails, Len(rows)), FALSE)
                 /\ UNCHANGED target
              \/ Fault("statement") /\ \E n \in DOMAIN rows : Keep(Put(n, FALSE, Len(rows)), FALSE)
              \/ /\ BeginFails
                 /\ \/ Keep(Put(0, TRUE, Len(rows)), FALSE)
                    \/ \E n \in DOMAIN rows : /\ target' = Put(0, TRUE, n).db
                                              /\ reading' = Idle
  /\ UNCHANGED <<onDump, reads, changes>>

EndRead ==
  /\ reading.at = "data" /\ reading.left = {}
  /\ Answer(IF reading.ok THEN "true" ELSE "false")
  /\ UNCHANGED <<onDump, target, reads, faults, changes>>

(* IEnvironment::CreateDb.                                                 *)
CreateDb ==
  /\ reading.at = "idle" /\ reads < MaxReads
  /\ reads' = reads + 1
  /\ \E m \in Models :
       target' = Created(target, ReadFileModel(SaveModel(m)), 0).db
  /\ reading' = Idle
  /\ UNCHANGED <<onDump, faults, changes>>

Crash ==
  /\ Fault("crash")
  /\ dumping # Idle \/ reading.at # "idle"
  /\ dumping' = Idle
  /\ reading' = Idle
  /\ UNCHANGED <<source, target, dirs, reported, stable, lost, changes, reads>>

Next ==
  \/ WriteSource \/ WriteTarget
  \/ CreateDumpDir \/ DumpModel \/ DumpTable \/ EndDump
  \/ ReadInDumpFiles \/ ReadTargetModel \/ Create \/ CheckEmpty \/ ReadInTable \/ EndRead
  \/ CreateDb \/ Crash

Spec == Init /\ [][Next]_vars
------------------------------------------------------------------------------
(* A row has an id that its table has handed out; only one thread of the   *)
(* program dumps, and one reads in.                                        *)
TypeOK ==
  /\ \A db \in {source, target} : \A name \in DOMAIN db.tables :
       LET t == db.tables[name]
       IN  DOMAIN t.rows \subseteq 1..t.last
  /\ reported \subseteq DOMAIN dirs
  /\ dumping.at \in {"idle", "model", "tables"}
  /\ reading.at \in {"idle", "model", "create", "check", "data"}
  /\ faults \in 0..MaxFaults /\ changes \in 0..MaxChanges
  /\ reads \in 0..MaxReads /\ Len(dirs) <= MaxDumps

DbtOf(d, name) == IF name \in DOMAIN dirs[d].dbt THEN ToSet(dirs[d].dbt[name]) ELSE {}

(* A dump that is reported has every row that was there from its begin to *)
(* its end, although its tables are read in scopes of their own and may    *)
(* fail, but for the rows that a failed write has lost: DumpTable does not *)
(* notice that one, and such a dump is reported like any other.            *)
ReportedIsComplete ==
  [][\A d \in reported' \ reported : \A name \in DOMAIN stable : \A i \in stable[name] :
       <<name, i>> \in lost \/ \E r \in DbtOf(d, name) : r.id = i]_vars

(* A row of the database that a dump is read into never changes and never *)
(* goes, whatever fails: Create and ReadInTable only add rows.             *)
KeepsRows ==
  [][\A name \in DOMAIN target.tables :
       /\ name \in DOMAIN target'.tables
       /\ \A i \in DOMAIN target.tables[name].rows :
            /\ i \in DOMAIN target'.tables[name].rows
            /\ target'.tables[name].rows[i] = target.tables[name].rows[i]]_vars

(* ReadModel finds in the service tables what Create was given: the same   *)
(* tables and columns, and with each column its unit by the letters,       *)
(* although the units are linked after the columns are stored.             *)
CreatedIsRead ==
  [][reading.at = "create" /\ reading'.at = "check" /\ reading'.clean =>
       LET T == ReadDatabaseModel(target').tables
           U == reading.model.tables
           Shown(t) == [n \in DOMAIN t.columns |->
                          [t.columns[n] EXCEPT !.nr = 0, !.unit = @.text]]
       IN  /\ DOMAIN T = DOMAIN U
           /\ \A i \in DOMAIN U : /\ T[i].db = U[i].db /\ T[i].parent = U[i].parent
                                  /\ Shown(T[i]) = Shown(U[i])]_vars

(* A table of the data: neither the environment nor the units, into which *)
(* Create inserts as well.                                                 *)
IsData(name) ==
  \E m \in Models : \E t \in Range(m.tables) : t.db = name /\ t.base \notin {"AoEnvironment", "AoUnit"}

FromDump(name, r) ==
  {i \in DOMAIN target.tables[name].rows :
     target.tables[name].rows[i].text.text = r.row.text.text}

(* A second attempt after a failure or the end of the process does not     *)
(* store a row of the data again.                                          *)
StoredOnce ==
  \A d \in DOMAIN dirs : \A name \in DOMAIN dirs[d].dbt \cap DOMAIN target.tables :
    IsData(name) =>
      \A r \in ToSet(dirs[d].dbt[name]) : Cardinality(FromDump(name, r)) <= 1

(* A row that a dump holds without a gap before it: its id is its place.   *)
Dense(d, name) == \A n \in DOMAIN dirs[d].dbt[name] : dirs[d].dbt[name][n].id = n

Finished == reading.at = "idle" /\ reading.answer = "true"

(* A reference of a row that has been read in, without any fault, into a  *)
(* new SQLite database leads to the row it led to in the dump, although    *)
(* the tables come in alphabetical order, if the table referred to had no *)
(* gap in its ids (the environment aside, of which Create stores a row).  *)
ReferencesKept ==
  Finished /\ reading.clean /\ target.kind = "sqlite" =>
    LET dbt == dirs[reading.dir].dbt
        files == DOMAIN dbt \cap Counted(reading.model)
    IN  \A name \in files : \A r \in ToSet(dbt[name]) : \A link \in target.tables[name].refs :
          LET id == r.row.refs[link[1]]
          IN  link[2] \in files /\ Dense(reading.dir, link[2]) /\ id \in DOMAIN dbt[link[2]] =>
                \E i \in FromDump(name, r) :
                  /\ target.tables[name].rows[i].refs[link[1]] = id
                  /\ id \in DOMAIN target.tables[link[2]].rows
                  /\ \E p \in ToSet(dbt[link[2]]) :
                       p.id = id /\ id \in FromDump(link[2], p)
==============================================================================
