----------------------------- MODULE ModelEditor -----------------------------
(***************************************************************************)
(* A document of the ODS Configurator (odsconfigurator/src): the model    *)
(* that the panels edit, the model as it was last opened or saved, the    *)
(* file with its newest backup, and the clipboard of the application.     *)
(*                                                                         *)
(* Every handler runs on the GUI thread, so a handler is one step; its    *)
(* dialogs are modal and their answer is an input.  Of the base           *)
(* attributes that the table dialog adds at most one is kept, a parent    *)
(* column with its base name: the others refer to no table.  Of an item   *)
(* of an enumerate its key is kept.                                        *)
(***************************************************************************)
EXTENDS AtfxFile

CONSTANTS
  TableForms, ColumnForms, RelationForms,  \* what is filled in in a dialog
  EnumNames, ItemKeys, RelationNames,
  Flags,          \* the flags of a column: "unique", "index", "obligatory", ...
  Titles,         \* model names typed on the General page
  Opened,         \* the file of the document
  Imported,       \* a model imported from a database
  Clips,          \* what the clipboard may hold from another document
  MaxTables,      \* bound on the tables of a model: FindNextTableId has 999 ids
  MaxEdits,       \* bound on the edits of a behaviour
  MaxSteps        \* bound on its edits, copies, saves and opens

VARIABLES
  model, original,
  modified,       \* wxDocument: IsModified
  page,           \* the name on the General page
  selected,       \* selected_table_
  file, backup,   \* the file and its newest backup, NoFile if there is none
  copied,         \* copy_table_ of the application
  copiedEnum,     \* its copied enumerate
  edits, steps    \* the bounded counters

vars == <<model, original, modified, page, selected, file, backup, copied, copiedEnum, edits, steps>>
clipboard == <<copied, copiedEnum>>
document == <<model, original, modified, page, selected, file, backup>>

NoFile == [title |-> "none"]
NoTable == << >>

IsNumbered(t) ==
  /\ HasColumnList(t) /\ "name" \in DOMAIN t /\ t.parent \in Nat
  /\ \A n \in DOMAIN t.columns : "ref" \in DOMAIN t.columns[n] /\ t.columns[n].ref \in Nat

ASSUME EditorAssumption ==
  /\ Opened # NoFile
  /\ Opened.tables \in Seq(ToSet(Opened.tables)) /\ Len(Opened.tables) <= MaxTables
  /\ \A n \in DOMAIN Opened.tables :
       Opened.tables[n].id \in Int /\ IsNumbered(Opened.tables[n].table)
  /\ DOMAIN Imported = DOMAIN EmptyModel
  /\ AreTables(Imported.tables) /\ Cardinality(DOMAIN Imported.tables) <= MaxTables
  /\ \A i \in DOMAIN Imported.tables : IsNumbered(Imported.tables[i])
  /\ \A clip \in Clips :
       clip = NoTable \/ /\ IsNumbered(clip[1]) /\ AreTables(clip[2])
                         /\ \A i \in DOMAIN clip[2] : IsNumbered(clip[2][i])
  /\ \A f \in AtfxFiles : Len(f.elements) <= MaxTables
  /\ \A form \in ColumnForms : "ref" \in DOMAIN form
  /\ MaxTables \in 1..998 /\ {MaxEdits, MaxSteps} \subseteq Nat

NoEnum == [name |-> "", items |-> {}]

ParentColumn(base, p) ==
  [name |-> base, base |-> base, ref |-> p, enum |-> "", stored |-> TRUE, unit |-> "",
   flags |-> {}]

Load(f) ==
  LET m == ReadModel(EmptyModel, f)
  IN  model' = m /\ original' = m /\ page' = m.title

Init ==
  /\ model = ReadModel(EmptyModel, Opened)
  /\ original = model
  /\ modified = FALSE
  /\ page = model.title
  /\ selected = 0
  /\ file = Opened
  /\ backup = NoFile
  /\ copied \in Clips
  /\ copiedEnum = NoEnum
  /\ edits = 0
  /\ steps = 0

Tables == model.tables

Move == steps < MaxSteps /\ steps' = steps + 1 /\ UNCHANGED edits

Change(m) ==
  /\ edits' = edits + 1
  /\ steps' = steps + 1
  /\ model' = m
  /\ UNCHANGED <<original, modified, file, backup>>

Edit(m) == Change(m) /\ UNCHANGED page

(* A change after which the frame draws all its pages anew: what has been *)
(* typed on the General page since the last timer is gone.                 *)
EditAndUpdate(m) == Change(m) /\ page' = m.title

(* A model does not grow beyond the ids that there are for its tables.     *)
Room(n) == Cardinality(DOMAIN Tables) + n <= MaxTables

------------------------------------------------------------------------------
(* Tables.                                                                 *)
HasParentColumn(t) ==
  \E n \in DOMAIN t.columns : t.columns[n].base \in GetParentBaseName(t.base)

(* The table that the dialog leaves of t, and the check of its answer.  A *)
(* table is chosen in a dialog by its name; the dialog offers the base    *)
(* attributes that no column has yet.                                      *)
FromDialog(t, form) ==
  LET parent == IF form.parent = "" THEN 0 ELSE GetTableByName(Tables, form.parent)
      u == ParentId([t EXCEPT !.name = form.name, !.base = form.base,
                              !.db = form.db, !.desc = form.desc], parent)
      offered == GetParentBaseName(form.base) \ {c.base : c \in ToSet(t.columns)}
  IN  IF form.column \in offered
      THEN [u EXCEPT !.columns = Append(@, ParentColumn(form.column, parent))] ELSE u

Accepted(t) ==
  /\ t.parent = 0 => GetParentBaseName(t.base) = {} \/ t.base \in {"AoAny", "AoLog"}
  /\ t.parent # 0 => HasParentColumn(t)

DialogResults(t) == {u \in {FromDialog(t, form) : form \in TableForms} : Accepted(u)}

SelectTable(name) ==
  /\ selected' = GetTableByName(Tables, name)
  /\ UNCHANGED <<model, original, modified, page, file, backup, clipboard, edits, steps>>

(* The list marks the selected table anew, and after an add or a paste an *)
(* item of the given name that is not marked already; when there is none  *)
(* the code looks up the empty name.                                       *)
Marked(T, name) ==
  GetTableByName(T, IF \E i \in DOMAIN T \ {selected} : T[i].name = name THEN name ELSE "")

EmptyTable(parent) ==
  [at |-> 0, parent |-> parent, name |-> "", db |-> "", desc |-> "", columns |-> << >>,
   base |-> IF parent = 0 THEN "AoAny" ELSE Tables[parent].base]

OnAddTable ==
  /\ Room(1)
  /\ LET above == IF selected \in DOMAIN Tables THEN selected ELSE 0
         id    == FindNextTableId(Tables, above)
     IN  \E t \in DialogResults(EmptyTable(above)) :
           LET m == PutTable(model, id, t)
           IN  Edit(m) /\ selected' = Marked(m.tables, t.name) /\ UNCHANGED clipboard

(* A double click on the table leads to the same, but draws anew only the *)
(* page of the tables.                                                     *)
OnEditTable ==
  /\ selected \in DOMAIN Tables
  /\ \E t \in DialogResults(Tables[selected]) :
       LET m == [model EXCEPT !.tables[selected] = t] IN EditAndUpdate(m) \/ Edit(m)
  /\ UNCHANGED <<selected, clipboard>>

OnDeleteTable ==
  /\ selected \in DOMAIN Tables
  /\ EditAndUpdate(DeleteTable(model, selected))
  /\ UNCHANGED <<selected, clipboard>>

OnCopyTable ==
  /\ selected \in DOMAIN Tables
  /\ copied' = <<Tables[selected], Below(Tables, selected)>>
  /\ Move
  /\ UNCHANGED <<document, copiedEnum>>

(* A table whose name is taken is pasted under the name that the dialog   *)
(* gives, if that one is free, and not at all if it has sub tables.       *)
OnPasteTable ==
  /\ copied # NoTable
  /\ Room(1 + Cardinality(DOMAIN copied[2]))
  /\ LET above == IF selected \in DOMAIN Tables THEN selected ELSE 0
         id    == FindNextTableId(Tables, above)
         copy  == ParentId(copied[1], above)
         Added(t) == AddTable(model, id, t, copied[2])
         Done(m, name) == Edit(m) /\ selected' = Marked(m.tables, name)
     IN  IF GetTableByName(Tables, copied[1].name) = 0
         THEN Done(Added(copy), copy.name)
         ELSE /\ DOMAIN copied[2] = {}
              /\ \E t \in DialogResults(copy) :
                   Done(IF GetTableByName(Tables, t.name) = 0 THEN Added(t) ELSE model, t.name)
  /\ copied' = NoTable
  /\ UNCHANGED copiedEnum

------------------------------------------------------------------------------
(* Columns of the selected table.                                          *)
Columns == IF selected \in DOMAIN Tables THEN Tables[selected].columns ELSE << >>

(* The dialog offers to create an enumerate that the model does not have. *)
AfterColumnDialog(c) ==
  {model} \cup IF c.enum \in {""} \cup DOMAIN model.enums THEN {}
               ELSE {AddEnum(model, c.enum, items) : items \in SUBSET ItemKeys}

DialogColumns ==
  {[f EXCEPT !.ref = IF f.ref = "" THEN 0 ELSE GetTableByName(Tables, f.ref)] : f \in ColumnForms}

SetColumns(m, cols) == [m EXCEPT !.tables[selected].columns = cols]

EditColumns(m, cols) ==
  /\ selected \in DOMAIN Tables
  /\ Edit(SetColumns(m, cols))
  /\ UNCHANGED <<selected, clipboard>>

OnAddColumn ==
  \E c \in DialogColumns : \E m \in AfterColumnDialog(c) :
    EditColumns(m, Append(Columns, c))

(* A renamed column is added or replaces the old one, as the user says.   *)
OnEditColumn ==
  \E n \in DOMAIN Columns, c \in DialogColumns : \E m \in AfterColumnDialog(c) :
    LET k == WithName(Columns, Columns[n].name)
    IN  \/ EditColumns(m, [Columns EXCEPT ![k] = c])
        \/ /\ c.name # Columns[k].name
           /\ EditColumns(m, Append(Columns, c))
        \/ /\ c.name # Columns[k].name /\ m # model
           /\ EditColumns(m, Columns)

SelectedRows == (SUBSET DOMAIN Columns) \ {{}}

DeleteColumn(cols, name) ==
  LET k == WithName(cols, name) IN IF k = 0 THEN cols ELSE RemoveAt(cols, k)

OnDeleteColumn ==
  \E rows \in SelectedRows :
    LET left[n \in 0..Len(Columns)] ==
          IF n = 0 THEN Columns
          ELSE IF n \in rows THEN DeleteColumn(left[n - 1], Columns[n].name) ELSE left[n - 1]
    IN  EditColumns(model, left[Len(Columns)])

SetFlags(rows, on, off) ==
  LET named == {WithName(Columns, Columns[n].name) : n \in rows}
  IN  EditColumns(model, [n \in DOMAIN Columns |->
                            IF n \in named THEN [Columns[n] EXCEPT !.flags = (@ \cup on) \ off] ELSE Columns[n]])

(* OnUniqueFlag, OnIndexFlag, ... and OnNoUniqueFlag, OnNoIndexFlag, ...   *)
OnFlag ==
  \E rows \in SelectedRows, f \in Flags : SetFlags(rows, {f}, {})

OnNoFlag ==
  \E rows \in SelectedRows, f \in Flags : SetFlags(rows, {}, {f})

(* A column with one of the names changes place with the one at k.         *)
Swap(cols, names, n, k) ==
  IF k \in DOMAIN cols /\ cols[n].name \in names
  THEN [cols EXCEPT ![n] = cols[k], ![k] = cols[n]] ELSE cols

OnColumnUp ==
  \E rows \in SelectedRows :
    LET names == {Columns[n].name : n \in rows}
        up[n \in 0..Len(Columns)] == IF n = 0 THEN Columns ELSE Swap(up[n - 1], names, n, n - 1)
    IN  EditColumns(model, up[Len(Columns)])

OnColumnDown ==
  \E rows \in SelectedRows :
    LET names == {Columns[n].name : n \in rows}
        last == Len(Columns) + 1
        down[n \in 0..Len(Columns)] ==
          IF n = 0 THEN Columns ELSE Swap(down[n - 1], names, last - n, last - n + 1)
    IN  EditColumns(model, down[Len(Columns)])

------------------------------------------------------------------------------
(* Enumerates and relations.                                               *)
Enums == DOMAIN model.enums

EditOther(m) == Edit(m) /\ UNCHANGED <<selected, clipboard>>

OnAddEnum ==
  \E e \in EnumNames, items \in SUBSET ItemKeys : EditOther(AddEnum(model, e, items))

(* A renamed enumerate is added or takes the place of the old one.         *)
OnEditEnum ==
  \E e \in Enums, f \in EnumNames, items \in SUBSET ItemKeys :
    \/ EditOther(AddEnum(model, f, items))
    \/ e # f /\ EditOther(AddEnum(DeleteEnum(model, e), f, items))

OnDeleteEnum == \E e \in Enums : EditOther(DeleteEnum(model, e))

OnAddEnumItem ==
  \E e \in Enums, k \in ItemKeys : EditOther([model EXCEPT !.enums[e] = @ \cup {k}])

OnEditEnumItem ==
  \E e \in Enums : \E k \in model.enums[e], j \in ItemKeys :
    EditOther([model EXCEPT !.enums[e] = (@ \ {k}) \cup {j}])

OnDeleteEnumItem ==
  \E e \in Enums : \E K \in (SUBSET model.enums[e]) \ {{}} :
    EditOther([model EXCEPT !.enums[e] = @ \ K])

OnCopyEnum ==
  /\ \E e \in Enums : copiedEnum' = [name |-> e, items |-> model.enums[e]]
  /\ Move
  /\ UNCHANGED <<document, copied>>

OnPasteEnum ==
  /\ copiedEnum # NoEnum
  /\ Edit(AddEnum(model, copiedEnum.name, copiedEnum.items))
  /\ copiedEnum' = NoEnum
  /\ UNCHANGED <<selected, copied>>

(* The relation dialog refuses a database name that a table has.           *)
DialogRelations ==
  {[f EXCEPT !.table1 = GetTableByName(Tables, f.table1),
             !.table2 = GetTableByName(Tables, f.table2)] :
     f \in {g \in RelationForms : GetTableByDbName(Tables, g.db) = 0}}

OnAddRelation ==
  \E r \in RelationNames, rel \in DialogRelations : EditOther(AddRelation(model, r, rel))

OnEditRelation ==
  \E r \in DOMAIN model.relations, s \in RelationNames, rel \in DialogRelations :
    \/ EditOther(AddRelation(model, s, rel))
    \/ r # s /\ EditOther(AddRelation(DeleteRelation(model, r), s, rel))

OnDeleteRelation ==
  \E r \in DOMAIN model.relations : EditOther(DeleteRelation(model, r))

------------------------------------------------------------------------------
(* The document: its name page, the timer of the page, save and open.     *)
EditPage ==
  /\ \E t \in Titles : page' = t
  /\ Move
  /\ UNCHANGED <<model, original, modified, selected, file, backup, clipboard>>

MutTimer ==
  /\ model' = [model EXCEPT !.title = page]
  /\ modified' = (modified \/ page # model.title)
  /\ UNCHANGED <<original, page, selected, file, backup, clipboard, edits, steps>>

(* Every three seconds the page is written to the model, and the document *)
(* is marked modified if the model is not what was opened or saved.       *)
OnSaveTimer ==
  /\ model' = [model EXCEPT !.title = page]
  /\ modified' = ~Same(original, model')
  /\ UNCHANGED <<original, page, selected, file, backup, clipboard, edits, steps>>

MutSave(written) ==
  /\ backup' = file
  /\ file' = IF written THEN SaveModel(model) ELSE NoFile
  /\ original' = IF written THEN model ELSE original
  /\ modified' = IF written THEN FALSE ELSE modified
  /\ Move
  /\ UNCHANGED <<model, page, selected, clipboard>>

(* The file is moved to its backup before the new one is written.          *)
DoSaveDocument(written) ==
  /\ backup' = IF file = NoFile THEN backup ELSE file
  /\ file' = IF written THEN SaveModel(model) ELSE NoFile
  /\ original' = IF written THEN model ELSE original
  /\ modified' = IF written THEN FALSE ELSE modified
  /\ Move
  /\ UNCHANGED <<model, page, selected, clipboard>>

(* Save does nothing while the document is not marked modified, and its   *)
(* button is off while there is no file.                                  *)
SaveEnabled == file # NoFile

OnSave(written) == modified /\ SaveEnabled /\ DoSaveDocument(written)

OnSaveAs(written) == DoSaveDocument(written)

(* The document is closed, what it holds unsaved is dropped, and its file *)
(* is opened.                                                              *)
DoOpenDocument ==
  /\ file # NoFile
  /\ Load(file)
  /\ modified' = FALSE
  /\ selected' = 0
  /\ Move
  /\ UNCHANGED <<file, backup, clipboard>>

(* A document without a file.                                              *)
Import(m) ==
  /\ model' = m
  /\ original' = m
  /\ page' = m.title
  /\ modified' = FALSE
  /\ selected' = 0
  /\ file' = NoFile
  /\ backup' = NoFile
  /\ Move
  /\ UNCHANGED clipboard

OnImportAtfx(f) == Import(AtfxModels[f])

OnImportDatabase == Import(Imported)

EditStep ==
  /\ edits < MaxEdits /\ steps < MaxSteps
  /\ \/ OnAddTable \/ OnEditTable \/ OnDeleteTable \/ OnPasteTable
     \/ OnAddColumn \/ OnEditColumn \/ OnDeleteColumn
     \/ OnFlag \/ OnNoFlag \/ OnColumnUp \/ OnColumnDown
     \/ OnAddEnum \/ OnEditEnum \/ OnDeleteEnum \/ OnPasteEnum
     \/ OnAddEnumItem \/ OnEditEnumItem \/ OnDeleteEnumItem
     \/ OnAddRelation \/ OnEditRelation \/ OnDeleteRelation

Next ==
  \/ EditStep
  \/ \E i \in DOMAIN Tables : SelectTable(Tables[i].name)
  \/ OnCopyTable \/ OnCopyEnum
  \/ EditPage \/ OnSaveTimer
  \/ \E written \in BOOLEAN : OnSave(written) \/ OnSaveAs(written)
  \/ DoOpenDocument \/ OnImportDatabase
  \/ \E f \in AtfxFiles : OnImportAtfx(f)

(* The timer runs as long as the window is there.                          *)
Spec == Init /\ [][Next]_vars /\ WF_vars(OnSaveTimer)
------------------------------------------------------------------------------
(* The state has the shape of the code's variables: ids are positive, a   *)
(* table hangs under a table of the model.                                 *)
TypeOK ==
  /\ \A m \in {model, original} :
       \A i \in DOMAIN m.tables :
         /\ i \in Nat \ {0} /\ m.tables[i].at \in DOMAIN m.tables \cup {0}
         /\ \A n \in DOMAIN m.tables[i].columns : m.tables[i].columns[n].ref \in Nat
         /\ m.tables[i].parent \in Nat
  /\ modified \in BOOLEAN
  /\ selected \in Nat
  /\ edits \in 0..MaxEdits /\ steps \in edits..MaxSteps

(* AllTables lists every table of a stored tree once, and a table after   *)
(* the tables that it refers to, unless a circle of references keeps it   *)
(* waiting: imodel.h promises the order to the code that creates tables.  *)
DependenceOrder ==
  LET list == AllTables(Tables)
  IN  /\ ToSet(list) = Listed(Tables) /\ IsInjective(list)
      /\ \A n, k \in DOMAIN list :
           n < k /\ list[k] \in References(Tables[list[n]]) => HeldBack(Tables, list[n])

(* A model that is saved and read back has the same tables, enumerates    *)
(* and relations, and every table that refers to its parent is under it,  *)
(* unless the parent in turn waits for the table.  (Descriptions, tables  *)
(* without a stored root and the inverse base names are lost: imodel.cpp  *)
(* 514, 529-568, 700.)                                                     *)
RoundTrip ==
  LET back == ReadModel(EmptyModel, SaveModel(model))
      Content(t) == [t EXCEPT !.at = 0, !.desc = ""]
  IN  /\ DOMAIN back.tables = Listed(Tables)
      /\ \A i \in Listed(Tables) :
           /\ Content(back.tables[i]) = Content(Tables[i])
           /\ Tables[i].parent \in (Listed(Tables) \cap References(Tables[i])) \ {i}
             /\ ~HeldBack(Tables, i)
                => back.tables[i].at = Tables[i].parent
           /\ MissingEnums(back, Tables[i]) = {}
      /\ \A e \in Enums : e \in DOMAIN back.enums /\ back.enums[e] = model.enums[e]
      /\ DOMAIN back.relations = DOMAIN model.relations

(* What was last opened or saved is still on disk: in the file, or in its *)
(* backup when a later save failed after moving the file away.             *)
LastSaveOnDisk ==
  \/ \E f \in {file, backup} \ {NoFile} :
       f = SaveModel(original) \/ original = ReadModel(EmptyModel, f)
  \/ original = Imported \/ \E f \in AtfxFiles : original = AtfxModels[f]

(* A pasted table is a copy of the copied tree: every sub table has its   *)
(* copy under the copy of its parent, refers to that copy where it        *)
(* referred to its parent, and no other table changes.                     *)
PasteIsCopy ==
  [][copied # NoTable /\ copied' = NoTable =>
       LET T    == model'.tables
           S    == copied[2]
           news == DOMAIN T \ DOMAIN Tables
           Copies(i, j, above) ==
             /\ T[i].at = above /\ T[i].parent = above /\ T[i].name = S[j].name
             /\ \A n \in DOMAIN S[j].columns :
                  T[i].columns[n].ref = IF S[j].columns[n].ref \in {S[j].parent} \ {0}
                                        THEN above ELSE S[j].columns[n].ref
       IN  /\ \A i \in DOMAIN Tables : T[i] = Tables[i]
           /\ news = {} \/ \E top \in news : \E copy \in Bijection(DOMAIN S, news \ {top}) :
                \A j \in DOMAIN S :
                  Copies(copy[j], j, IF S[j].at = 0 THEN top ELSE copy[S[j].at])]_vars

(* The model of an imported file has the references, parents and units    *)
(* that the file says, in whatever order its elements are written (a       *)
(* parent that comes after its child is the exception: FixRelation turns  *)
(* the column only, and the table stays at the top level).                *)
ImportedAsWritten ==
  [][\A f \in AtfxFiles : OnImportAtfx(f) => RefersAsWritten(model', f)]_vars

(* An edit that operator== sees is marked within a turn of the timer, or  *)
(* is taken back or saved before.                                          *)
EditIsNoticed == ~Same(original, model) ~> (modified \/ Same(original, model))
==============================================================================
