----------------------------- MODULE ModelTables -----------------------------
(***************************************************************************)
(* The application model of an ODS database (include/ods/imodel.h): a     *)
(* tree of tables with their columns, the enumerates and the many-to-many *)
(* relations, and the operations of src/imodel.cpp and src/itable.cpp.    *)
(*                                                                         *)
(* A model is a record.  Its tables are a function from application ids;  *)
(* "at" is the table a table hangs under (0: the top level), which the    *)
(* nested maps of the code say by position, "parent" the field ParentId.  *)
(* An id is the key of one table only: AddTable gives a taken id another  *)
(* one and the dialogs lock the field.                                    *)
(***************************************************************************)
EXTENDS Integers, FiniteSets, Sequences, SequencesExt, FiniteSetsExt, Functions

EmptyModel == [title |-> "", tables |-> << >>, enums |-> << >>, relations |-> << >>]

(* The ids from the top level down to table i.                             *)
Path(T, i) == LET path[j \in DOMAIN T] ==
                    Append(IF T[j].at = 0 THEN << >> ELSE path[T[j].at], j)
              IN  path[i]

SubTables(T, i) == {j \in DOMAIN T : T[j].at = i}

(* Those of a list of tables that have their parent in it: a table whose  *)
(* parent never comes is lost.                                             *)
Placed(parents) ==
  LET Under(ids) == {i \in DOMAIN parents : parents[i] \in ids \cup {0}}
      placed[n \in 0..Cardinality(DOMAIN parents)] == IF n = 0 THEN {} ELSE Under(placed[n - 1])
  IN  Under(placed[Cardinality(DOMAIN parents)])

Subtree(T, i) == {j \in DOMAIN T : Contains(Path(T, j), i)}

(* A map is walked by ascending id, a table before its sub tables.         *)
Before(p, q) ==
  \/ Len(p) < Len(q) /\ IsPrefix(p, q)
  \/ \E n \in 1..Len(p) \cap 1..Len(q) :
       p[n] < q[n] /\ SubSeq(p, 1, n - 1) = SubSeq(q, 1, n - 1)

Walk(T, ids) ==
  LET paths == {Path(T, i) : i \in ids}
      Nth(n) == CHOOSE p \in paths : Cardinality({q \in paths : Before(q, p)}) = n - 1
  IN  [n \in 1..Cardinality(paths) |-> Last(Nth(n))]

(* The id of the first table with a name, 0 if there is none.              *)
FirstOf(T, ids) == IF ids = {} THEN 0 ELSE Head(Walk(T, ids))

GetTableByDbName(T, name) == FirstOf(T, {i \in DOMAIN T : T[i].db = name})

GetTableByName(T, name) ==
  LET named == {i \in DOMAIN T : T[i].name = name}
  IN  IF named # {} THEN FirstOf(T, named) ELSE GetTableByDbName(T, name)

(* A table of the top level comes first.                                   *)
GetTableByBaseId(T, base) ==
  LET ids == {i \in DOMAIN T : T[i].base = base}
      top == ids \cap SubTables(T, 0)
  IN  FirstOf(T, IF top # {} THEN top ELSE ids)

(* The place of the first column with a name, 0 if there is none.          *)
WithName(cols, name) ==
  LET named == {n \in DOMAIN cols : cols[n].name = name}
  IN  IF named = {} THEN 0 ELSE Min(named)

------------------------------------------------------------------------------
(* Ids: every tenth for a top level table, the first free one after its   *)
(* parent for a sub table, any one if these are taken, 0 if all are.       *)
Tenths == {10 * n : n \in 1..999}

LeastFree(T, ids) == CHOOSE i \in ids \ DOMAIN T : \A j \in ids \ DOMAIN T : i <= j

FindNextTableId(T, parent) ==
  LET near == parent..(parent + 99)
  IN  CASE parent <= 0 /\ SubTables(T, 0) = {} -> 1
        [] parent <= 0 /\ SubTables(T, 0) # {} /\ ~(Tenths \subseteq DOMAIN T) -> LeastFree(T, Tenths)
        [] OTHER -> IF ~(near \subseteq DOMAIN T) THEN LeastFree(T, near)
                    ELSE IF ~(1..999 \subseteq DOMAIN T) THEN LeastFree(T, 1..999) ELSE 0

MutParentId(t, id) == [t EXCEPT !.parent = id]

(* ITable::ParentId(id) turns the references to the old parent.            *)
ParentId(t, id) ==
  LET Turn(c) == IF c.ref > 0 /\ c.ref = t.parent THEN [c EXCEPT !.ref = id] ELSE c
  IN  [t EXCEPT !.parent = id, !.columns = [n \in DOMAIN @ |-> Turn(@[n])]]

MissingEnums(m, t) ==
  {t.columns[n].enum : n \in DOMAIN t.columns} \ ({""} \cup DOMAIN m.enums)

PutTable(m, id, t) ==
  [m EXCEPT
     !.tables = [i \in DOMAIN @ \cup {id} |->
                   IF i # id THEN @[i]
                   ELSE [t EXCEPT !.at = IF t.parent \in DOMAIN m.tables THEN t.parent ELSE 0]],
     !.enums = [e \in DOMAIN @ \cup MissingEnums(m, t) |->
                  IF e \in DOMAIN m.enums THEN @[e] ELSE {}]]

(* AddTable of a table without sub tables.                                 *)
AddOne(m, id, t) ==
  PutTable(m, IF id <= 0 \/ id \in DOMAIN m.tables
              THEN FindNextTableId(m.tables, t.parent) ELSE id, t)

(* AddTable of a table t with the sub tables S, a tree of its own: they   *)
(* are added under the copy with new ids, which "ids" keeps by the old.    *)
AddSubTable(acc, S, old) ==
  LET under == acc.ids[S[old].at]
      new   == FindNextTableId(acc.model.tables, under)
  IN  [model |-> PutTable(acc.model, new, ParentId(S[old], under)),
       ids   |-> [i \in DOMAIN acc.ids \cup {old} |-> IF i = old THEN new ELSE acc.ids[i]]]

AddTable(m, id, t, S) ==
  LET order == Walk(S, DOMAIN S)
      after[n \in 0..Len(order)] ==
        IF n = 0 THEN [model |-> PutTable(m, id, t), ids |-> [i \in {0} |-> id]]
        ELSE AddSubTable(after[n - 1], S, order[n])
  IN  after[Len(order)].model

(* The sub tables of table i as a tree of their own.                       *)
Below(T, i) == [j \in Subtree(T, i) \ {i} |->
                  IF T[j].at = i THEN [T[j] EXCEPT !.at = 0] ELSE T[j]]

MutDeleteTable(m, id) == [m EXCEPT !.tables = [i \in DOMAIN @ \ {id} |-> @[i]]]

DeleteTable(m, id) ==
  [m EXCEPT !.tables = [i \in DOMAIN @ \ Subtree(@, id) |-> @[i]]]

AddEnum(m, e, items) ==
  [m EXCEPT !.enums = [f \in DOMAIN @ \cup {e} |-> IF f = e THEN items ELSE @[f]]]

DeleteEnum(m, e) == [m EXCEPT !.enums = [f \in DOMAIN @ \ {e} |-> @[f]]]

AddRelation(m, r, rel) ==
  [m EXCEPT !.relations = [s \in DOMAIN @ \cup {r} |-> IF s = r THEN rel ELSE @[s]]]

DeleteRelation(m, r) == [m EXCEPT !.relations = [s \in DOMAIN @ \ {r} |-> @[s]]]

------------------------------------------------------------------------------
(* AllTables: the tables under a top level table with a database name; a  *)
(* table waits until the tables that its stored columns refer to are out. *)
Listed(T) == {i \in DOMAIN T : T[Head(Path(T, i))].db # ""}

References(t) == {c.ref : c \in {d \in ToSet(t.columns) : d.ref # 0 /\ d.stored}}

Shape(T) == [i \in DOMAIN T |-> [at |-> T[i].at, db |-> T[i].db, needs |-> References(T[i])]]

MutWaits(S, i, left) == S[i].needs # {} /\ S[i].needs \subseteq left \ {i}

Waits(S, i, left) == S[i].needs \cap (left \ {i}) # {}

Take(S, acc, i) ==
  IF Waits(S, i, acc.left) THEN [acc EXCEPT !.rest = Append(@, i)]
  ELSE [acc EXCEPT !.left = @ \ {i}, !.out = Append(@, i)]

Pass(S, s) ==
  LET after[n \in 0..Len(s.rest)] ==
        IF n = 0 THEN [left |-> ToSet(s.rest), rest |-> << >>, out |-> s.out]
        ELSE Take(S, after[n - 1], s.rest[n])
      done == after[Len(s.rest)]
  IN  [rest |-> done.rest, out |-> done.out]

Passes(S, start) ==
  LET after[n \in 0..Len(start)] ==
        IF n = 0 THEN [rest |-> start, out |-> << >>] ELSE Pass(S, after[n - 1])
  IN  after[Len(start)]

Ended(s) == s.out \o s.rest

Ordered(S) == Ended(Passes(S, Walk(S, Listed(S))))

AllTables(T) == Ordered(Shape(T))

------------------------------------------------------------------------------
(* SaveModel and ReadModel.  A table is written with all columns but not  *)
(* with its place; the reader has no description of a table and takes the *)
(* inverse name for the inverse base name of a relation.                  *)
SaveTable(T, i) == [id |-> i, table |-> [T[i] EXCEPT !.at = 0]]

SaveTables(T, list) == [n \in DOMAIN list |-> SaveTable(T, list[n])]

SaveModel(m) ==
  [title |-> m.title, enums |-> m.enums, relations |-> m.relations,
   tables |-> SaveTables(m.tables, AllTables(m.tables))]

MutReadTable(m, node) == AddOne(m, 0, [node.table EXCEPT !.desc = ""])

ReadTable(m, node) == AddOne(m, node.id, [node.table EXCEPT !.desc = ""])

ReadRelations(into, file) ==
  [r \in DOMAIN into \cup DOMAIN file |->
     IF r \in DOMAIN file THEN [file[r] EXCEPT !.inverseBase = file[r].inverse] ELSE into[r]]

ReadModel(into, file) ==
  LET empty == [title |-> file.title, tables |-> << >>, enums |-> file.enums,
                relations |-> ReadRelations(into.relations, file.relations)]
      after[n \in 0..Len(file.tables)] ==
        IF n = 0 THEN empty ELSE ReadTable(after[n - 1], file.tables[n])
  IN  after[Len(file.tables)]

------------------------------------------------------------------------------
(* What the application makes of tables: a tree under positive ids, with  *)
(* columns in a list.                                                      *)
HasColumnList(t) ==
  {"at", "parent", "columns"} \subseteq DOMAIN t /\ t.columns \in Seq(ToSet(t.columns))

AreTables(T) ==
  /\ IsFiniteSet(DOMAIN T) /\ DOMAIN T \subseteq Nat \ {0}
  /\ Placed([i \in DOMAIN T |-> T[i].at]) = DOMAIN T
  /\ \A i \in DOMAIN T : HasColumnList(T[i])

(* The tables that i refers to, directly or through other listed tables.  *)
Reached(T, i) ==
  LET step[n \in 0..Cardinality(DOMAIN T)] ==
        IF n = 0 THEN References(T[i]) \ {i}
        ELSE LET near == step[n - 1]
             IN  near \cup UNION {References(T[j]) : j \in near \cap Listed(T)}
  IN  step[Cardinality(DOMAIN T)]

(* A circle of references keeps table i, or one that i needs, waiting.     *)
HeldBack(T, i) == \E j \in {i} \cup (Reached(T, i) \cap Listed(T)) : j \in Reached(T, j)

------------------------------------------------------------------------------
(* operator==.  A column is looked up by its name: the first that has it. *)
SameTable(T, U, i) ==
  LET t == T[i]
      u == U[i]
  IN  /\ \A f \in {"parent", "base", "name", "db", "desc"} : t[f] = u[f]
      /\ Cardinality(SubTables(T, i)) = Cardinality(SubTables(U, i))
      /\ Len(t.columns) = Len(u.columns)
      /\ \A n \in DOMAIN t.columns :
           LET k == WithName(u.columns, t.columns[n].name)
           IN  k # 0 /\ u.columns[k] = t.columns[n]

Same(m, n) ==
  /\ m.title = n.title
  /\ Cardinality(Listed(m.tables)) = Cardinality(Listed(n.tables))
  /\ \A i \in Listed(m.tables) : i \in DOMAIN n.tables /\ SameTable(m.tables, n.tables, i)
  /\ m.enums = n.enums
  /\ m.relations = n.relations
==============================================================================
