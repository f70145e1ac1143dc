------------------------------- MODULE AtfxFile -------------------------------
(***************************************************************************)
(* The import of an ATFX file into a model (src/atfxfile.cpp).  A file is *)
(* read in one go, its elements in the order in which they are written;   *)
(* an element may refer to a later one.                                    *)
(*                                                                         *)
(* Of a file are kept its title, its enumerates, its elements and the     *)
(* rows of its instance data.  The unit of an attribute is the id of a    *)
(* row, as long as FixUnits has not put the name in its place.             *)
(***************************************************************************)
EXTENDS ModelTables

CONSTANTS
  AtfxFiles,    \* the files that a user imports
  Upper,        \* names in capital letters, a reserved word with an X
  BaseFlags     \* the flags of the base attributes

ASSUME AtfxAssumption ==
  \A f \in AtfxFiles :
    /\ f.enums \in Seq(ToSet(f.enums)) /\ f.elements \in Seq(ToSet(f.elements))
    /\ \A n \in DOMAIN f.elements :
         LET e == f.elements[n]
         IN  e.attrs \in Seq(ToSet(e.attrs)) /\ e.relations \in Seq(ToSet(e.relations))

MakeDbName(name) == Upper[name]

GetParentBaseName(base) ==
  CASE base = "AoAttributeMap" -> {"name_mapping"}
    [] base = "AoMeasurement" -> {"test"}
    [] base \in {"AoMeasurementQuantity", "AoSubMatrix"} -> {"measurement"}
    [] base = "AoLocalColumn" -> {"submatrix"}
    [] base = "AoExternalComponent" -> {"local_column"}
    [] base = "AoSubTest" -> {"parent", "parent_test"}
    [] base = "AoUnitUnderTestPart" ->
         {"parent", "parent_unit_under_test", "parent_unit_under_test_part"}
    [] base = "AoTestSequencePart" -> {"parent", "parent_sequence", "parent_sequence_part"}
    [] base \in {"AoTestEquipmentPart", "AoTestDevice"} ->
         {"parent", "parent_equipment", "parent_equipment_part"}
    [] base \in {"AoAny", "AoLog"} -> {"parent"}
    [] base = "AoParameter" -> {"parameter_set"}
    [] base = "AoFile" -> {"parent", "parent_test", "ao_file_parent"}
    [] OTHER -> {}

CreateDefaultColumn(name, base) ==
  [name |-> name, base |-> base, ref |-> 0, enum |-> "", stored |-> TRUE, unit |-> 0,
   flags |-> IF base \in DOMAIN BaseFlags THEN BaseFlags[base] ELSE {}]

(* The properties of an attribute that the file has, set or clear a flag. *)
ImportAttribute(t, attr) ==
  LET c == CreateDefaultColumn(attr.name, attr.base)
      flags == (c.flags \ DOMAIN attr.flags) \cup {f \in DOMAIN attr.flags : attr.flags[f]}
  IN  [t EXCEPT !.columns = Append(@, [c EXCEPT !.enum = attr.enum, !.unit = attr.unit, !.flags = flags])]

(* A relation to many is none of this table.  An element that comes later *)
(* has no table yet, and the reference is 0.                               *)
ImportRelation(m, t, rel) ==
  LET ref == GetTableByName(m.tables, rel.refTo)
      parent == rel.base \in GetParentBaseName(t.base)
      c == CreateDefaultColumn(rel.name, rel.base)
      flags == (IF rel.obligatory THEN c.flags \cup {"obligatory"} ELSE c.flags \ {"obligatory"})
               \cup (IF parent THEN {"index"} ELSE {})
      u == IF parent THEN ParentId(t, ref) ELSE t
  IN  IF rel.many THEN t
      ELSE [u EXCEPT !.columns = Append(@, [c EXCEPT !.ref = ref, !.flags = flags])]

ImportElement(m, e) ==
  LET t == [at |-> 0, parent |-> 0, name |-> e.name, base |-> e.base, db |-> MakeDbName(e.name),
            desc |-> "", columns |-> << >>]
      described[n \in 0..Len(e.attrs)] ==
        IF n = 0 THEN t ELSE ImportAttribute(described[n - 1], e.attrs[n])
      related[n \in 0..Len(e.relations)] ==
        IF n = 0 THEN described[Len(e.attrs)] ELSE ImportRelation(m, related[n - 1], e.relations[n])
  IN  AddOne(m, 0, related[Len(e.relations)])

(* The second round: the references, now that every element has a table.  *)
MutFixRelation(m, i, rel) == m

FixRelation(m, i, rel) ==
  LET n == WithName(m.tables[i].columns, rel.name)
      ref == GetTableByName(m.tables, rel.refTo)
  IN  IF n = 0 \/ ref = 0 THEN m ELSE [m EXCEPT !.tables[i].columns[n].ref = ref]

FixTableRelations(m, e) ==
  LET i == GetTableByName(m.tables, e.name)
      fixed[n \in 0..Len(e.relations)] ==
        IF n = 0 THEN m ELSE FixRelation(fixed[n - 1], i, e.relations[n])
  IN  IF i = 0 THEN m ELSE fixed[Len(e.relations)]

ImportEnum(m, e) == AddEnum(m, e.name, e.items)

ImportAppModel(m, f) ==
  LET enums[n \in 0..Len(f.enums)] ==
        IF n = 0 THEN m ELSE ImportEnum(enums[n - 1], f.enums[n])
      elements[n \in 0..Len(f.elements)] ==
        IF n = 0 THEN enums[Len(f.enums)] ELSE ImportElement(elements[n - 1], f.elements[n])
      fixed[n \in 0..Len(f.elements)] ==
        IF n = 0 THEN elements[Len(f.elements)] ELSE FixTableRelations(fixed[n - 1], f.elements[n])
  IN  fixed[Len(f.elements)]

(* The rows of the unit table, if that has an id and a name; the first     *)
(* row with an id counts.                                                  *)
UnitRow(m, f, id) ==
  LET u == GetTableByBaseId(m.tables, "AoUnit")
      Bases == IF u = 0 THEN {} ELSE {c.base : c \in ToSet(m.tables[u].columns)}
      rows == {n \in DOMAIN f.rows : {"id", "name"} \subseteq Bases
                                      /\ f.rows[n].table = m.tables[u].name /\ f.rows[n].id = id}
  IN  IF rows = {} THEN "" ELSE f.rows[Min(rows)].name

FixUnits(m, f) ==
  LET Unit(id) == IF id <= 0 THEN "" ELSE UnitRow(m, f, id)
      Named(c) == [c EXCEPT !.unit = Unit(c.unit)]
      Fixed(t) == [t EXCEPT !.columns = [n \in DOMAIN t.columns |-> Named(t.columns[n])]]
  IN  [m EXCEPT !.tables = [i \in DOMAIN m.tables |-> Fixed(m.tables[i])]]

AtfxModel(f) == FixUnits(ImportAppModel([EmptyModel EXCEPT !.title = f.title], f), f)

AtfxModels == [f \in AtfxFiles |-> AtfxModel(f)]

------------------------------------------------------------------------------
(* What the file says, whatever the order of its elements.                 *)
Comes(f, e, name) ==
  \E k, n \in DOMAIN f.elements : n < k /\ f.elements[k] = e /\ f.elements[n].name = name

LastParent(e, r) ==
  LET parents == SelectSeq(e.relations, LAMBDA p : ~p.many /\ p.base \in GetParentBaseName(e.base))
  IN  parents # << >> /\ r = parents[Len(parents)]

RefersAsWritten(m, f) ==
  \A n \in DOMAIN f.elements :
    LET e == f.elements[n]
        i == GetTableByName(m.tables, e.name)
    IN  /\ i # 0 /\ m.tables[i].base = e.base
        /\ Len(m.tables[i].columns) = Len(e.attrs) + Len(SelectSeq(e.relations, LAMBDA r : ~r.many))
        /\ \A r \in ToSet(e.relations) :
             LET c == m.tables[i].columns[WithName(m.tables[i].columns, r.name)]
                 to == GetTableByName(m.tables, r.refTo)
             IN  ~r.many => /\ c.ref = to
                            /\ LastParent(e, r) /\ Comes(f, e, r.refTo) => m.tables[i].at = to
        /\ \A a \in ToSet(e.attrs) :
             m.tables[i].columns[WithName(m.tables[i].columns, a.name)].unit =
               IF a.unit = 0 THEN "" ELSE UnitRow(m, f, a.unit)
==============================================================================
