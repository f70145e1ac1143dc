---------------------------- MODULE MCModelEditor ----------------------------
(* A document of three tables in a chain, to check with TLC.               *)
EXTENDS ModelEditor, TLC

Column(name, base, ref, enum) ==
  [name |-> name, base |-> base, ref |-> ref, enum |-> enum, stored |-> TRUE, unit |-> "", flags |-> {}]

Table(name, base, parent, columns) ==
  [at |-> 0, parent |-> parent, name |-> name, base |-> base, db |-> name, desc |-> "text",
   columns |-> columns]

MCOpened ==
  [title |-> "T", enums |-> ("E" :> {0}), relations |-> << >>,
   tables |-> << [id |-> 10, table |-> Table("Test", "AoTest", 0, <<Column("Id", "id", 0, "")>>)],
                 [id |-> 11, table |-> Table("Meas", "AoMeasurement", 10, <<ParentColumn("test", 10), Column("Kind", "none", 0, "F")>>)],
                 [id |-> 12, table |-> Table("Part", "AoAny", 11, <<ParentColumn("parent", 11)>>)] >>]

MCImported == [EmptyModel EXCEPT !.title = "I"]

TableForm(name, base, parent, db, column) ==
  [name |-> name, base |-> base, parent |-> parent, db |-> db, desc |-> "",
   column |-> column]

MCTableForms ==
  { TableForm("New", "AoSubTest", "Meas", "New", "parent_test"),
    TableForm("Part", "AoAny", "Test", "Part", "none"),
    TableForm("Meas", "AoAny", "", "", "parent") }

ColumnForm(name, ref, enum, stored) ==
  [name |-> name, base |-> "none", ref |-> ref, enum |-> enum, stored |-> stored, unit |-> "", flags |-> {}]

MCColumnForms ==
  { ColumnForm("Kind", "", "G", TRUE),
    ColumnForm("Kind", "Part", "", TRUE),
    ColumnForm("Extra", "Meas", "", FALSE) }

MCRelationForms ==
  { [table1 |-> "Test", table2 |-> "Part", db |-> "Rel", inverse |-> "x", inverseBase |-> "y"] }

MCPump ==
  << [Table("Pump", "AoAny", 20, <<ParentColumn("parent", 20)>>) EXCEPT !.db = ""],
     (21 :> Table("Seal", "AoAny", 20, <<ParentColumn("parent", 20), Column("Of", "none", 15, "")>>)
      @@ 22 :> [Table("Ring", "AoAny", 21, <<ParentColumn("parent", 21)>>) EXCEPT !.at = 21]) >>

MCClips == {MCPump}

(* An element before the one that it refers to, one with two parents, one  *)
(* with a unit, and a circle.                                               *)
Element(name, base, attrs, relations) ==
  [name |-> name, base |-> base, attrs |-> attrs, relations |-> relations]
Attr(name, base, unit, flags) ==
  [name |-> name, base |-> base, enum |-> "", unit |-> unit, flags |-> flags]
Relation(name, base, refTo, many) ==
  [name |-> name, base |-> base, refTo |-> refTo, many |-> many, obligatory |-> ~many]

MCAtfxFiles ==
  {[title |-> "A", enums |-> <<[name |-> "F", items |-> {0}]>>,
    elements |->
      << Element("Test", "AoTest", <<Attr("Id", "id", 0, ("unique" :> TRUE))>>,
                 <<Relation("Files", "children", "File", TRUE), Relation("In", "", "Order", FALSE)>>),
         Element("Part", "AoAny", << >>, <<Relation("Parent", "parent", "Test", FALSE)>>),
         Element("File", "AoFile", << >>, <<Relation("OfTest", "parent_test", "Test", FALSE),
                                            Relation("Of", "ao_file_parent", "Part", FALSE)>>),
         Element("Order", "AoAny", <<Attr("Length", "", 2, ("unique" :> FALSE))>>,
                 <<Relation("Parent", "parent", "Order", FALSE), Relation("Next", "", "Test", FALSE)>>),
         Element("Unit", "AoUnit", <<Attr("Id", "id", 0, << >>), Attr("Name", "name", 0, << >>)>>, << >>) >>,
    rows |-> <<[table |-> "Part", id |-> 2, name |-> "no unit"], [table |-> "Unit", id |-> 2, name |-> "mm"]>>]}

MCUpper ==
  "Test" :> "TEST" @@ "Part" :> "PART" @@ "File" :> "FILE" @@ "Order" :> "ORDERX" @@ "Unit" :> "UNIT"

MCBaseFlags == "id" :> {"auto", "unique", "obligatory"} @@ "parent" :> {"index"}
==============================================================================
