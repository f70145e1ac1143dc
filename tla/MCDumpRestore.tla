---------------------------- MODULE MCDumpRestore ----------------------------
(* A database of an environment, tests and their parts, to check with TLC. *)
(* The table of the parts comes before that of the tests in the alphabet.  *)
EXTENDS DumpRestore, TLC

Column(name, base, ref, flags) ==
  [name |-> name, base |-> base, ref |-> ref, enum |-> "", stored |-> TRUE, flags |-> flags,
   unit |-> NoText, nr |-> 0]

Table(name, base, parent, columns) ==
  [at |-> parent, parent |-> parent, name |-> name, base |-> base, db |-> name, desc |-> "",
   columns |-> columns]

IdAndName(name, flags) == <<Column(name, "id", 0, {}), Column("Name", "name", 0, flags)>>

MCModel ==
  [title |-> NoText, relations |-> << >>, enums |-> ("E" :> {1}),
   tables |-> (1 :> Table("Env", "AoEnvironment", 0, IdAndName("EnvId", {})))
           @@ (10 :> Table("Test", "AoTest", 0, IdAndName("TestId", {"unique"})))
           @@ (20 :> Table("Part", "AoAny", 10,
                           Append(IdAndName("PartId", {}), Column("Parent", "parent", 10, {}))))]

(* Two columns of the tests have one unit, a column of the units another.  *)
Measured(name, unit) == [Column(name, "", 0, {}) EXCEPT !.unit = Plain(unit)]

UnitModel ==
  [MCModel EXCEPT !.enums = << >>, !.tables =
     (30 :> Table("Unit", "AoUnit", 0, Append(IdAndName("UnitId", {"unique"}), Measured("Factor", "1"))))
     @@ (10 :> [@[10] EXCEPT !.columns = @ \o <<Measured("Length", "mm"), Measured("Width", "mm")>>])]

MCModels == {MCModel, UnitModel}

MCStems == <<"Env", "Part", "Test", "Unit">>

Row(text) == [text |-> Plain(text), data |-> "none", refs |-> << >>]
PartRow(text, id) == [text |-> Plain(text), data |-> "bytes", refs |-> ("Parent" :> id)]

Made(kind, model) == Created(NewDatabase(kind, TRUE), model, 0).db

Filled(kind, id) ==
  LET db == Insert(Insert(Made(kind, MCModel), "Test", Row("a")), "Test", Row("b"))
      gap == IF id = 1 THEN db ELSE Deleted(db, "Test", 1)
  IN  Insert(gap, "Part", PartRow("p", id))

MCSources ==
  {Filled("sqlite", 1), Filled("sqlite", 2), Filled("postgres", 1), Made("sqlite", UnitModel)}

MCTargets ==
  {NewDatabase("sqlite", FALSE), NewDatabase("postgres", TRUE), Filled("sqlite", 1)}

MCWrites == {<<"Part", PartRow("q", 0)>>}
==============================================================================
