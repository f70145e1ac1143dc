-------------------------- MODULE DumpRestore_proofs --------------------------
(***************************************************************************)
(* A database only gets new rows, whatever fails while it is created or    *)
(* read in, and a dump that is reported has the rows that were there.  The *)
(* models of databases and of model files are trees.                       *)
(***************************************************************************)
EXTENDS DumpRestore, ModelTables_proofs

LEMMA ModelIsSound == ASSUME NEW m, IsModel(m) PROVE IsSound(m)
BY TablesAreSound DEF IsModel, IsSound, HasEnums

LEMMA TablesReadAreSound ==
  ASSUME NEW db, IsService(db.svc)
  PROVE  LET T == ReadSvcAttrTable(db)
         IN  /\ IsTree(T) /\ 0 \notin DOMAIN T
             /\ \A i \in DOMAIN T : HasColumns(T[i])
<1> DEFINE svc == db.svc
           ents == svc.ents
           Flat == [i \in DOMAIN ents |-> WithColumns(db, ents[i], AttrsOf(svc, i), UnitTable(ents))]
           parents == [j \in DOMAIN Flat |-> Flat[j].parent]
           T == ReadSvcAttrTable(db)
<1>1. T = [i \in Placed(parents) |-> Flat[i]]
  BY DEF ReadSvcAttrTable, ReadSvcEntTable, Nested
<1>2. DOMAIN Flat = DOMAIN ents /\ DOMAIN parents = DOMAIN ents /\ \A i \in DOMAIN ents : parents[i] = Flat[i].parent
  OBVIOUS
<1>3. IsFiniteSet(DOMAIN ents) /\ DOMAIN ents \subseteq Nat \ {0}
  BY DEF IsService
<1>4. ASSUME NEW i \in DOMAIN ents
      PROVE  Flat[i].at = Flat[i].parent /\ HasColumns(Flat[i])
  <2>1. {"at", "parent", "db", "columns"} \subseteq DOMAIN ents[i]
    BY DEF IsService
  <2>2. PICK e, attrs, a, c : /\ e = ents[i] /\ attrs = AttrsOf(svc, i) /\ a = ParentOf(attrs)
                              /\ c = [n \in DOMAIN attrs |-> FixUnitString(db, UnitTable(ents), attrs[n])]
    OBVIOUS
  <2>3. Flat[i] = [e EXCEPT !.at = a, !.parent = a, !.columns = c]
    BY <2>2 DEF WithColumns
  <2>4. IsList(attrs)
    <3> DEFINE K == Len(svc.attrs)
               seqs == [n \in DOMAIN svc.attrs |-> IF svc.attrs[n].id = i THEN <<svc.attrs[n]>> ELSE << >>]
    <3>1. K \in Nat /\ DOMAIN svc.attrs = 1 .. K
      BY DEF IsService
    <3>2. seqs = [n \in 1 .. K |-> seqs[n]]
      BY <3>1
    <3>3. \A n \in 1 .. K : IsList(seqs[n])
      <4>1. \A x : IsList(<<x>>)
        BY DEF IsList
      <4>2. IsList(<< >>)
        BY DEF IsList
      <4> QED
        BY <3>1, <4>1, <4>2
    <3>4. attrs = FlattenSeq(seqs)
      BY <2>2 DEF AttrsOf
    <3> HIDE DEF seqs, K
    <3> QED
      BY <3>1, <3>2, <3>3, <3>4, FlattenIsList
  <2>5. IsList(c)
    <3>1. DOMAIN attrs = 1 .. Len(attrs) /\ Len(attrs) \in Nat
      BY <2>4 DEF IsList
    <3>2. c = [n \in 1 .. Len(attrs) |-> c[n]]
      BY <2>2, <3>1
    <3> QED
      BY <3>1, <3>2, ListOf
  <2>6. PICK t : t = Flat[i]
    OBVIOUS
  <2>7. t.at = a /\ t.parent = a /\ t.columns = c /\ DOMAIN t = DOMAIN ents[i]
    BY <2>1, <2>2, <2>3, <2>6
  <2> QED
    BY <2>1, <2>5, <2>6, <2>7 DEF HasColumns
<1> HIDE DEF Flat, parents, T, ents
<1>5. IsPlaced(parents, Placed(parents))
  BY <1>2, <1>3, PlacedIsPlaced
<1>6. DOMAIN T = Placed(parents) /\ DOMAIN T \subseteq DOMAIN ents
  BY <1>1, <1>2, <1>5 DEF IsPlaced
<1>7. \A i \in DOMAIN T : T[i] = Flat[i]
  BY <1>1, <1>6
<1>8. IsFiniteSet(DOMAIN T) /\ DOMAIN T \subseteq Nat /\ 0 \notin DOMAIN T
  BY <1>3, <1>6, FS_Subset
<1>9. \A i \in DOMAIN T : T[i].at = parents[i]
  BY <1>2, <1>4, <1>6, <1>7
<1>10. IsTree(T)
  BY <1>5, <1>6, <1>8, <1>9, RankedIsTree
<1>11. \A i \in DOMAIN T : HasColumns(T[i])
  BY <1>4, <1>6, <1>7
<1> QED
  BY <1>8, <1>10, <1>11 DEF T

LEMMA ReadIsSound ==
  ASSUME NEW db, IsService(db.svc)
  PROVE  IsSound(ReadDatabaseModel(db))
<1> DEFINE T == ReadSvcAttrTable(db)
           svc == db.svc
<1>1. PICK m : m = ReadDatabaseModel(db)
  OBVIOUS
<1>2. /\ m.tables = T /\ m.enums = ReadSvcEnumTable(svc) /\ m.relations = ReadSvcRefTable(db)
  BY <1>1 DEF ReadDatabaseModel, ModelOf
<1>3. /\ IsTree(T) /\ 0 \notin DOMAIN T
      /\ \A i \in DOMAIN T : HasColumns(T[i])
  BY TablesReadAreSound
<1>4. HasEnums(m.enums)
  <2>1. IsFiniteSet(svc.enums)
    BY DEF IsService
  <2>2. ASSUME NEW S \in SUBSET svc.enums, NEW f, DOMAIN f = S
        PROVE  IsFiniteSet({f[row] : row \in S})
    BY <2>1, <2>2, FS_Subset, ImageIsFinite
  <2>3. IsFiniteSet({row[3] : row \in svc.enums})
    <3>1. PICK f : f = [row \in svc.enums |-> row[3]]
      OBVIOUS
    <3>2. IsFiniteSet({f[row] : row \in svc.enums})
      <4>1. svc.enums \in SUBSET svc.enums /\ DOMAIN f = svc.enums
        BY <3>1
      <4> QED
        BY <2>2, <4>1
    <3>3. {f[row] : row \in svc.enums} = {row[3] : row \in svc.enums}
      BY <3>1
    <3> QED
      BY <3>2, <3>3
  <2>4. ASSUME NEW e
        PROVE  IsFiniteSet(EnumItems(svc, e))
    <3>1. PICK S : S = {r \in svc.enums : r[3] = e}
      OBVIOUS
    <3>2. PICK f : f = [row \in S |-> row[2]]
      OBVIOUS
    <3>3. S \in SUBSET svc.enums /\ DOMAIN f = S
      BY <3>1, <3>2
    <3>4. IsFiniteSet({f[row] : row \in S})
      BY <2>2, <3>3
    <3>5. {f[row] : row \in S} = EnumItems(svc, e)
      <4>1. {f[row] : row \in S} = {row[2] : row \in S}
        BY <3>2
      <4> QED
        BY <3>1, <4>1 DEF EnumItems
    <3> QED
      BY <3>4, <3>5
  <2>5. /\ DOMAIN m.enums = {row[3] : row \in svc.enums}
        /\ \A e \in DOMAIN m.enums : m.enums[e] = EnumItems(svc, e)
    BY <1>2 DEF ReadSvcEnumTable
  <2> QED
    BY <2>3, <2>4, <2>5 DEF HasEnums
<1>5. IsFiniteSet(DOMAIN m.relations)
  <2>1. IsFiniteSet(svc.refs)
    BY DEF IsService
  <2>2. DOMAIN m.relations = {} \/ DOMAIN m.relations = {x.name : x \in svc.refs}
    BY <1>2 DEF ReadSvcRefTable, RelationRows
  <2>3. PICK f : f = [x \in svc.refs |-> x.name]
    OBVIOUS
  <2>4. IsFiniteSet({f[x] : x \in svc.refs})
    <3>1. DOMAIN f = svc.refs
      BY <2>3
    <3> QED
      BY <2>1, <3>1, ImageIsFinite
  <2>5. {f[x] : x \in svc.refs} = {x.name : x \in svc.refs}
    BY <2>3
  <2> QED
    BY <2>2, <2>4, <2>5, FS_EmptySet
<1> HIDE DEF T
<1> QED
  BY <1>1, <1>2, <1>3, <1>4, <1>5 DEF IsSound, SoundTables

LEMMA FileIsSound ==
  ASSUME NEW file, IsFile(file)
  PROVE  IsSound(ReadFileModel(file))
<1>1. PICK m : m = ReadModel(EmptyModel, file)
  OBVIOUS
<1>2. Read(m, file, Len(file.tables))
  BY <1>1, FileIsRead DEF IsFile
<1>5. /\ DOMAIN m = Fields /\ SoundTables(m.tables) /\ HasEnums(m.enums)
      /\ IsFiniteSet(DOMAIN m.relations)
  <2>1. DOMAIN m.relations = DOMAIN file.relations
    BY <1>2 DEF Read, ReadRelations
  <2> QED
    BY <1>2, <2>1 DEF Read, IsFile
<1> DEFINE Zeroed(t) == [n \in DOMAIN t.columns |-> [t.columns[n] EXCEPT !.nr = 0]]
<1>6. PICK new, tables : /\ new = ReadFileModel(file) /\ new = [m EXCEPT !.tables = tables]
                         /\ tables = [i \in DOMAIN m.tables |->
                              [m.tables[i] EXCEPT !.columns = Zeroed(m.tables[i])]]
  BY <1>1 DEF ReadFileModel
<1>7. new.tables = tables /\ new.enums = m.enums /\ new.relations = m.relations
  BY <1>5, <1>6 DEF Fields
<1>8. /\ DOMAIN tables = DOMAIN m.tables
      /\ \A i \in DOMAIN tables : HasColumns(m.tables[i]) => HasColumns(tables[i]) /\ tables[i].at = m.tables[i].at
  <2> SUFFICES ASSUME NEW i \in DOMAIN m.tables, HasColumns(m.tables[i])
               PROVE  HasColumns(tables[i]) /\ tables[i].at = m.tables[i].at
    BY <1>6
  <2>1. PICK t, c : t = m.tables[i] /\ c = Zeroed(t)
    OBVIOUS
  <2>2. PICK u : u = tables[i]
    OBVIOUS
  <2>3. u = [t EXCEPT !.columns = c]
    BY <1>6, <2>1, <2>2
  <2>4. {"at", "parent", "columns"} \subseteq DOMAIN t /\ IsList(t.columns)
    BY <2>1 DEF HasColumns
  <2>5. u.at = t.at /\ u.columns = c /\ DOMAIN u = DOMAIN t
    BY <2>3, <2>4
  <2>6. IsList(c)
    <3>1. DOMAIN t.columns = 1 .. Len(t.columns) /\ Len(t.columns) \in Nat
      BY <2>4 DEF IsList
    <3>2. c = [n \in 1 .. Len(t.columns) |-> c[n]]
      BY <2>1, <3>1
    <3> QED
      BY <3>1, <3>2, ListOf
  <2> QED
    BY <2>1, <2>2, <2>4, <2>5, <2>6 DEF HasColumns
<1>9. \A i \in DOMAIN tables : HasColumns(tables[i]) /\ tables[i].at = m.tables[i].at
  BY <1>5, <1>8 DEF SoundTables
<1>10. IsTree(tables)
  <2>1. IsTree(m.tables)
    BY <1>5 DEF SoundTables
  <2>2. PICK N \in Nat : \E rank : IsRank(m.tables, rank, N)
    BY <2>1 DEF IsTree
  <2>3. PICK rank : IsRank(m.tables, rank, N)
    BY <2>2
  <2>4. IsRank(tables, rank, N)
    BY <1>8, <1>9, <2>3 DEF IsRank
  <2> QED
    BY <1>8, <2>1, <2>2, <2>4 DEF IsTree
<1>11. SoundTables(tables)
  BY <1>5, <1>8, <1>9, <1>10 DEF SoundTables
<1> QED
  BY <1>5, <1>6, <1>7, <1>11 DEF IsSound

-----------------------------------------------------------------------------
(***************************************************************************)
(* The statements of Create: finitely many for a sound model.              *)
(***************************************************************************)
LEMMA MappedIsList ==
  ASSUME NEW s, IsList(s), NEW t, DOMAIN t = DOMAIN s, t = [n \in DOMAIN s |-> t[n]]
  PROVE  IsList(t) /\ Len(t) = Len(s)
<1>1. PICK N : N = Len(s) /\ N \in Nat /\ DOMAIN s = 1 .. N
  BY DEF IsList
<1>2. t = [n \in 1 .. N |-> t[n]]
  BY <1>1
<1> QED
  BY <1>1, <1>2, ListOf

LEMMA FlatIsList ==
  ASSUME NEW s, IsList(s), NEW t, t = [n \in DOMAIN s |-> t[n]], \A n \in DOMAIN s : IsList(t[n])
  PROVE  IsList(FlattenSeq(t))
<1>1. PICK N : N = Len(s) /\ N \in Nat /\ DOMAIN s = 1 .. N
  BY DEF IsList
<1> QED
  BY <1>1, FlattenIsList

LEMMA ShortLists == ASSUME NEW x, NEW y PROVE IsList(<< >>) /\ IsList(<<x>>) /\ IsList(<<x, y>>)
BY DEF IsList

\* The elements of a flat list, and of two lists one after the other.
LEMMA FlatElements ==
  ASSUME NEW s, IsList(s), NEW t, t = [n \in DOMAIN s |-> t[n]], \A n \in DOMAIN s : IsList(t[n])
  PROVE  \A j \in DOMAIN FlattenSeq(t) : \E n \in DOMAIN s : \E k \in DOMAIN t[n] : FlattenSeq(t)[j] = t[n][k]
<1> DEFINE X == UNION {{t[n][k] : k \in DOMAIN t[n]} : n \in DOMAIN s}
<1>1. PICK N : N = Len(s) /\ N \in Nat /\ DOMAIN s = 1 .. N
  BY DEF IsList
<1>2. ASSUME NEW n \in DOMAIN s
      PROVE  t[n] \in Seq(X)
  <2>1. IsList(t[n]) /\ \A k \in 1 .. Len(t[n]) : t[n][k] \in X
    BY DEF IsList
  <2> HIDE DEF X
  <2> QED
    BY <2>1, ListIsSeq
<1>3. FlattenSeq(t) \in Seq(X)
  <2>1. IsList(t) /\ Len(t) = N
    BY <1>1, ListOf
  <2>2. t \in Seq(Seq(X))
    BY <1>1, <1>2, <2>1, ListIsSeq
  <2> QED
    BY <2>2, FlattenIsSeq
<1>4. ASSUME NEW j \in DOMAIN FlattenSeq(t)
      PROVE  FlattenSeq(t)[j] \in X
  <2> HIDE DEF X
  <2> QED
    BY <1>3, ListIsSeq DEF IsList
<1> QED
  BY <1>4

LEMMA ConcatElements ==
  ASSUME NEW s, NEW t, IsList(s), IsList(t)
  PROVE  \A j \in DOMAIN (s \o t) :
           (\E k \in DOMAIN s : (s \o t)[j] = s[k]) \/ (\E k \in DOMAIN t : (s \o t)[j] = t[k])
<1> DEFINE X == {s[n] : n \in DOMAIN s} \cup {t[n] : n \in DOMAIN t}
<1>1. s \in Seq(X) /\ t \in Seq(X)
  <2>1. (\A n \in 1 .. Len(s) : s[n] \in X) /\ \A n \in 1 .. Len(t) : t[n] \in X
    BY DEF IsList
  <2> HIDE DEF X
  <2> QED
    BY <2>1, ListIsSeq
<1>2. ASSUME NEW j \in DOMAIN (s \o t)
      PROVE  (s \o t)[j] \in X
  <2> HIDE DEF X
  <2> QED
    BY <1>1
<1> QED
  BY <1>2

\* Statements that insert no row into a table of the model.
IsPlain(s) == IsList(s) /\ \A n \in DOMAIN s : s[n].do # "insert"

LEMMA FlatIsPlain ==
  ASSUME NEW s, IsList(s), NEW t, t = [n \in DOMAIN s |-> t[n]], \A n \in DOMAIN s : IsPlain(t[n])
  PROVE  IsPlain(FlattenSeq(t))
BY FlatIsList, FlatElements DEF IsPlain

LEMMA PlainLists == ASSUME NEW x PROVE IsPlain(<< >>) /\ (x.do # "insert" => IsPlain(<<x>>))
<1>1. DOMAIN << >> = {} /\ DOMAIN <<x>> = {1} /\ <<x>>[1] = x
  OBVIOUS
<1>2. IsList(<< >>) /\ IsList(<<x>>)
  BY ShortLists
<1> QED
  BY <1>1, <1>2 DEF IsPlain

LEMMA ConcatIsPlain ==
  ASSUME NEW s, NEW t, IsPlain(s), IsPlain(t)
  PROVE  IsPlain(s \o t)
BY ListConcat, ConcatElements DEF IsPlain

LEMMA RowsArePlain ==
  ASSUME NEW m, IsSound(m), NEW list, list = AllTables(m.tables)
  PROVE  /\ IsPlain(EnumRows(m)) /\ IsPlain(EntRows(list)) /\ IsPlain(AttrRows(m, list))
         /\ IsPlain(RefRows(m)) /\ IsPlain(TableRows(m, list)) /\ IsPlain(RelationTables(m))
         /\ IsList(Places(m, list)) /\ \A name : IsPlain(Make(name))
<1> DEFINE T == m.tables
<1>1. IsList(list) /\ \A n \in DOMAIN list : list[n] \in DOMAIN T
  BY AllTablesIsList DEF IsSound, SoundTables
<1>2. \A n \in DOMAIN list : IsList(T[list[n]].columns)
  BY <1>1 DEF IsSound, SoundTables, HasColumns
<1>3. IsPlain(EnumRows(m))
  <2> DEFINE names == SetToSeq(DOMAIN m.enums)
             Items(n) == IF m.enums[names[n]] = {} THEN {0} ELSE m.enums[names[n]]
             Rows(n) == LET items == SetToSeq(Items(n))
                        IN  [k \in DOMAIN items |-> [do |-> "enum", row |-> <<n, items[k], names[n]>>]]
             rows == [n \in DOMAIN names |-> Rows(n)]
  <2>1. IsList(names) /\ \A n \in 1 .. Len(names) : names[n] \in DOMAIN m.enums
    BY SetToSeqIsList DEF IsSound, HasEnums
  <2>2. EnumRows(m) = FlattenSeq(rows)
    BY DEF EnumRows
  <2> HIDE DEF names
  <2>3. ASSUME NEW n \in DOMAIN names
        PROVE  IsPlain(Rows(n))
    <3>1. names[n] \in DOMAIN m.enums
      BY <2>1 DEF IsList
    <3>2. IsFiniteSet(Items(n))
      BY <3>1, FS_Singleton DEF IsSound, HasEnums
    <3> HIDE DEF Items
    <3>3. PICK items : items = SetToSeq(Items(n)) /\ IsList(items)
      BY <3>2, SetToSeqIsList
    <3>4. PICK t : t = Rows(n)
      OBVIOUS
    <3>5. DOMAIN t = DOMAIN items /\ t = [k \in DOMAIN items |-> t[k]] /\ \A k \in DOMAIN items : t[k].do = "enum"
      BY <3>3, <3>4
    <3> QED
      BY <3>3, <3>4, <3>5, MappedIsList DEF IsPlain
  <2> HIDE DEF Rows
  <2>4. rows = [n \in DOMAIN names |-> rows[n]] /\ \A n \in DOMAIN names : IsPlain(rows[n])
    BY <2>3
  <2> HIDE DEF rows
  <2> QED
    BY <2>1, <2>2, <2>4, FlatIsPlain
<1>4. IsPlain(EntRows(list))
  <2>1. PICK t : t = EntRows(list)
    OBVIOUS
  <2>2. DOMAIN t = DOMAIN list /\ t = [n \in DOMAIN list |-> t[n]] /\ \A n \in DOMAIN list : t[n].do = "ent"
    BY <2>1 DEF EntRows
  <2> QED
    BY <1>1, <2>1, <2>2, MappedIsList DEF IsPlain
<1>5. IsPlain(AttrRows(m, list))
  <2> DEFINE Cols(n) == m.tables[list[n]].columns
             Rows(n) == [k \in DOMAIN Cols(n) |->
                           [do |-> "attr", id |-> list[n], column |-> [Cols(n)[k] EXCEPT !.nr = k, !.unit = NoText]]]
             rows == [n \in DOMAIN list |-> Rows(n)]
  <2>1. AttrRows(m, list) = FlattenSeq(rows)
    BY DEF AttrRows
  <2>2. ASSUME NEW n \in DOMAIN list
        PROVE  IsPlain(Rows(n))
    <3>1. IsList(Cols(n))
      BY <1>2
    <3>2. PICK t : t = Rows(n)
      OBVIOUS
    <3> HIDE DEF Cols
    <3>3. DOMAIN t = DOMAIN Cols(n) /\ t = [k \in DOMAIN Cols(n) |-> t[k]] /\ \A k \in DOMAIN Cols(n) : t[k].do = "attr"
      BY <3>2
    <3> QED
      BY <3>1, <3>2, <3>3, MappedIsList DEF IsPlain
  <2> HIDE DEF Rows
  <2>3. rows = [n \in DOMAIN list |-> rows[n]] /\ \A n \in DOMAIN list : IsPlain(rows[n])
    BY <2>2
  <2> HIDE DEF rows
  <2> QED
    BY <1>1, <2>1, <2>3, FlatIsPlain
<1>6. ASSUME NEW S \in SUBSET DOMAIN m.relations, NEW t, DOMAIN t = DOMAIN SetToSeq(S),
             t = [n \in DOMAIN SetToSeq(S) |-> t[n]]
      PROVE  IsList(t)
  <2>1. IsFiniteSet(S)
    BY FS_Subset DEF IsSound
  <2>2. IsList(SetToSeq(S))
    BY <2>1, SetToSeqIsList
  <2> QED
    BY <1>6, <2>2, MappedIsList
<1>7. IsPlain(RefRows(m))
  <2>1. PICK S : S = {r \in DOMAIN m.relations : m.relations[r].table1 > 0 /\ m.relations[r].table2 > 0}
    OBVIOUS
  <2>2. PICK t : t = RefRows(m)
    OBVIOUS
  <2>3. t = [n \in DOMAIN SetToSeq(S) |-> [do |-> "ref", name |-> SetToSeq(S)[n], row |-> m.relations[SetToSeq(S)[n]]]]
    BY <2>1, <2>2 DEF RefRows
  <2>4. S \in SUBSET DOMAIN m.relations
    BY <2>1
  <2>5. DOMAIN t = DOMAIN SetToSeq(S) /\ t = [n \in DOMAIN SetToSeq(S) |-> t[n]] /\ \A n \in DOMAIN t : t[n].do = "ref"
    BY <2>3
  <2> QED
    BY <1>6, <2>2, <2>4, <2>5 DEF IsPlain
<1>8. IsPlain(RelationTables(m))
  <2>1. PICK S : S = {r \in DOMAIN m.relations :
                        /\ m.relations[r].db # ""
                        /\ {m.relations[r].table1, m.relations[r].table2} \subseteq DOMAIN m.tables}
    OBVIOUS
  <2>2. PICK t : t = RelationTables(m)
    OBVIOUS
  <2>3. t = [n \in DOMAIN SetToSeq(S) |-> [do |-> "relation", rel |-> m.relations[SetToSeq(S)[n]]]]
    BY <2>1, <2>2 DEF RelationTables
  <2>4. S \in SUBSET DOMAIN m.relations
    BY <2>1
  <2>5. DOMAIN t = DOMAIN SetToSeq(S) /\ t = [n \in DOMAIN SetToSeq(S) |-> t[n]] /\ \A n \in DOMAIN t : t[n].do = "relation"
    BY <2>3
  <2> QED
    BY <1>6, <2>2, <2>4, <2>5 DEF IsPlain
<1>9. IsPlain(TableRows(m, list))
  <2> DEFINE rows == [n \in DOMAIN list |->
                        IF m.tables[list[n]].db = "" \/ m.tables[list[n]].columns = << >> THEN << >>
                        ELSE <<[do |-> "table", id |-> list[n]]>>]
  <2>1. TableRows(m, list) = FlattenSeq(rows)
    BY DEF TableRows
  <2>2. \A n \in DOMAIN list : IsPlain(rows[n])
    <3> SUFFICES ASSUME NEW n \in DOMAIN list PROVE IsPlain(rows[n])
      OBVIOUS
    <3>1. PICK x : x = [do |-> "table", id |-> list[n]]
      OBVIOUS
    <3>2. rows[n] = << >> \/ rows[n] = <<x>>
      BY <3>1
    <3>3. x.do = "table"
      BY <3>1
    <3> QED
      BY <3>2, <3>3, PlainLists
  <2>3. rows = [n \in DOMAIN list |-> rows[n]]
    OBVIOUS
  <2> HIDE DEF rows
  <2> QED
    BY <1>1, <2>1, <2>2, <2>3, FlatIsPlain
<1>10. IsList(Places(m, list))
  <2> DEFINE Cols(n) == m.tables[list[n]].columns
             Rows(n) == [k \in DOMAIN Cols(n) |-> <<list[n], k>>]
             rows == [n \in DOMAIN list |-> Rows(n)]
  <2>1. Places(m, list) = FlattenSeq(rows)
    BY DEF Places
  <2>2. ASSUME NEW n \in DOMAIN list
        PROVE  IsList(Rows(n))
    <3>1. IsList(Cols(n))
      BY <1>2
    <3>2. PICK t : t = Rows(n)
      OBVIOUS
    <3> HIDE DEF Cols
    <3>3. DOMAIN t = DOMAIN Cols(n) /\ t = [k \in DOMAIN Cols(n) |-> t[k]]
      BY <3>2
    <3> QED
      BY <3>1, <3>2, <3>3, MappedIsList
  <2> HIDE DEF Rows
  <2>3. rows = [n \in DOMAIN list |-> rows[n]] /\ \A n \in DOMAIN list : IsList(rows[n])
    BY <2>2
  <2> HIDE DEF rows
  <2> QED
    BY <1>1, <2>1, <2>3, FlatIsList
<1>11. ASSUME NEW name
       PROVE  IsPlain(Make(name))
  <2>1. PICK x : x = [do |-> "make", table |-> name]
    OBVIOUS
  <2>2. x.do = "make"
    BY <2>1
  <2> QED
    BY <2>1, <2>2, PlainLists DEF Make
<1> QED
  BY <1>3, <1>4, <1>5, <1>7, <1>8, <1>9, <1>10, <1>11

LEMMA UnitsAreList ==
  ASSUME NEW m, NEW places, IsList(places), NEW u
  PROVE  IsList(UnitsOf(m, places, u))
<1> DEFINE Link(n) == [do |-> "unit", at |-> places[n], table |-> m.tables[u].db, unit |-> UnitAt(m, places[n])]
           Row(n) == [do |-> "insert", table |-> m.tables[u].db,
                      row |-> NameRow(m, m.tables[u], UnitAt(m, places[n]))]
           rows == [n \in DOMAIN places |->
                      IF UnitAt(m, places[n]) = NoText THEN << >>
                      ELSE IF \E k \in 1..(n - 1) : UnitAt(m, places[k]) = UnitAt(m, places[n]) THEN <<Link(n)>>
                      ELSE <<Row(n), Link(n)>>]
<1>1. \/ UnitsOf(m, places, u) = << >> \/ UnitsOf(m, places, u) = FlattenSeq(rows)
      \/ UnitsOf(m, places, u) = <<[do |-> "refuse"]>>
  BY DEF UnitsOf
<1> HIDE DEF Link, Row
<1>2. \A n \in DOMAIN places : IsList(rows[n])
  BY ShortLists
<1>3. rows = [n \in DOMAIN places |-> rows[n]]
  OBVIOUS
<1> HIDE DEF rows
<1>4. IsList(FlattenSeq(rows))
  BY <1>2, <1>3, FlatIsList
<1> QED
  BY <1>1, <1>4, ShortLists

LEMMA StatementsAreList ==
  ASSUME NEW m, IsSound(m)
  PROVE  IsList(Statements(m))
<1>1. PICK list : list = AllTables(m.tables)
  OBVIOUS
<1>2. /\ IsList(EnumRows(m)) /\ IsList(EntRows(list)) /\ IsList(AttrRows(m, list))
      /\ IsList(RefRows(m)) /\ IsList(TableRows(m, list)) /\ IsList(RelationTables(m))
      /\ IsList(Places(m, list)) /\ \A name : IsList(Make(name))
  BY <1>1, RowsArePlain DEF IsPlain
<1>3. IsList(UnitRows(m, list)) /\ \A e : IsList(EnvRow(m, e))
  BY <1>2, UnitsAreList, ShortLists DEF UnitRows, EnvRow
<1> DEFINE Of(step, rows) == [n \in DOMAIN rows |-> [step |-> step, statement |-> rows[n]]]
<1>4. ASSUME NEW step, NEW rows, IsList(rows)
       PROVE  IsList(Of(step, rows))
  <2>1. PICK t : t = Of(step, rows)
    OBVIOUS
  <2>2. DOMAIN t = DOMAIN rows /\ t = [n \in DOMAIN rows |-> t[n]]
    BY <2>1
  <2> QED
    BY <1>4, <2>1, <2>2, MappedIsList
<1>5. /\ IsList(Of("enum", Make("SVCENUM") \o EnumRows(m))) /\ IsList(Of("ent", Make("SVCENT") \o EntRows(list)))
       /\ IsList(Of("attr", Make("SVCATTR") \o AttrRows(m, list)))
       /\ IsList(Of("ref", Make("SVCREF") \o RefRows(m)))
       /\ IsList(Of("tables", TableRows(m, list))) /\ IsList(Of("relations", RelationTables(m)))
       /\ IsList(Of("units", UnitRows(m, list)))
       /\ IsList(Of("env", EnvRow(m, GetTableByBaseId(m.tables, "AoEnvironment"))))
  <2> HIDE DEF Of
  <2> QED
    BY <1>2, <1>3, <1>4, ListConcat
<1>6. Statements(m) = Of("enum", Make("SVCENUM") \o EnumRows(m)) \o Of("ent", Make("SVCENT") \o EntRows(list))
      \o Of("attr", Make("SVCATTR") \o AttrRows(m, list)) \o Of("ref", Make("SVCREF") \o RefRows(m))
      \o Of("tables", TableRows(m, list)) \o Of("relations", RelationTables(m))
      \o Of("units", UnitRows(m, list))
      \o Of("env", EnvRow(m, GetTableByBaseId(m.tables, "AoEnvironment")))
  BY <1>1 DEF Statements
<1> HIDE DEF Of
<1> QED
  BY <1>5, <1>6, ListConcat

-----------------------------------------------------------------------------
(***************************************************************************)
(* Databases.                                                              *)
(***************************************************************************)
\* A table without rows has never had one.
IsFresh(db) == \A name \in DOMAIN db.tables : DOMAIN db.tables[name].rows = {} => db.tables[name].last = 0

\* What a statement, a scope, or a series of them may do to a database.
Grows(db, new) ==
  /\ IsDatabase(new) /\ new.kind = db.kind
  /\ IsFresh(db) => IsFresh(new)
  /\ \A name \in DOMAIN db.tables :
       /\ name \in DOMAIN new.tables
       /\ \A i \in DOMAIN db.tables[name].rows :
            /\ i \in DOMAIN new.tables[name].rows
            /\ new.tables[name].rows[i] = db.tables[name].rows[i]

\* The databases have the same service tables and the same tables.
SameTables(db, new) == new.svc = db.svc /\ DOMAIN new.tables = DOMAIN db.tables

LEMMA GrowsSame == ASSUME NEW db, IsDatabase(db) PROVE Grows(db, db)
BY DEF Grows

LEMMA GrowsOn ==
  ASSUME NEW a, NEW b, NEW c, Grows(a, b), Grows(b, c)
  PROVE  Grows(a, c)
BY DEF Grows

\* A database that differs in other fields than its tables.
LEMMA OtherFieldsGrow ==
  ASSUME NEW db, IsDatabase(db), NEW new,
         DOMAIN new = DOMAIN db, new.tables = db.tables, new.kind = db.kind
  PROVE  Grows(db, new)
BY DEF Grows, IsDatabase, IsFresh

LEMMA InsertFacts ==
  ASSUME NEW db, IsDatabase(db), NEW name \in DOMAIN db.tables, NEW row
  PROVE  Grows(db, Insert(db, name, row)) /\ SameTables(db, Insert(db, name, row))
<1>1. PICK new, t, id : new = Insert(db, name, row) /\ t = db.tables[name] /\ id = t.last + 1
  OBVIOUS
<1>2. PICK rows : rows = [i \in DOMAIN t.rows \cup {id} |-> IF i = id THEN Stored(db, row) ELSE t.rows[i]]
  OBVIOUS
<1>3. PICK u : u = [t EXCEPT !.last = id, !.rows = rows]
  OBVIOUS
<1>4. new = [db EXCEPT !.tables[name] = u]
  BY <1>1, <1>2, <1>3 DEF Insert
<1>5. IsTable(t)
  BY <1>1 DEF IsDatabase
<1>6. DOMAIN u = DOMAIN t /\ u.last = id /\ u.rows = rows
  BY <1>3, <1>5 DEF IsTable
<1>7. IsTable(u)
  BY <1>1, <1>2, <1>5, <1>6 DEF IsTable
<1>8. id \notin DOMAIN t.rows
  BY <1>1, <1>5 DEF IsTable
<1>9. /\ DOMAIN new = DOMAIN db /\ new.svc = db.svc /\ new.kind = db.kind /\ DOMAIN new.tables = DOMAIN db.tables
      /\ new.tables[name] = u /\ \A n \in DOMAIN db.tables : n # name => new.tables[n] = db.tables[n]
  BY <1>4 DEF IsDatabase
<1>10. IsDatabase(new)
  BY <1>7, <1>9 DEF IsDatabase
<1>11. \A i \in DOMAIN t.rows : i \in DOMAIN u.rows /\ u.rows[i] = t.rows[i]
  BY <1>2, <1>6, <1>8
<1>12. IsFresh(db) => IsFresh(new)
  <2>1. DOMAIN u.rows # {}
    BY <1>2, <1>6
  <2> QED
    BY <1>9, <2>1 DEF IsFresh
<1> QED
  BY <1>1, <1>9, <1>10, <1>11, <1>12 DEF Grows, SameTables

\* A statement that neither makes a table nor inserts a row leaves the tables alone.
LEMMA TablesUntouched ==
  ASSUME NEW db, IsDatabase(db), NEW m, NEW s, s.do \notin {"table", "insert"}
  PROVE  /\ DOMAIN Done(db, m, s) = DOMAIN db /\ Done(db, m, s).kind = db.kind
         /\ Done(db, m, s).tables = db.tables
<1>1. CASE s.do = "make"
  BY <1>1 DEF Done, IsDatabase
<1>2. CASE s.do = "enum"
  BY <1>2 DEF Done, IsDatabase
<1>3. CASE s.do = "ent"
  BY <1>3 DEF Done, IsDatabase
<1>4. CASE s.do = "attr"
  BY <1>4 DEF Done, IsDatabase
<1>5. CASE s.do = "ref"
  BY <1>5 DEF Done, IsDatabase
<1>6. CASE s.do = "relation"
  BY <1>6 DEF Done, IsDatabase
<1>7. CASE s.do \notin {"make", "enum", "ent", "attr", "ref", "relation"}
  <2>1. Done(db, m, s) = SetUnit(db, s)
    BY <1>7 DEF Done
  <2> QED
    BY <2>1 DEF SetUnit, IsDatabase
<1> QED
  BY <1>1, <1>2, <1>3, <1>4, <1>5, <1>6, <1>7

\* A table that is made is empty; one that is there stays as it is.
LEMMA TableMade ==
  ASSUME NEW db, IsDatabase(db), NEW m, NEW s, s.do = "table"
  PROVE  LET new == Done(db, m, s)
             t == m.tables[s.id]
         IN  /\ DOMAIN new = DOMAIN db /\ new.kind = db.kind
             /\ new.tables = [n \in DOMAIN db.tables \cup {t.db} |->
                                IF n \in DOMAIN db.tables THEN db.tables[n] ELSE NewTable(m, t)]
<1>1. PICK t, more : t = m.tables[s.id] /\ more = NewTable(m, t)
  OBVIOUS
<1>2. PICK new : new = Done(db, m, s)
  OBVIOUS
<1>3. new = [db EXCEPT !.tables = [n \in DOMAIN db.tables \cup {t.db} |->
                                     IF n \in DOMAIN db.tables THEN db.tables[n] ELSE more]]
  BY <1>1, <1>2 DEF Done
<1> QED
  BY <1>1, <1>2, <1>3 DEF IsDatabase

LEMMA DoneGrows ==
  ASSUME NEW db, IsDatabase(db), NEW m, NEW s, ~Fails(db, m, s)
  PROVE  Grows(db, Done(db, m, s))
<1>1. PICK new : new = Done(db, m, s)
  OBVIOUS
<1>2. ASSUME s.do \notin {"table", "insert"}
      PROVE  DOMAIN new = DOMAIN db /\ new.kind = db.kind /\ new.tables = db.tables
  BY <1>1, <1>2, TablesUntouched
<1>3. CASE s.do = "table"
  <2>1. PICK t, more : t = m.tables[s.id] /\ more = NewTable(m, t)
    OBVIOUS
  <2>2. IsTable(more) /\ more.last = 0
    BY <2>1 DEF NewTable, IsTable
  <2>3. /\ DOMAIN new = DOMAIN db /\ new.kind = db.kind
        /\ new.tables = [n \in DOMAIN db.tables \cup {t.db} |->
                           IF n \in DOMAIN db.tables THEN db.tables[n] ELSE more]
    BY <1>1, <1>3, <2>1, TableMade
  <2>4. \A n \in DOMAIN new.tables : IsTable(new.tables[n])
    BY <2>2, <2>3 DEF IsDatabase
  <2>5. \A n \in DOMAIN db.tables : n \in DOMAIN new.tables /\ new.tables[n] = db.tables[n]
    BY <2>3
  <2> QED
    <3>1. IsFresh(db) => IsFresh(new)
      BY <2>2, <2>3 DEF IsFresh
    <3> QED
      BY <1>1, <2>3, <2>4, <2>5, <3>1 DEF Grows, IsDatabase
<1>4. CASE s.do = "insert"
  <2>1. new = Insert(db, s.table, s.row)
    BY <1>1, <1>4 DEF Done
  <2>2. ~Refused(db, s.table, s.row, TRUE)
    BY <1>4 DEF Fails
  <2>3. s.table \in DOMAIN db.tables
    BY <2>2 DEF Refused
  <2> QED
    BY <1>1, <2>1, <2>3, InsertFacts
<1> QED
  BY <1>1, <1>2, <1>3, <1>4, OtherFieldsGrow

-----------------------------------------------------------------------------
(***************************************************************************)
(* The model that ReadModel finds.  Rows decide the title and the units    *)
(* that it has, never its tables: they are those of the service tables.    *)
(***************************************************************************)
LEMMA SameShape ==
  ASSUME NEW db, IsService(db.svc), NEW new, SameTables(db, new)
  PROVE  Shape(ReadSvcAttrTable(new)) = Shape(ReadSvcAttrTable(db))
<1> DEFINE svc == db.svc
           ents == svc.ents
           Flat(d) == [i \in DOMAIN ents |->
                         WithColumns(d, ents[i], AttrsOf(svc, i), UnitTable(ents))]
           Tables(d) == Nested(Flat(d))
<1>1. ReadSvcAttrTable(db) = Tables(db) /\ ReadSvcAttrTable(new) = Tables(new)
  BY DEF ReadSvcAttrTable, ReadSvcEntTable, SameTables
<1>2. ASSUME NEW d, NEW i \in DOMAIN ents
      PROVE  /\ Flat(d)[i].at = ParentOf(AttrsOf(svc, i))
             /\ Flat(d)[i].parent = ParentOf(AttrsOf(svc, i))
             /\ Flat(d)[i].db = ents[i].db
             /\ Flat(d)[i].columns =
                  [n \in DOMAIN AttrsOf(svc, i) |->
                     FixUnitString(d, UnitTable(ents), AttrsOf(svc, i)[n])]
  <2>1. {"at", "parent", "db", "columns"} \subseteq DOMAIN ents[i]
    BY DEF IsService
  <2>2. PICK e, a, c : /\ e = ents[i] /\ a = ParentOf(AttrsOf(svc, i))
                       /\ c = [n \in DOMAIN AttrsOf(svc, i) |->
                                 FixUnitString(d, UnitTable(ents), AttrsOf(svc, i)[n])]
    OBVIOUS
  <2>3. Flat(d)[i] = [e EXCEPT !.at = a, !.parent = a, !.columns = c]
    BY <2>2 DEF WithColumns
  <2> QED
    BY <2>1, <2>2, <2>3
<1>3. ASSUME NEW d, NEW i \in DOMAIN ents
      PROVE  References(Flat(d)[i]) =
               {AttrsOf(svc, i)[n].column.ref :
                  n \in {k \in DOMAIN AttrsOf(svc, i) : /\ AttrsOf(svc, i)[k].column.ref # 0
                                                        /\ AttrsOf(svc, i)[k].column.stored}}
  <2>1. PICK attrs, unit, cols :
          /\ attrs = AttrsOf(svc, i) /\ unit = UnitTable(ents)
          /\ cols = [n \in DOMAIN attrs |-> FixUnitString(d, unit, attrs[n])]
    OBVIOUS
  <2>2. \A n \in DOMAIN attrs : /\ cols[n].ref = attrs[n].column.ref
                                /\ cols[n].stored = attrs[n].column.stored
    BY <2>1 DEF FixUnitString, IsService
  <2>3. Flat(d)[i].columns = cols
    BY <1>2, <2>1
  <2>4. ToSet(cols) = {cols[n] : n \in DOMAIN attrs}
    BY <2>1 DEF ToSet
  <2> DEFINE seen == {k \in DOMAIN attrs : attrs[k].column.ref # 0 /\ attrs[k].column.stored}
  <2>5. {c \in ToSet(cols) : c.ref # 0 /\ c.stored} = {cols[n] : n \in seen}
    BY <2>2, <2>4
  <2>6. References(Flat(d)[i]) = {c.ref : c \in {cols[n] : n \in seen}}
    BY <2>3, <2>5 DEF References
  <2>7. {c.ref : c \in {cols[n] : n \in seen}} = {attrs[n].column.ref : n \in seen}
    BY <2>2
  <2> QED
    BY <2>1, <2>6, <2>7
<1>4. ASSUME NEW d
      PROVE  [i \in DOMAIN Flat(d) |-> Flat(d)[i].parent] =
               [i \in DOMAIN ents |-> ParentOf(AttrsOf(svc, i))]
  <2>1. DOMAIN Flat(d) = DOMAIN ents
    OBVIOUS
  <2>2. \A i \in DOMAIN ents : Flat(d)[i].parent = ParentOf(AttrsOf(svc, i))
    BY <1>2
  <2> HIDE DEF Flat, svc, ents
  <2> QED
    BY <2>1, <2>2
<1> DEFINE placed == Placed([i \in DOMAIN ents |-> ParentOf(AttrsOf(svc, i))])
<1>5. placed \subseteq DOMAIN ents
  BY DEF Placed
<1>6. ASSUME NEW d
      PROVE  Tables(d) = [i \in placed |-> Flat(d)[i]]
  BY <1>4 DEF Nested
<1> HIDE DEF placed, Flat, Tables
<1>7. ASSUME NEW i \in placed
      PROVE  /\ Tables(new)[i].at = Tables(db)[i].at /\ Tables(new)[i].db = Tables(db)[i].db
             /\ References(Tables(new)[i]) = References(Tables(db)[i])
  <2>1. Tables(new)[i] = Flat(new)[i] /\ Tables(db)[i] = Flat(db)[i]
    BY <1>6
  <2>2. i \in DOMAIN ents
    BY <1>5
  <2>3. \A d : Flat(d)[i].at = ParentOf(AttrsOf(svc, i)) /\ Flat(d)[i].db = ents[i].db
    BY <1>2, <2>2
  <2>4. References(Flat(new)[i]) = References(Flat(db)[i])
    BY <1>3, <2>2
  <2> HIDE DEF svc, ents
  <2> QED
    BY <2>1, <2>3, <2>4
<1>8. DOMAIN Tables(new) = placed /\ DOMAIN Tables(db) = placed
  BY <1>6
<1> QED
  BY <1>1, <1>7, <1>8 DEF Shape

\* A model whose list of AllTables has exactly the tables of a database.
Lists(T, db) ==
  /\ InDatabase(T) \subseteq Nat
  /\ \A n \in InDatabase(T) : T[AllTables(T)[n]].db \in DOMAIN db.tables
  /\ \A name \in DOMAIN db.tables : \E n \in InDatabase(T) : T[AllTables(T)[n]].db = name

LEMMA ListsAgain ==
  ASSUME NEW db \in Sources, NEW new, SameTables(db, new)
  PROVE  Lists(ReadSvcAttrTable(new), new)
<1> DEFINE T == ReadSvcAttrTable(db)
           U == ReadSvcAttrTable(new)
           list == AllTables(T)
<1>1. IsService(db.svc) /\ ListsItsTables(db)
  BY DumpAssumption
<1>2. Shape(U) = Shape(T)
  BY <1>1, SameShape
<1>3. AllTables(U) = list
  BY <1>2 DEF AllTables
<1>4. DOMAIN db.tables = {T[i].db : i \in ToSet(list)} \ {""}
  BY <1>1 DEF ListsItsTables
<1>5. DOMAIN U = DOMAIN T /\ \A i \in DOMAIN T : U[i].db = T[i].db
  <2>1. PICK s : s = Shape(T)
    OBVIOUS
  <2>2. DOMAIN U = DOMAIN s /\ \A i \in DOMAIN U : s[i].db = U[i].db
    BY <1>2, <2>1 DEF Shape
  <2>3. DOMAIN T = DOMAIN s /\ \A i \in DOMAIN T : s[i].db = T[i].db
    BY <2>1 DEF Shape
  <2> QED
    BY <2>2, <2>3
<1>6. DOMAIN list \subseteq Nat /\ \A n \in DOMAIN list : list[n] \in DOMAIN T
  <2>1. IsTree(T)
    BY <1>1, TablesReadAreSound
  <2>2. IsList(list) /\ \A n \in DOMAIN list : list[n] \in DOMAIN T
    <3> HIDE DEF T
    <3> QED
      BY <2>1, AllTablesIsList
  <2> HIDE DEF T, list
  <2> QED
    BY <2>2 DEF IsList
<1>7. DOMAIN new.tables = {T[list[n]].db : n \in DOMAIN list} \ {""}
  <2> HIDE DEF T, list
  <2>1. {T[i].db : i \in ToSet(list)} = {T[list[n]].db : n \in DOMAIN list}
    BY DEF ToSet
  <2> QED
    BY <1>4, <2>1 DEF SameTables
<1> HIDE DEF T, U, list
<1>8. InDatabase(U) = {n \in DOMAIN list : T[list[n]].db # ""}
  BY <1>3, <1>5, <1>6 DEF InDatabase
<1>9. \A n \in DOMAIN list : U[AllTables(U)[n]].db = T[list[n]].db
  BY <1>3, <1>5, <1>6
<1>10. Lists(U, new)
  BY <1>6, <1>7, <1>8, <1>9 DEF Lists
<1> QED
  BY <1>10 DEF U

-----------------------------------------------------------------------------
(***************************************************************************)
(* The rows of a table in a file: every row is there, at the place that    *)
(* the number of smaller ids gives it.                                     *)
(***************************************************************************)
LEMMA RowsAreFinite ==
  ASSUME NEW t, IsTable(t)
  PROVE  IsFiniteSet(DOMAIN t.rows)
<1>1. t.last \in Nat /\ DOMAIN t.rows \in SUBSET (1 .. t.last)
  BY DEF IsTable
<1>2. IsFiniteSet(1 .. t.last)
  BY <1>1, FS_Interval
<1> QED
  BY <1>1, <1>2, FS_Subset

\* The ids smaller than another one are fewer.
LEMMA RankGrows ==
  ASSUME NEW S \in SUBSET Nat, IsFiniteSet(S), NEW i \in S, NEW j \in S, i < j
  PROVE  /\ Cardinality({k \in S : k < i}) \in Nat /\ Cardinality({k \in S : k < j}) \in Nat
         /\ Cardinality({k \in S : k < i}) < Cardinality({k \in S : k < j})
<1> DEFINE A == {k \in S : k < i}
           B == {k \in S : k < j}
<1>1. IsFiniteSet(B) /\ A \in SUBSET B /\ A # B
  <2>1. i \in Nat /\ j \in Nat /\ \A k \in S : k \in Nat
    OBVIOUS
  <2>2. A \in SUBSET B
    <3>1. ASSUME NEW k \in S, k < i
          PROVE  k < j
      BY <2>1, <3>1
    <3> QED
      BY <3>1
  <2>3. B \in SUBSET S /\ i \in B /\ i \notin A
    BY <2>1
  <2> HIDE DEF A, B
  <2> QED
    BY <2>2, <2>3, FS_Subset
<1> HIDE DEF A, B
<1>2. IsFiniteSet(A) /\ Cardinality(A) <= Cardinality(B) /\ Cardinality(A) # Cardinality(B)
  BY <1>1, FS_Subset
<1>3. Cardinality(A) \in Nat /\ Cardinality(B) \in Nat
  BY <1>1, <1>2, FS_CardinalityType
<1>4. Cardinality(A) < Cardinality(B)
  BY <1>2, <1>3
<1> QED
  BY <1>3, <1>4 DEF A, B

LEMMA DbtRowsFacts ==
  ASSUME NEW t, IsTable(t)
  PROVE  LET list == DbtRows(t.rows)
         IN  /\ Len(list) = Cardinality(DOMAIN t.rows) /\ Len(list) \in Nat
             /\ DOMAIN list = 1 .. Len(list)
             /\ \A id \in DOMAIN t.rows : \E n \in DOMAIN list : list[n].id = id
<1> DEFINE ids == DOMAIN t.rows
           N == Cardinality(ids)
           Rank(id) == Cardinality({i \in ids : i < id})
           Id(n) == CHOOSE id \in ids : Rank(id) = n - 1
           list == DbtRows(t.rows)
<1>1. IsFiniteSet(ids) /\ ids \in SUBSET Nat
  BY RowsAreFinite DEF IsTable
<1>2. N \in Nat
  BY <1>1, FS_CardinalityType
<1>3. list = [n \in 1 .. N |-> [id |-> Id(n), row |-> t.rows[Id(n)]]]
  BY DEF DbtRows
<1> HIDE DEF N, list
<1>4. DOMAIN list = 1 .. N /\ Len(list) = N
  BY <1>2, <1>3
<1>5. \A i, j \in ids : i < j => Rank(i) \in Nat /\ Rank(j) \in Nat /\ Rank(i) < Rank(j)
  <2> SUFFICES ASSUME NEW i \in ids, NEW j \in ids, i < j
               PROVE  Rank(i) \in Nat /\ Rank(j) \in Nat /\ Rank(i) < Rank(j)
    OBVIOUS
  <2> HIDE DEF ids
  <2> QED
    BY <1>1, RankGrows
<1>6. ASSUME NEW id \in ids
      PROVE  \E n \in 1 .. N : list[n].id = id
  <2>1. Rank(id) \in Nat /\ Rank(id) + 1 \in 1 .. N
    <3>1. PICK A : A = {i \in ids : i < id}
      OBVIOUS
    <3>2. A \in SUBSET ids /\ id \in ids /\ id \notin A
      BY <1>1, <3>1
    <3>3. IsFiniteSet(A) /\ Cardinality(A) <= N /\ Cardinality(A) # N
      BY <1>1, <3>2, FS_Subset DEF N
    <3>4. Cardinality(A) \in Nat
      BY <3>3, FS_CardinalityType
    <3> QED
      BY <1>2, <3>1, <3>3, <3>4
  <2>2. PICK n : n = Rank(id) + 1
    OBVIOUS
  <2>3. n \in 1 .. N /\ Rank(id) = n - 1
    BY <1>2, <2>1, <2>2
  <2>4. Id(n) \in ids /\ Rank(Id(n)) = n - 1
    BY <2>3
  <2>5. Id(n) = id
    <3>1. PICK j : j = Id(n)
      OBVIOUS
    <3>2. j \in ids /\ Rank(j) = Rank(id)
      BY <2>3, <2>4, <3>1
    <3>3. j \in Nat /\ id \in Nat
      BY <1>1, <3>2
    <3>4. j < id \/ id < j \/ j = id
      BY <3>3
    <3>5. ~(j < id) /\ ~(id < j)
      <4> HIDE DEF Rank
      <4> QED
        BY <1>5, <3>2
    <3> QED
      BY <3>1, <3>4, <3>5
  <2>6. list[n].id = Id(n)
    BY <1>3, <2>3
  <2> QED
    BY <2>3, <2>5, <2>6
<1>7. /\ Len(list) = N /\ Len(list) \in Nat /\ DOMAIN list = 1 .. Len(list)
      /\ \A id \in ids : \E n \in DOMAIN list : list[n].id = id
  BY <1>2, <1>4, <1>6
<1> QED
  BY <1>7 DEF list, N

\* The rows of a file are those of the table, each of them once.
LEMMA DbtRowsAre ==
  ASSUME NEW t, IsTable(t)
  PROVE  LET list == DbtRows(t.rows)
         IN  /\ IsList(list)
             /\ \A n \in DOMAIN list : list[n].id \in DOMAIN t.rows /\ list[n].row = t.rows[list[n].id]
             /\ \A n, k \in DOMAIN list : list[n].id = list[k].id => n = k
<1> DEFINE ids == DOMAIN t.rows
           N == Cardinality(ids)
           Rank(id) == Cardinality({i \in ids : i < id})
           Id(n) == CHOOSE id \in ids : Rank(id) = n - 1
           list == DbtRows(t.rows)
<1>1. IsFiniteSet(ids) /\ ids \in SUBSET Nat
  BY RowsAreFinite DEF IsTable
<1>2. N \in Nat
  BY <1>1, FS_CardinalityType
<1>3. list = [n \in 1 .. N |-> [id |-> Id(n), row |-> t.rows[Id(n)]]]
  BY DEF DbtRows
<1>4. ASSUME NEW id \in ids
      PROVE  Rank(id) \in 0 .. (N - 1)
  <2>1. PICK A : A = {i \in ids : i < id}
    OBVIOUS
  <2>2. A \in SUBSET ids /\ id \in ids /\ id \notin A
    BY <1>1, <2>1
  <2>3. IsFiniteSet(A) /\ Cardinality(A) <= N /\ Cardinality(A) # N
    BY <1>1, <2>2, FS_Subset
  <2>4. Cardinality(A) \in Nat
    BY <2>3, FS_CardinalityType
  <2> HIDE DEF N
  <2> QED
    BY <1>2, <2>1, <2>3, <2>4
<1>5. ASSUME NEW i \in ids, NEW j \in ids, Rank(i) = Rank(j)
      PROVE  i = j
  <2>1. i \in Nat /\ j \in Nat
    BY <1>1
  <2>2. ASSUME NEW a \in ids, NEW b \in ids, a < b
        PROVE  Rank(a) < Rank(b)
    <3> HIDE DEF ids
    <3> QED
      BY <1>1, <2>2, RankGrows
  <2>3. Rank(i) \in Nat
    <3> HIDE DEF Rank, N
    <3> QED
      BY <1>2, <1>4
  <2>4. ~(i < j) /\ ~(j < i)
    <3> HIDE DEF Rank
    <3> QED
      BY <1>5, <2>2, <2>3
  <2> QED
    BY <2>1, <2>4
<1>6. \A n \in 1 .. N : \E id \in ids : Rank(id) = n - 1
  <2>1. PICK f : f = [id \in ids |-> Rank(id)]
    OBVIOUS
  <2> HIDE DEF Rank
  <2>2. f \in Injection(ids, 0 .. (N - 1))
    <3>1. f \in [ids -> 0 .. (N - 1)]
      BY <1>4, <2>1
    <3>2. \A i, j \in ids : f[i] = f[j] => i = j
      BY <1>5, <2>1
    <3> QED
      BY <3>1, <3>2 DEF Injection, IsInjective
  <2>3. IsFiniteSet(0 .. (N - 1)) /\ Cardinality(0 .. (N - 1)) = N
    <3> HIDE DEF N
    <3> QED
      BY <1>2, FS_Interval
  <2>4. f \in Surjection(ids, 0 .. (N - 1))
    BY <2>2, <2>3, FS_Injection
  <2>5. \A k \in 0 .. (N - 1) : \E id \in ids : f[id] = k
    BY <2>4 DEF Surjection
  <2> HIDE DEF N
  <2> QED
    BY <1>2, <2>1, <2>5
<1>7. ASSUME NEW n \in 1 .. N
      PROVE  Id(n) \in ids /\ Rank(Id(n)) = n - 1
  <2> HIDE DEF Rank, ids, N
  <2> QED
    BY <1>6
<1> HIDE DEF Rank, Id, N
<1>8. DOMAIN list = 1 .. N /\ \A n \in DOMAIN list : list[n].id = Id(n) /\ list[n].row = t.rows[Id(n)]
  <2> HIDE DEF list
  <2> QED
    BY <1>3
<1>9. IsList(list)
  <2> HIDE DEF list
  <2>1. list = [n \in 1 .. N |-> list[n]]
    BY <1>3
  <2> QED
    BY <1>2, <2>1, ListOf
<1> HIDE DEF list, ids
<1>10. ASSUME NEW n \in DOMAIN list, NEW k \in DOMAIN list, list[n].id = list[k].id
       PROVE  n = k
  <2>1. n - 1 = k - 1
    BY <1>7, <1>8, <1>10
  <2> QED
    BY <1>2, <1>8, <2>1
<1>11. \A n \in DOMAIN list : list[n].id \in ids /\ list[n].row = t.rows[list[n].id]
  BY <1>7, <1>8
<1> QED
  BY <1>9, <1>10, <1>11 DEF list, ids

-----------------------------------------------------------------------------
(***************************************************************************)
(* The dump: what is still to be dumped, and what the files have.          *)
(***************************************************************************)
\* The source has the tables that it had at first: other programs write rows.
SourceInv ==
  /\ IsDatabase(source)
  /\ \E db \in Sources : SameTables(db, source)

DirsInv ==
  /\ \E S : dirs \in Seq(S)
  /\ \A d \in DOMAIN dirs : DOMAIN dirs[d] = {"model", "dbt"}

StableInv ==
  \A name \in DOMAIN stable :
    name \in DOMAIN source.tables /\ stable[name] \subseteq DOMAIN source.tables[name].rows

TableOf(n) == dumping.model.tables[AllTables(dumping.model.tables)[n]].db

\* The file of a table has all the stable rows but those that a failed write has lost.
Covered(name) == \A i \in stable[name] : <<name, i>> \in lost \/ \E r \in DbtOf(Newest, name) : r.id = i

\* As long as nothing has failed, a table is covered or still to come.
DumpingInv ==
  \/ dumping.at = "idle"
  \/ dumping.at = "model" /\ Newest > 0
  \/ /\ DOMAIN dumping = {"at", "model", "ok", "left"} /\ dumping.at = "tables" /\ Newest > 0
     /\ dumping.left \subseteq Nat
     /\ \A n \in dumping.left : TableOf(n) \in DOMAIN source.tables
     /\ dumping.ok => \A name \in DOMAIN stable : Covered(name) \/ \E n \in dumping.left : TableOf(n) = name

DumpInv == SourceInv /\ DirsInv /\ StableInv /\ DumpingInv

LEMMA DirsFacts ==
  ASSUME DirsInv
  PROVE  Newest \in Nat /\ DOMAIN dirs = 1 .. Newest
BY DEF DirsInv, Newest

LEMMA DumpInitial == Init => DumpInv
<1> SUFFICES ASSUME Init PROVE DumpInv
  OBVIOUS
<1>1. SourceInv
  BY DumpAssumption DEF Init, SourceInv, SameTables
<1>2. DirsInv
  <2>1. dirs \in Seq({})
    BY DEF Init
  <2>2. DOMAIN dirs = {}
    BY DEF Init
  <2> QED
    BY <2>1, <2>2 DEF DirsInv
<1>3. StableInv
  BY DEF Init, StableInv
<1>4. DumpingInv
  BY DEF Init, DumpingInv, Idle
<1> QED
  BY <1>1, <1>2, <1>3, <1>4 DEF DumpInv

LEMMA DumpUnchanged == DumpInv /\ UNCHANGED onDump => DumpInv'
<1> SUFFICES ASSUME DumpInv, UNCHANGED onDump PROVE DumpInv'
  OBVIOUS
<1>1. /\ source' = source /\ dirs' = dirs /\ stable' = stable /\ lost' = lost /\ dumping' = dumping
  BY DEF onDump
<1>2. SourceInv'
  BY <1>1 DEF DumpInv, SourceInv
<1>3. DirsInv'
  BY <1>1 DEF DumpInv, DirsInv
<1>4. StableInv'
  BY <1>1 DEF DumpInv, StableInv
<1>5. DumpingInv'
  BY <1>1 DEF DumpInv, DumpingInv, TableOf, Covered, DbtOf, Newest
<1> QED
  BY <1>2, <1>3, <1>4, <1>5 DEF DumpInv

\* Nobody but the dump changes its state, apart from other programs and the end of the process.
LEMMA OthersLeaveDump ==
  \/ WriteTarget \/ ReadInDumpFiles \/ ReadTargetModel \/ Create \/ CheckEmpty
  \/ ReadInTable \/ EndRead \/ CreateDb
  => UNCHANGED onDump
BY DEF WriteTarget, ReadInDumpFiles, ReadTargetModel, Create, CheckEmpty, ReadInTable, EndRead,
       CreateDb

LEMMA DeletedFacts ==
  ASSUME NEW db, IsDatabase(db), NEW name \in DOMAIN db.tables, NEW id
  PROVE  LET new == Deleted(db, name, id)
         IN  /\ IsDatabase(new) /\ SameTables(db, new)
             /\ DOMAIN new.tables[name].rows = DOMAIN db.tables[name].rows \ {id}
             /\ \A n \in DOMAIN db.tables : n # name => new.tables[n] = db.tables[n]
<1>1. PICK new, t, rows : /\ new = Deleted(db, name, id) /\ t = db.tables[name]
                          /\ rows = [i \in DOMAIN t.rows \ {id} |-> t.rows[i]]
  OBVIOUS
<1>2. PICK u : u = [t EXCEPT !.rows = rows]
  OBVIOUS
<1>3. new = [db EXCEPT !.tables[name] = u]
  BY <1>1, <1>2 DEF Deleted, IsDatabase
<1>4. IsTable(t)
  BY <1>1 DEF IsDatabase
<1>5. DOMAIN u = DOMAIN t /\ u.last = t.last /\ u.rows = rows
  BY <1>2, <1>4 DEF IsTable
<1>6. IsTable(u)
  BY <1>1, <1>4, <1>5 DEF IsTable
<1>7. /\ DOMAIN new = DOMAIN db /\ new.svc = db.svc /\ DOMAIN new.tables = DOMAIN db.tables
      /\ new.tables[name] = u /\ \A n \in DOMAIN db.tables : n # name => new.tables[n] = db.tables[n]
  BY <1>3 DEF IsDatabase
<1>8. IsDatabase(new)
  BY <1>6, <1>7 DEF IsDatabase
<1>9. DOMAIN new.tables[name].rows = DOMAIN t.rows \ {id}
  BY <1>1, <1>5, <1>7
<1> QED
  BY <1>1, <1>7, <1>8, <1>9 DEF SameTables

LEMMA WriteSourceKeepsDump == DumpInv /\ WriteSource => DumpInv'
<1> SUFFICES ASSUME DumpInv, WriteSource PROVE DumpInv'
  OBVIOUS
<1>1. UNCHANGED <<dirs, lost, dumping>>
  BY DEF WriteSource
<1>2. ASSUME IsDatabase(source'), SameTables(source, source'), StableInv',
             DOMAIN stable' = DOMAIN stable, \A name \in DOMAIN stable : stable'[name] \subseteq stable[name]
      PROVE  DumpInv'
  <2>1. SourceInv'
    BY <1>2 DEF DumpInv, SourceInv, SameTables
  <2>2. DirsInv'
    BY <1>1 DEF DumpInv, DirsInv
  <2>3. \A name \in DOMAIN stable : Covered(name) => Covered(name)'
    BY <1>1, <1>2 DEF Covered, DbtOf, Newest
  <2>4. DumpingInv'
    BY <1>1, <1>2, <2>3 DEF DumpInv, DumpingInv, TableOf, Newest, SameTables
  <2> QED
    BY <1>2, <2>1, <2>2, <2>4 DEF DumpInv
<1>3. ASSUME NEW w \in Writes, source' \in Inserted(source, w), UNCHANGED stable
      PROVE  DumpInv'
  <2>1. source' = Insert(source, w[1], w[2]) /\ w[1] \in DOMAIN source.tables
    BY <1>3 DEF Inserted, Refused
  <2>2. Grows(source, source') /\ SameTables(source, source')
    BY <2>1, InsertFacts DEF DumpInv, SourceInv
  <2>3. StableInv'
    BY <1>3, <2>2 DEF DumpInv, StableInv, Grows
  <2> QED
    BY <1>2, <1>3, <2>2, <2>3 DEF Grows
<1>4. ASSUME NEW name \in DOMAIN source.tables, NEW id \in DOMAIN source.tables[name].rows,
             source' = Deleted(source, name, id),
             stable' = IF name \in DOMAIN stable THEN [stable EXCEPT ![name] = @ \ {id}] ELSE stable
      PROVE  DumpInv'
  <2>1. /\ IsDatabase(source') /\ SameTables(source, source')
        /\ DOMAIN source'.tables[name].rows = DOMAIN source.tables[name].rows \ {id}
        /\ \A n \in DOMAIN source.tables : n # name => source'.tables[n] = source.tables[n]
    BY <1>4, DeletedFacts DEF DumpInv, SourceInv
  <2>2. /\ DOMAIN stable' = DOMAIN stable
        /\ \A n \in DOMAIN stable : stable'[n] = IF n = name THEN stable[n] \ {id} ELSE stable[n]
    BY <1>4
  <2>3. StableInv'
    BY <2>1, <2>2 DEF DumpInv, StableInv, SameTables
  <2> QED
    BY <1>2, <2>1, <2>2, <2>3
<1> QED
  BY <1>3, <1>4 DEF WriteSource

LEMMA CreateDumpDirKeepsDump == DumpInv /\ CreateDumpDir => DumpInv'
<1> SUFFICES ASSUME DumpInv, CreateDumpDir PROVE DumpInv'
  OBVIOUS
<1>1. /\ dirs' = Append(dirs, NoDir) /\ dumping' = [at |-> "model"] /\ source' = source
      /\ stable' = [name \in DOMAIN source.tables |-> DOMAIN source.tables[name].rows]
  BY DEF CreateDumpDir
<1>2. PICK S : dirs \in Seq(S)
  BY DEF DumpInv, DirsInv
<1>3. DirsInv'
  <2>1. dirs' \in Seq(S \cup {NoDir})
    BY <1>1, <1>2
  <2>2. /\ DOMAIN dirs' = 1 .. (Len(dirs) + 1) /\ dirs'[Len(dirs) + 1] = NoDir
        /\ \A d \in 1 .. Len(dirs) : dirs'[d] = dirs[d]
    BY <1>1, <1>2
  <2>3. DOMAIN NoDir = {"model", "dbt"}
    BY DEF NoDir
  <2>4. DOMAIN dirs = 1 .. Len(dirs) /\ Len(dirs) \in Nat
    BY <1>2
  <2>5. \A d \in DOMAIN dirs' : DOMAIN dirs'[d] = {"model", "dbt"}
    <3> SUFFICES ASSUME NEW d \in DOMAIN dirs' PROVE DOMAIN dirs'[d] = {"model", "dbt"}
      OBVIOUS
    <3>1. CASE d = Len(dirs) + 1
      BY <2>2, <2>3, <3>1
    <3>2. CASE d # Len(dirs) + 1
      <4>1. d \in DOMAIN dirs
        BY <2>2, <2>4, <3>2
      <4> QED
        BY <2>2, <2>4, <4>1 DEF DumpInv, DirsInv
    <3> QED
      BY <3>1, <3>2
  <2> QED
    BY <2>1, <2>5 DEF DirsInv
<1>4. Newest' > 0
  BY <1>1, <1>2 DEF Newest
<1>5. SourceInv'
  BY <1>1 DEF DumpInv, SourceInv
<1>6. StableInv'
  BY <1>1 DEF StableInv
<1>7. DumpingInv'
  BY <1>1, <1>4 DEF DumpingInv
<1> QED
  BY <1>3, <1>5, <1>6, <1>7 DEF DumpInv

\* Writing to a file of the newest directory.
LEMMA DirsChanged ==
  ASSUME DirsInv, Newest > 0, NEW d, DOMAIN d = {"model", "dbt"}
  PROVE  LET new == [dirs EXCEPT ![Newest] = d]
         IN  /\ \E S : new \in Seq(S)
             /\ Len(new) = Newest /\ new[Newest] = d
             /\ \A n \in DOMAIN new : DOMAIN new[n] = {"model", "dbt"}
<1>1. PICK S : dirs \in Seq(S)
  BY DEF DirsInv
<1>2. PICK new : new = [dirs EXCEPT ![Newest] = d]
  OBVIOUS
<1>3. DOMAIN dirs = 1 .. Newest /\ Newest \in Nat /\ Newest \in DOMAIN dirs
  BY DirsFacts
<1>4. DOMAIN new = 1 .. Newest /\ \A n \in 1 .. Newest : new[n] = IF n = Newest THEN d ELSE dirs[n]
  BY <1>2, <1>3
<1>5. new = [n \in 1 .. Newest |-> new[n]]
  BY <1>2, <1>3
<1>6. \A n \in 1 .. Newest : new[n] \in S \cup {d}
  BY <1>1, <1>3, <1>4
<1>7. new \in [1 .. Newest -> S \cup {d}]
  BY <1>5, <1>6
<1>8. new \in Seq(S \cup {d}) /\ Len(new) = Newest
  BY <1>3, <1>7
<1>9. \A n \in DOMAIN new : DOMAIN new[n] = {"model", "dbt"}
  BY <1>3, <1>4 DEF DirsInv
<1> QED
  BY <1>2, <1>3, <1>4, <1>8, <1>9

LEMMA ModelLists ==
  ASSUME SourceInv, NEW m, m = ReadDatabaseModel(source) \/ m \in PartModels(source)
  PROVE  Lists(m.tables, source)
<1>1. PICK db \in Sources : SameTables(db, source)
  BY DEF SourceInv
<1>2. ASSUME NEW new, SameTables(source, new)
      PROVE  Lists(ReadDatabaseModel(new).tables, source)
  <2>1. SameTables(db, new)
    BY <1>1, <1>2 DEF SameTables
  <2>2. Lists(ReadSvcAttrTable(new), new)
    BY <2>1, ListsAgain
  <2>3. ReadDatabaseModel(new).tables = ReadSvcAttrTable(new)
    BY DEF ReadDatabaseModel, ModelOf
  <2> QED
    BY <1>2, <2>2, <2>3 DEF Lists, SameTables
<1>3. CASE m = ReadDatabaseModel(source)
  BY <1>2, <1>3 DEF SameTables
<1>4. CASE m \in PartModels(source)
  <2> DEFINE Without(names) ==
               [source EXCEPT !.tables = [name \in DOMAIN @ |->
                  IF name \in names THEN [@[name] EXCEPT !.rows = << >>] ELSE @[name]]]
  <2>1. PICK names : m = ReadDatabaseModel(Without(names))
    BY <1>4 DEF PartModels
  <2>2. SameTables(source, Without(names))
    BY DEF SourceInv, IsDatabase, SameTables
  <2> HIDE DEF Without
  <2> QED
    BY <1>2, <2>1, <2>2
<1> QED
  BY <1>3, <1>4

LEMMA DumpModelKeepsDump == DumpInv /\ DumpModel => DumpInv'
<1> SUFFICES ASSUME DumpInv, DumpModel PROVE DumpInv'
  OBVIOUS
<1>1. UNCHANGED <<source, stable>> /\ Newest > 0 /\ Newest \in Nat /\ Newest \in DOMAIN dirs
  <2>1. dumping.at = "model"
    BY DEF DumpModel
  <2>2. Newest > 0
    BY <2>1 DEF DumpInv, DumpingInv
  <2> QED
    BY <2>2, DirsFacts DEF DumpModel, DumpInv
<1>2. SourceInv' /\ StableInv'
  BY <1>1 DEF DumpInv, SourceInv, StableInv
<1>3. CASE dumping' = Idle /\ UNCHANGED dirs
  BY <1>2, <1>3 DEF DumpInv, DirsInv, DumpingInv, Idle
<1>4. ASSUME NEW m, m = ReadDatabaseModel(source) \/ m \in PartModels(source), SaveModelFile(m),
             dumping' = [at |-> "tables", model |-> m, ok |-> TRUE, left |-> InDatabase(m.tables)]
      PROVE  DumpInv'
  <2>1. PICK d : d = [dirs[Newest] EXCEPT !.model = SaveModel(m)]
    OBVIOUS
  <2>2. dirs' = [dirs EXCEPT ![Newest] = d] /\ DOMAIN d = {"model", "dbt"}
    BY <1>1, <1>4, <2>1 DEF SaveModelFile, DumpInv, DirsInv
  <2>3. DirsInv' /\ Newest' = Newest
    BY <1>1, <2>2, DirsChanged DEF DumpInv, DirsInv, Newest
  <2>4. Lists(m.tables, source)
    BY <1>4, ModelLists DEF DumpInv
  <2>5. \A n : TableOf(n)' = m.tables[AllTables(m.tables)[n]].db
    BY <1>4 DEF TableOf
  <2>6. /\ DOMAIN dumping' = {"at", "model", "ok", "left"} /\ dumping'.at = "tables"
        /\ dumping'.left = InDatabase(m.tables)
    BY <1>4
  <2>7. \A name \in DOMAIN stable' : name \in DOMAIN source.tables
    BY <1>1 DEF DumpInv, StableInv
  <2>8. DumpingInv'
    BY <1>1, <2>3, <2>4, <2>5, <2>6, <2>7 DEF DumpingInv, Lists
  <2> QED
    BY <1>2, <2>3, <2>8 DEF DumpInv
<1> QED
  BY <1>3, <1>4 DEF DumpModel

LEMMA PartIsList ==
  ASSUME NEW s, IsList(s), NEW n \in 0 .. Len(s)
  PROVE  IsList(SubSeq(s, 1, n))
<1>1. PICK X : s \in Seq(X)
  <2>1. \A k \in 1 .. Len(s) : s[k] \in {s[j] : j \in 1 .. Len(s)}
    OBVIOUS
  <2> QED
    BY <2>1, ListIsSeq
<1>2. SubSeq(s, 1, n) \in Seq(X)
  BY <1>1
<1> QED
  BY <1>2, ListIsSeq

LEMMA FirstOfConcat ==
  ASSUME NEW s, NEW t, IsList(s), IsList(t), NEW k \in 1 .. Len(s)
  PROVE  k \in DOMAIN (s \o t) /\ (s \o t)[k] = s[k]
<1> DEFINE X == {s[n] : n \in DOMAIN s} \cup {t[n] : n \in DOMAIN t}
<1>1. s \in Seq(X) /\ t \in Seq(X)
  <2>1. (\A n \in 1 .. Len(s) : s[n] \in X) /\ \A n \in 1 .. Len(t) : t[n] \in X
    BY DEF IsList
  <2> HIDE DEF X
  <2> QED
    BY <2>1, ListIsSeq
<1> HIDE DEF X
<1> QED
  BY <1>1

\* The newest directory after the file of a table has been written.
WithFile(name, list) ==
  [dirs EXCEPT ![Newest].dbt = [f \in DOMAIN @ \cup {name} |-> IF f = name THEN list ELSE @[f]]]

LEMMA WithFileFacts ==
  ASSUME DirsInv, Newest > 0, NEW name, NEW list, dirs' = WithFile(name, list)
  PROVE  /\ DirsInv' /\ Newest' = Newest
         /\ DbtOf(Newest, name)' = ToSet(list)
         /\ \A other : other # name => DbtOf(Newest, other)' = DbtOf(Newest, other)
<1>1. PICK old, dbt : old = dirs[Newest] /\ dbt = [f \in DOMAIN old.dbt \cup {name} |->
                                                  IF f = name THEN list ELSE old.dbt[f]]
  OBVIOUS
<1>2. PICK d : d = [old EXCEPT !.dbt = dbt]
  OBVIOUS
<1>3. Newest \in DOMAIN dirs /\ Newest \in Nat
  BY DirsFacts
<1>4. DOMAIN d = {"model", "dbt"} /\ d.dbt = dbt
  BY <1>1, <1>2, <1>3 DEF DirsInv
<1>5. dirs' = [dirs EXCEPT ![Newest] = d]
  BY <1>1, <1>2 DEF WithFile
<1>6. DirsInv' /\ Newest' = Newest /\ dirs'[Newest].dbt = dbt
  BY <1>3, <1>4, <1>5, DirsChanged DEF DirsInv, Newest
<1>7. DbtOf(Newest, name)' = ToSet(list)
  BY <1>1, <1>6 DEF DbtOf
<1>8. ASSUME NEW other, other # name
      PROVE  DbtOf(Newest, other)' = DbtOf(Newest, other)
  BY <1>1, <1>6, <1>8 DEF DbtOf
<1> QED
  BY <1>6, <1>7, <1>8

\* The first table that is left is done: the others are as they were.
LEMMA NextTableDone ==
  ASSUME DumpInv, dumping.at = "tables", dumping.left # {}, NEW ok, NEW next, next = NextTable,
         dumping' = [dumping EXCEPT !.left = @ \ {Min(@)}, !.ok = @ /\ ok],
         UNCHANGED <<source, stable>>, lost \subseteq lost', DirsInv', Newest' = Newest,
         \A name : name # next => DbtOf(Newest, name)' = DbtOf(Newest, name),
         ok => next \notin DOMAIN stable \/ Covered(next)'
  PROVE  DumpInv'
<1> DEFINE k == Min(dumping.left)
<1>1. /\ DOMAIN dumping = {"at", "model", "ok", "left"} /\ Newest > 0
      /\ dumping.left \subseteq Nat
      /\ \A n \in dumping.left : TableOf(n) \in DOMAIN source.tables
      /\ dumping.ok => \A name \in DOMAIN stable :
                         Covered(name) \/ \E n \in dumping.left : TableOf(n) = name
  BY DEF DumpInv, DumpingInv
<1>2. k \in dumping.left /\ TableOf(k) = next
  BY <1>1, MinIsElement DEF TableOf, NextTable
<1> HIDE DEF k
<1>3. /\ DOMAIN dumping' = {"at", "model", "ok", "left"} /\ dumping'.at = "tables"
      /\ dumping'.left = dumping.left \ {k} /\ dumping'.model = dumping.model
      /\ dumping'.ok = (dumping.ok /\ ok)
  BY <1>1 DEF k
<1>4. \A n : TableOf(n)' = TableOf(n)
  BY <1>3 DEF TableOf
<1>5. ASSUME NEW name, name # next, Covered(name)
      PROVE  Covered(name)'
  BY <1>5 DEF Covered
<1>6. ASSUME dumping'.ok, NEW name \in DOMAIN stable'
      PROVE  Covered(name)' \/ \E n \in dumping'.left : TableOf(n)' = name
  <2>1. dumping.ok /\ ok
    BY <1>3, <1>6
  <2>2. CASE name = next
    BY <1>6, <2>1, <2>2
  <2>3. CASE name # next
    <3>1. Covered(name) \/ \E n \in dumping.left : TableOf(n) = name
      BY <1>1, <1>6, <2>1
    <3> QED
      BY <1>2, <1>3, <1>4, <1>5, <2>3, <3>1
  <2> QED
    BY <2>2, <2>3
<1>7. DumpingInv'
  BY <1>1, <1>3, <1>4, <1>6 DEF DumpingInv
<1> QED
  BY <1>7 DEF DumpInv, SourceInv, StableInv

LEMMA DumpTableKeepsDump == DumpInv /\ DumpTable => DumpInv'
<1> SUFFICES ASSUME DumpInv, DumpTable PROVE DumpInv'
  OBVIOUS
<1>1. PICK name, rows, list :
        name = NextTable /\ rows = source.tables[name].rows /\ list = DbtRows(rows)
  OBVIOUS
<1> DEFINE Go(ok) == dumping' = [dumping EXCEPT !.left = @ \ {Min(@)}, !.ok = @ /\ ok]
<1>2. /\ UNCHANGED <<source, stable>> /\ lost \subseteq lost' /\ dumping.at = "tables" /\ dumping.left # {}
      /\ Newest > 0 /\ DirsInv
  BY DEF DumpTable, DumpInv, DumpingInv
<1>3. name \in DOMAIN source.tables
  BY <1>2, <1>1, MinIsElement DEF DumpInv, DumpingInv, TableOf, NextTable
<1>4. IsTable(source.tables[name])
  BY <1>3 DEF DumpInv, SourceInv, IsDatabase
<1>5. /\ Len(list) = Cardinality(DOMAIN rows) /\ Len(list) \in Nat /\ DOMAIN list = 1 .. Len(list)
      /\ \A id \in DOMAIN rows : \E n \in DOMAIN list : list[n].id = id
  BY <1>4, <1>1, DbtRowsFacts
<1>6. /\ SourceInv' /\ StableInv'
  BY <1>2 DEF DumpInv, SourceInv, StableInv
<1>7. ASSUME UNCHANGED dirs
      PROVE  DirsInv' /\ Newest' = Newest /\ \A other : DbtOf(Newest, other)' = DbtOf(Newest, other)
  BY <1>2, <1>7 DEF DirsInv, Newest, DbtOf
<1>8. ASSUME NEW file, dirs' = WithFile(name, file)
      PROVE  /\ DirsInv' /\ Newest' = Newest
             /\ \A other : other # name => DbtOf(Newest, other)' = DbtOf(Newest, other)
             /\ DbtOf(Newest, name)' = ToSet(file)
  BY <1>2, <1>8, WithFileFacts
<1>9. CASE dumping' = Idle /\ DirsInv'
  BY <1>6, <1>9 DEF DumpInv, DumpingInv, Idle
<1>10. ASSUME Go(FALSE), DirsInv', Newest' = Newest,
             \A other : other # name => DbtOf(Newest, other)' = DbtOf(Newest, other)
      PROVE  DumpInv'
  BY <1>2, <1>10, <1>1, NextTableDone
\* Without a fault.
<1>11. CASE /\ Go(Count(source, name) = 0 \/ FetchItems(source, list) > 0)
            /\ dirs' = IF Count(source, name) = 0 THEN dirs ELSE WithFile(name, SubSeq(list, 1, Len(list)))
  <2> DEFINE ok == Count(source, name) = 0 \/ FetchItems(source, list) > 0
  <2>1. CASE Count(source, name) = 0
    <3>1. DOMAIN rows = {}
      <4>1. IsFiniteSet(DOMAIN rows) /\ Cardinality(DOMAIN rows) = 0
        BY <1>4, <1>1, <2>1, RowsAreFinite DEF Count
      <4> QED
        BY <4>1, FS_EmptySet
    <3>2. name \notin DOMAIN stable \/ Covered(name)'
      <4>1. name \in DOMAIN stable => stable[name] = {}
        BY <1>1, <3>1 DEF DumpInv, StableInv
      <4> QED
        BY <1>2, <4>1 DEF Covered
    <3>3. UNCHANGED dirs
      BY <1>11, <2>1
    <3> QED
      BY <1>2, <1>7, <1>11, <3>2, <3>3, <1>1, NextTableDone
  <2>2. CASE Count(source, name) # 0
    <3>1. dirs' = WithFile(name, SubSeq(list, 1, Len(list)))
      BY <1>11, <2>2
    <3>3. /\ DirsInv' /\ Newest' = Newest
          /\ \A other : other # name => DbtOf(Newest, other)' = DbtOf(Newest, other)
          /\ DbtOf(Newest, name)' = ToSet(SubSeq(list, 1, Len(list)))
      BY <1>8, <3>1
    <3>4. ASSUME NEW id \in DOMAIN rows
          PROVE  \E r \in ToSet(SubSeq(list, 1, Len(list))) : r.id = id
      <4>1. PICK n \in 1 .. Len(list) : list[n].id = id
        BY <1>5
      <4>2. /\ n \in DOMAIN SubSeq(list, 1, Len(list))
            /\ SubSeq(list, 1, Len(list))[n] = list[n]
        BY <1>5
      <4> QED
        BY <4>1, <4>2 DEF ToSet
    <3>5. name \notin DOMAIN stable \/ Covered(name)'
      <4>1. name \in DOMAIN stable => stable[name] \subseteq DOMAIN rows
        BY <1>1 DEF DumpInv, StableInv
      <4> QED
        BY <1>2, <3>3, <3>4, <4>1 DEF Covered
    <3> QED
      BY <1>2, <1>11, <3>3, <3>5, <1>1, NextTableDone
  <2> QED
    BY <2>1, <2>2
<1>12. CASE Go(FALSE) /\ UNCHANGED dirs
  BY <1>7, <1>10, <1>12
<1>13. CASE dumping' = Idle /\ UNCHANGED dirs
  BY <1>7, <1>9, <1>13
<1>14. ASSUME NEW n \in 0 .. Len(list) - 1, dirs' = WithFile(name, SubSeq(list, 1, n)),
              Go(FALSE) \/ dumping' = Idle
       PROVE  DumpInv'
  BY <1>8, <1>9, <1>10, <1>14
\* A write that fails: what is behind it is lost.
<1>15. ASSUME NEW n \in 0 .. Len(list) - 1, NEW torn \in TornLines(list[n + 1]),
              Go(Count(source, name) = 0 \/ FetchItems(source, list) > 0),
              dirs' = WithFile(name, SubSeq(list, 1, n) \o torn), lost' = lost \cup LostRows(name, list, n)
       PROVE  DumpInv'
  <2>1. PICK part, file, ok : /\ part = SubSeq(list, 1, n) /\ file = part \o torn
                              /\ ok = (Count(source, name) = 0 \/ FetchItems(source, list) > 0)
    OBVIOUS
  <2>2. /\ DirsInv' /\ Newest' = Newest
        /\ \A other : other # name => DbtOf(Newest, other)' = DbtOf(Newest, other)
        /\ DbtOf(Newest, name)' = ToSet(file)
    BY <1>8, <1>15, <2>1
  <2>3. /\ n \in 0 .. Len(list) /\ IsList(part) /\ IsList(torn) /\ Len(part) = n
        /\ \A k \in 1 .. n : part[k] = list[k]
    <3>1. IsList(list)
      BY <1>1, <1>4, DbtRowsAre
    <3>2. IsList(torn)
      BY ShortLists DEF TornLines
    <3> QED
      BY <1>5, <2>1, <3>1, <3>2, PartIsList DEF IsList
  <2>4. ASSUME NEW id \in DOMAIN rows
        PROVE  <<name, id>> \in lost' \/ \E r \in ToSet(file) : r.id = id
    <3>1. PICK k \in 1 .. Len(list) : list[k].id = id
      BY <1>5
    <3>2. CASE k > n
      <4>1. k \in n + 1 .. Len(list)
        BY <1>5, <3>2
      <4> QED
        BY <1>15, <3>1, <4>1 DEF LostRows
    <3>3. CASE ~(k > n)
      <4>1. k \in 1 .. n
        BY <1>5, <3>3
      <4>2. k \in DOMAIN file /\ file[k] = part[k]
        BY <2>1, <2>3, <4>1, FirstOfConcat
      <4> QED
        BY <2>3, <3>1, <4>1, <4>2 DEF ToSet
    <3> QED
      BY <3>2, <3>3
  <2>5. name \notin DOMAIN stable \/ Covered(name)'
    <3>1. name \in DOMAIN stable => stable[name] \subseteq DOMAIN rows
      BY <1>1 DEF DumpInv, StableInv
    <3> QED
      BY <1>2, <2>2, <2>4, <3>1 DEF Covered
  <2>6. Go(ok)
    BY <1>15, <2>1
  <2> QED
    BY <1>2, <2>2, <2>5, <2>6, <1>1, NextTableDone
<1>16. LET rows1 == source.tables[NextTable].rows
           all == DbtRows(rows1)
           ok == Count(source, NextTable) = 0 \/ FetchItems(source, all) > 0
       IN  \/ Go(ok) /\ dirs' = IF Count(source, NextTable) = 0 THEN dirs
                                ELSE WithFile(NextTable, SubSeq(all, 1, Len(all)))
           \/ Go(FALSE) /\ UNCHANGED dirs
           \/ dumping' = Idle /\ UNCHANGED dirs
           \/ \E n \in 0 .. Len(all) - 1 :
                dirs' = WithFile(NextTable, SubSeq(all, 1, n)) /\ (Go(FALSE) \/ dumping' = Idle)
           \/ \E n \in 0 .. Len(all) - 1 : \E torn \in TornLines(all[n + 1]) :
                /\ Go(ok) /\ dirs' = WithFile(NextTable, SubSeq(all, 1, n) \o torn)
                /\ lost' = lost \cup LostRows(NextTable, all, n)
  BY Zenon DEF DumpTable, WithFile
<1> HIDE DEF Go
<1> QED
  BY <1>11, <1>12, <1>13, <1>14, <1>15, <1>16, <1>1

LEMMA DumpInductive == DumpInv /\ [Next]_vars => DumpInv'
<1> SUFFICES ASSUME DumpInv, [Next]_vars PROVE DumpInv'
  OBVIOUS
<1>1. CASE UNCHANGED vars
  BY <1>1, DumpUnchanged DEF vars, onDump
<1>2. CASE WriteSource
  BY <1>2, WriteSourceKeepsDump
<1>3. CASE CreateDumpDir
  BY <1>3, CreateDumpDirKeepsDump
<1>4. CASE DumpModel
  BY <1>4, DumpModelKeepsDump
<1>5. CASE DumpTable
  BY <1>5, DumpTableKeepsDump
<1>6. CASE EndDump \/ Crash
  <2>1. dumping' = Idle /\ UNCHANGED <<source, dirs, stable>>
    BY <1>6 DEF EndDump, Crash
  <2> QED
    BY <2>1 DEF DumpInv, SourceInv, DirsInv, StableInv, DumpingInv, Idle
<1>7. CASE \/ WriteTarget \/ ReadInDumpFiles \/ ReadTargetModel \/ Create \/ CheckEmpty
           \/ ReadInTable \/ EndRead \/ CreateDb
  BY <1>7, OthersLeaveDump, DumpUnchanged
<1> QED
  BY <1>1, <1>2, <1>3, <1>4, <1>5, <1>6, <1>7 DEF Next

\* Whatever other programs write while a dump runs, and whatever fails: a dump that
\* DumpDatabase reports has every row that was there from its begin to its end, unless a write
\* to a file has failed, of which it knows nothing; then it lacks no other rows than those from
\* that write to the end of the file.
THEOREM ReportedDumpsAreComplete == Spec => ReportedIsComplete
<1> DEFINE Complete ==
      \A d \in reported' \ reported : \A name \in DOMAIN stable : \A i \in stable[name] :
        <<name, i>> \in lost \/ \E r \in DbtOf(d, name) : r.id = i
<1>1. DumpInv /\ [Next]_vars => [Complete]_vars
  <2> SUFFICES ASSUME DumpInv, Next, NEW d \in reported' \ reported, NEW name \in DOMAIN stable
               PROVE  \A i \in stable[name] : <<name, i>> \in lost \/ \E r \in DbtOf(d, name) : r.id = i
    OBVIOUS
  <2>1. EndDump
    BY OthersLeaveDump
    DEF Next, WriteSource, CreateDumpDir, DumpModel, DumpTable, Crash, onDump
  <2>2. d = Newest /\ dumping.ok /\ dumping.at = "tables" /\ dumping.left = {}
    BY <2>1 DEF EndDump
  <2>3. Covered(name)
    BY <2>2 DEF DumpInv, DumpingInv
  <2> QED
    BY <2>2, <2>3 DEF Covered
<1> HIDE DEF Complete
<1>2. Spec => [][Complete]_vars
  BY <1>1, DumpInitial, DumpInductive, PTL DEF Spec
<1> QED
  BY <1>2 DEF ReportedIsComplete, Complete
-----------------------------------------------------------------------------
(***************************************************************************)
(* Whatever fails in them, Create and ReadInTable only add rows.           *)
(***************************************************************************)
\* Create runs the statements one after the other.
LEMMA CreateSteps ==
  ASSUME NEW db, NEW m, NEW statements, Len(statements) \in Nat, NEW broken
  PROVE  \E after :
           /\ after[0] = [db |-> db, failed |-> {}] /\ after[Len(statements)] = AllSteps(db, m, statements, broken)
           /\ \A n \in 1 .. Len(statements) : after[n] = Execute(m, broken, after[n - 1], statements[n], n)
<1> DEFINE N == Len(statements)
<1>1. PICK first : first = [db |-> db, failed |-> {}]
  OBVIOUS
<1> DEFINE G(f) == [n \in 0 .. N |-> IF n = 0 THEN first ELSE Execute(m, broken, f[n - 1], statements[n], n)]
           after == CHOOSE f : f = G(f)
           Holds(f, k) == /\ f = [i \in 0 .. k |-> f[i]] /\ f[0] = first
                          /\ \A i \in 1 .. k : f[i] = Execute(m, broken, f[i - 1], statements[i], i)
           T == {k \in 0 .. N : \E f : Holds(f, k)}
<1>2. AllSteps(db, m, statements, broken) = after[N]
  BY <1>1 DEF AllSteps
<1>3. N \in Nat
  OBVIOUS
<1> HIDE DEF N
<1>4. 0 \in T
  <2>1. PICK g : g = [i \in 0 .. 0 |-> first]
    OBVIOUS
  <2>2. Holds(g, 0)
    BY <2>1
  <2>3. 0 \in 0 .. N
    BY <1>3
  <2> HIDE DEF Holds
  <2> QED
    BY <2>2, <2>3
<1>5. ASSUME NEW k \in 0 .. N, k + 1 \in 0 .. N, k \in T
      PROVE  k + 1 \in T
  <2>1. PICK f : Holds(f, k)
    BY <1>5
  <2>2. PICK x : x = Execute(m, broken, f[k], statements[k + 1], k + 1)
    OBVIOUS
  <2>3. PICK g : g = [i \in 0 .. (k + 1) |-> IF i = k + 1 THEN x ELSE f[i]]
    OBVIOUS
  <2>4. k \in Nat
    BY <1>3
  <2>5. g = [i \in 0 .. (k + 1) |-> g[i]] /\ g[0] = first
    BY <2>1, <2>3, <2>4
  <2>6. ASSUME NEW i \in 1 .. (k + 1)
        PROVE  g[i] = Execute(m, broken, g[i - 1], statements[i], i)
    <3>1. g[i - 1] = f[i - 1]
      BY <2>3, <2>4
    <3>2. CASE i = k + 1
      <4>1. i - 1 = k
        BY <2>4, <3>2
      <4>2. g[i] = x
        BY <2>3, <3>2
      <4> QED
        BY <2>2, <3>1, <3>2, <4>1, <4>2
    <3>3. CASE i # k + 1
      <4>1. i \in 1 .. k /\ g[i] = f[i]
        BY <2>3, <2>4, <3>3
      <4> QED
        BY <2>1, <3>1, <4>1
    <3> QED
      BY <3>2, <3>3
  <2>7. Holds(g, k + 1)
    BY <2>5, <2>6
  <2> QED
    BY <1>5, <2>7
<1>6. N \in T
  <2> HIDE DEF T
  <2>1. 0 .. N \subseteq T
    BY <1>3, <1>4, <1>5, UpTo
  <2> QED
    BY <1>3, <2>1
<1>7. PICK f : Holds(f, N)
  BY <1>6
<1>8. f = G(f)
  <2>1. DOMAIN f = DOMAIN G(f)
    BY <1>7
  <2>2. ASSUME NEW n \in 0 .. N
        PROVE  f[n] = G(f)[n]
    <3>1. CASE n = 0
      BY <1>7, <3>1
    <3>2. CASE n # 0
      <4>1. n \in 1 .. N
        BY <1>3, <3>2
      <4> QED
        BY <1>7, <3>2, <4>1
    <3> QED
      BY <3>1, <3>2
  <2>3. f = [n \in 0 .. N |-> f[n]]
    BY <1>7
  <2> QED
    BY <2>1, <2>2, <2>3
<1>9. after = G(after)
  BY <1>8
<1>10. /\ after[0] = first
       /\ \A n \in 0 .. N : n # 0 => after[n] = Execute(m, broken, after[n - 1], statements[n], n)
  <2> HIDE DEF after
  <2> QED
    BY <1>3, <1>9
<1>11. /\ after[N] = AllSteps(db, m, statements, broken)
       /\ \A n \in 1 .. N : after[n] = Execute(m, broken, after[n - 1], statements[n], n)
  <2> HIDE DEF after
  <2> QED
    BY <1>2, <1>3, <1>10
<1> HIDE DEF after
<1> QED
  BY <1>1, <1>10, <1>11 DEF N


LEMMA CreatedGrows ==
  ASSUME NEW db, IsDatabase(db), NEW m, IsSound(m), NEW broken
  PROVE  Grows(db, Created(db, m, broken).db)
<1>1. PICK statements, N : statements = Statements(m) /\ N = Len(statements) /\ N \in Nat
  BY StatementsAreList DEF IsList
<1>2. PICK opened : opened = OpenEx(db)
  OBVIOUS
<1>3. Grows(db, opened)
  <2>1. opened = [db EXCEPT !.exists = TRUE]
    BY <1>2 DEF OpenEx
  <2>2. DOMAIN opened = DOMAIN db /\ opened.kind = db.kind /\ opened.tables = db.tables
    BY <2>1 DEF IsDatabase
  <2> QED
    BY <2>2, OtherFieldsGrow
<1>4. PICK after :
        /\ after[0] = [db |-> opened, failed |-> {}] /\ after[N] = AllSteps(opened, m, statements, broken)
        /\ \A n \in 1 .. N : after[n] = Execute(m, broken, after[n - 1], statements[n], n)
  BY <1>1, CreateSteps
<1> DEFINE Good(r) == DOMAIN r = {"db", "failed"} /\ Grows(opened, r.db)
           T == {n \in 0 .. N : Good(after[n])}
<1>5. 0 \in T
  <2>1. Grows(opened, opened)
    BY <1>3, GrowsSame DEF Grows
  <2> QED
    BY <1>1, <1>4, <2>1
<1>6. ASSUME NEW n \in 0 .. N, n + 1 \in 0 .. N, n \in T
      PROVE  n + 1 \in T
  <2>1. n + 1 \in 1 .. N /\ (n + 1) - 1 = n
    BY <1>1, <1>6
  <2>2. PICK r, s : r = after[n] /\ s = statements[n + 1]
    OBVIOUS
  <2>3. after[n + 1] = Execute(m, broken, r, s, n + 1) /\ Good(r)
    BY <1>4, <1>6, <2>1, <2>2
  <2>4. ASSUME NEW f
        PROVE  Good([r EXCEPT !.failed = f])
    BY <2>3
  <2>5. ASSUME ~Fails(r.db, m, s.statement)
        PROVE  Good([r EXCEPT !.db = Done(r.db, m, s.statement)])
    <3>1. PICK d : d = Done(r.db, m, s.statement)
      OBVIOUS
    <3>2. Grows(r.db, d)
      BY <2>3, <2>5, <3>1, DoneGrows DEF Grows
    <3>3. Grows(opened, d)
      BY <2>3, <3>2, GrowsOn
    <3> QED
      BY <2>3, <3>1, <3>3
  <2>6. Good(Execute(m, broken, r, s, n + 1))
    <3>1. \/ Execute(m, broken, r, s, n + 1) = r
          \/ \E f : Execute(m, broken, r, s, n + 1) = [r EXCEPT !.failed = f]
          \/ /\ ~Fails(r.db, m, s.statement)
             /\ Execute(m, broken, r, s, n + 1) = [r EXCEPT !.db = Done(r.db, m, s.statement)]
      BY DEF Execute
    <3> HIDE DEF Good
    <3> QED
      BY <2>3, <2>4, <2>5, <3>1
  <2> QED
    BY <1>6, <2>3, <2>6
<1>7. PICK all : all = AllSteps(opened, m, statements, broken) /\ Grows(opened, all.db)
  <2>1. N \in T
    <3> HIDE DEF T
    <3>1. 0 .. N \subseteq T
      BY <1>1, <1>5, <1>6, UpTo
    <3> QED
      BY <1>1, <3>1
  <2> QED
    BY <1>4, <2>1
<1>8. Created(db, m, broken).db = db \/ Created(db, m, broken).db = opened \/ Created(db, m, broken).db = all.db
  BY <1>1, <1>2, <1>7 DEF Created, Closed
<1> QED
  BY <1>3, <1>7, <1>8, GrowsOn, GrowsSame

\* What Inserts has done before a transaction is undone.
AllInserts(db, name, rows, broken, alone) ==
  LET after[n \in 0..Len(rows)] ==
        IF n = 0 THEN [db |-> db, fails |-> 0]
        ELSE InsertRow(name, broken, alone, after[n - 1], FetchDbtRow(rows[n].row), n)
  IN  after[Len(rows)]

\* ReadInTable inserts the rows one after the other.
LEMMA InsertSteps ==
  ASSUME NEW db, NEW name, NEW rows, Len(rows) \in Nat, NEW broken, NEW alone
  PROVE  \E after :
           /\ after[0] = [db |-> db, fails |-> 0] /\ after[Len(rows)] = AllInserts(db, name, rows, broken, alone)
           /\ \A n \in 1 .. Len(rows) : after[n] = InsertRow(name, broken, alone, after[n - 1], FetchDbtRow(rows[n].row), n)
<1> DEFINE N == Len(rows)
<1>1. PICK first : first = [db |-> db, fails |-> 0]
  OBVIOUS
<1> DEFINE G(f) == [n \in 0 .. N |-> IF n = 0 THEN first ELSE InsertRow(name, broken, alone, f[n - 1], FetchDbtRow(rows[n].row), n)]
           after == CHOOSE f : f = G(f)
           Holds(f, k) == /\ f = [i \in 0 .. k |-> f[i]] /\ f[0] = first
                          /\ \A i \in 1 .. k : f[i] = InsertRow(name, broken, alone, f[i - 1], FetchDbtRow(rows[i].row), i)
           T == {k \in 0 .. N : \E f : Holds(f, k)}
<1>2. AllInserts(db, name, rows, broken, alone) = after[N]
  BY <1>1 DEF AllInserts
<1>3. N \in Nat
  OBVIOUS
<1> HIDE DEF N
<1>4. 0 \in T
  <2>1. PICK g : g = [i \in 0 .. 0 |-> first]
    OBVIOUS
  <2>2. Holds(g, 0)
    BY <2>1
  <2>3. 0 \in 0 .. N
    BY <1>3
  <2> HIDE DEF Holds
  <2> QED
    BY <2>2, <2>3
<1>5. ASSUME NEW k \in 0 .. N, k + 1 \in 0 .. N, k \in T
      PROVE  k + 1 \in T
  <2>1. PICK f : Holds(f, k)
    BY <1>5
  <2>2. PICK x : x = InsertRow(name, broken, alone, f[k], FetchDbtRow(rows[k + 1].row), k + 1)
    OBVIOUS
  <2>3. PICK g : g = [i \in 0 .. (k + 1) |-> IF i = k + 1 THEN x ELSE f[i]]
    OBVIOUS
  <2>4. k \in Nat
    BY <1>3
  <2>5. g = [i \in 0 .. (k + 1) |-> g[i]] /\ g[0] = first
    BY <2>1, <2>3, <2>4
  <2>6. ASSUME NEW i \in 1 .. (k + 1)
        PROVE  g[i] = InsertRow(name, broken, alone, g[i - 1], FetchDbtRow(rows[i].row), i)
    <3>1. g[i - 1] = f[i - 1]
      BY <2>3, <2>4
    <3>2. CASE i = k + 1
      <4>1. i - 1 = k
        BY <2>4, <3>2
      <4>2. g[i] = x
        BY <2>3, <3>2
      <4> QED
        BY <2>2, <3>1, <3>2, <4>1, <4>2
    <3>3. CASE i # k + 1
      <4>1. i \in 1 .. k /\ g[i] = f[i]
        BY <2>3, <2>4, <3>3
      <4> QED
        BY <2>1, <3>1, <4>1
    <3> QED
      BY <3>2, <3>3
  <2>7. Holds(g, k + 1)
    BY <2>5, <2>6
  <2> QED
    BY <1>5, <2>7
<1>6. N \in T
  <2> HIDE DEF T
  <2>1. 0 .. N \subseteq T
    BY <1>3, <1>4, <1>5, UpTo
  <2> QED
    BY <1>3, <2>1
<1>7. PICK f : Holds(f, N)
  BY <1>6
<1>8. f = G(f)
  <2>1. DOMAIN f = DOMAIN G(f)
    BY <1>7
  <2>2. ASSUME NEW n \in 0 .. N
        PROVE  f[n] = G(f)[n]
    <3>1. CASE n = 0
      BY <1>7, <3>1
    <3>2. CASE n # 0
      <4>1. n \in 1 .. N
        BY <1>3, <3>2
      <4> QED
        BY <1>7, <3>2, <4>1
    <3> QED
      BY <3>1, <3>2
  <2>3. f = [n \in 0 .. N |-> f[n]]
    BY <1>7
  <2> QED
    BY <2>1, <2>2, <2>3
<1>9. after = G(after)
  BY <1>8
<1>10. /\ after[0] = first
       /\ \A n \in 0 .. N : n # 0 => after[n] = InsertRow(name, broken, alone, after[n - 1], FetchDbtRow(rows[n].row), n)
  <2> HIDE DEF after
  <2> QED
    BY <1>3, <1>9
<1>11. /\ after[N] = AllInserts(db, name, rows, broken, alone)
       /\ \A n \in 1 .. N : after[n] = InsertRow(name, broken, alone, after[n - 1], FetchDbtRow(rows[n].row), n)
  <2> HIDE DEF after
  <2> QED
    BY <1>2, <1>3, <1>10
<1> HIDE DEF after
<1> QED
  BY <1>1, <1>10, <1>11 DEF N


LEMMA InsertsGrow ==
  ASSUME NEW db, IsDatabase(db), NEW name, NEW rows, Len(rows) \in Nat, NEW broken, NEW alone
  PROVE  Grows(db, Inserts(db, name, rows, broken, alone).db)
<1>1. PICK N : N = Len(rows) /\ N \in Nat
  OBVIOUS
<1>2. PICK after :
        /\ after[0] = [db |-> db, fails |-> 0] /\ after[N] = AllInserts(db, name, rows, broken, alone)
        /\ \A n \in 1 .. N : after[n] = InsertRow(name, broken, alone, after[n - 1], FetchDbtRow(rows[n].row), n)
  BY <1>1, InsertSteps
<1> DEFINE Good(r) == DOMAIN r = {"db", "fails"} /\ Grows(db, r.db)
           T == {n \in 0 .. N : Good(after[n])}
<1>3. 0 \in T
  BY <1>1, <1>2, GrowsSame
<1>4. ASSUME NEW n \in 0 .. N, n + 1 \in 0 .. N, n \in T
      PROVE  n + 1 \in T
  <2>1. n + 1 \in 1 .. N /\ (n + 1) - 1 = n
    BY <1>1, <1>4
  <2>2. PICK r, row : r = after[n] /\ row = FetchDbtRow(rows[n + 1].row)
    OBVIOUS
  <2>3. after[n + 1] = InsertRow(name, broken, alone, r, row, n + 1) /\ Good(r)
    BY <1>2, <1>4, <2>1, <2>2
  <2>4. ASSUME NEW f
        PROVE  Good([r EXCEPT !.fails = f])
    BY <2>3
  <2>5. ASSUME name \in DOMAIN r.db.tables
        PROVE  Good([r EXCEPT !.db = Insert(r.db, name, row)])
    <3>1. PICK d : d = Insert(r.db, name, row)
      OBVIOUS
    <3>2. Grows(r.db, d)
      BY <2>3, <2>5, <3>1, InsertFacts DEF Grows
    <3>3. Grows(db, d)
      BY <2>3, <3>2, GrowsOn
    <3> QED
      BY <2>3, <3>1, <3>3
  <2>6. Good(InsertRow(name, broken, alone, r, row, n + 1))
    <3>1. \/ \E f : InsertRow(name, broken, alone, r, row, n + 1) = [r EXCEPT !.fails = f]
          \/ /\ name \in DOMAIN r.db.tables
             /\ InsertRow(name, broken, alone, r, row, n + 1) = [r EXCEPT !.db = Insert(r.db, name, row)]
      BY DEF InsertRow, Refused
    <3> HIDE DEF Good
    <3> QED
      BY <2>4, <2>5, <3>1
  <2> QED
    BY <1>4, <2>3, <2>6
<1>5. PICK all : all = AllInserts(db, name, rows, broken, alone) /\ DOMAIN all = {"db", "fails"} /\ Grows(db, all.db)
  <2>1. N \in T
    <3> HIDE DEF T
    <3>1. 0 .. N \subseteq T
      BY <1>1, <1>3, <1>4, UpTo
    <3> QED
      BY <1>1, <3>1
  <2> QED
    BY <1>2, <2>1
<1>6. \/ Inserts(db, name, rows, broken, alone) = all
      \/ Inserts(db, name, rows, broken, alone) = [all EXCEPT !.db = db]
  BY <1>5 DEF Inserts, AllInserts
<1> QED
  BY <1>5, <1>6, GrowsSame

-----------------------------------------------------------------------------
(***************************************************************************)
(* Reading in: the directories hold files that can be read, and what is    *)
(* left to be read is in the directory.                                    *)
(***************************************************************************)
IsDir(d) == IsFile(d.model) /\ \A f \in DOMAIN d.dbt : IsList(d.dbt[f])

FilesInv == \A d \in DOMAIN dirs : IsDir(dirs[d])

ReadingInv ==
  \/ reading.at = "idle"
  \/ /\ DOMAIN reading = {"at", "dir", "model", "ok", "clean", "left"}
     /\ reading.at \in {"model", "create", "check", "data"}
     /\ reading.dir \in DOMAIN dirs /\ IsSound(reading.model)
     /\ reading.left \subseteq DOMAIN Stems
     /\ \A n \in reading.left : Stems[n] \in DOMAIN dirs[reading.dir].dbt

CountersInv ==
  /\ reported \subseteq DOMAIN dirs
  /\ faults \in 0 .. MaxFaults /\ changes \in 0 .. MaxChanges
  /\ reads \in 0 .. MaxReads /\ Len(dirs) <= MaxDumps

ReadInv == DumpInv /\ IsDatabase(target) /\ FilesInv /\ ReadingInv /\ CountersInv

\* Directories are made and files written, never removed.
DirsGrow ==
  /\ Newest <= Newest'
  /\ \A d \in DOMAIN dirs : d \in DOMAIN dirs' /\ DOMAIN dirs[d].dbt \subseteq DOMAIN dirs'[d].dbt

LEMMA NewestChanged ==
  ASSUME DirsInv, FilesInv, Newest > 0, NEW d, IsDir(d), DOMAIN dirs[Newest].dbt \subseteq DOMAIN d.dbt,
         dirs' = [dirs EXCEPT ![Newest] = d]
  PROVE  FilesInv' /\ DirsGrow /\ Newest' = Newest
<1>1. Newest \in Nat /\ DOMAIN dirs = 1 .. Newest
  BY DirsFacts
<1>2. DOMAIN dirs' = DOMAIN dirs /\ \A n \in DOMAIN dirs : dirs'[n] = IF n = Newest THEN d ELSE dirs[n]
  BY <1>1
<1>3. Newest' = Newest
  <2>1. dirs' = [n \in 1 .. Newest |-> dirs'[n]]
    BY <1>1
  <2> QED
    BY <1>1, <2>1, ListOf DEF Newest
<1> QED
  BY <1>1, <1>2, <1>3 DEF FilesInv, DirsGrow

LEMMA FilesUnchanged == ASSUME FilesInv, DirsInv, UNCHANGED dirs PROVE FilesInv' /\ DirsGrow /\ Newest' = Newest
<1>1. Newest \in Nat /\ Newest' = Newest
  BY DirsFacts DEF Newest
<1> QED
  BY <1>1 DEF FilesInv, DirsGrow

LEMMA SourceModelsAreSound ==
  ASSUME SourceInv, NEW m, m = ReadDatabaseModel(source) \/ m \in PartModels(source)
  PROVE  IsSound(m)
<1>1. IsService(source.svc)
  BY DumpAssumption DEF SourceInv, SameTables
<1>2. CASE m = ReadDatabaseModel(source)
  BY <1>1, <1>2, ReadIsSound
<1>3. CASE m \in PartModels(source)
  <2> DEFINE Without(names) ==
               [source EXCEPT !.tables = [name \in DOMAIN @ |->
                  IF name \in names THEN [@[name] EXCEPT !.rows = << >>] ELSE @[name]]]
  <2>1. PICK names : m = ReadDatabaseModel(Without(names))
    BY <1>3 DEF PartModels
  <2>2. Without(names).svc = source.svc
    BY DEF SourceInv, IsDatabase
  <2> HIDE DEF Without
  <2> QED
    BY <1>1, <2>1, <2>2, ReadIsSound
<1> QED
  BY <1>2, <1>3

\* The files that DumpTable leaves of the rows of a table.
IsPart(list, file) ==
  \/ \E n \in 0 .. Len(list) : file = SubSeq(list, 1, n)
  \/ \E n \in 0 .. Len(list) - 1 : \E torn \in TornLines(list[n + 1]) : file = SubSeq(list, 1, n) \o torn

LEMMA PartsAreLists ==
  ASSUME NEW list, IsList(list), NEW file, IsPart(list, file)
  PROVE  IsList(file)
<1>1. ASSUME NEW n \in 0 .. Len(list) - 1, NEW torn \in TornLines(list[n + 1]), file = SubSeq(list, 1, n) \o torn
      PROVE  IsList(file)
  <2>1. n \in 0 .. Len(list)
    BY DEF IsList
  <2>2. IsList(SubSeq(list, 1, n)) /\ IsList(torn)
    BY <2>1, PartIsList, ShortLists DEF TornLines
  <2> QED
    BY <1>1, <2>2, ListConcat
<1> QED
  BY <1>1, PartIsList DEF IsPart

LEMMA TableDumped ==
  ASSUME DumpInv, DumpTable, ~(UNCHANGED dirs)
  PROVE  LET name == NextTable
             list == DbtRows(source.tables[name].rows)
         IN  /\ name \in DOMAIN source.tables /\ IsTable(source.tables[name]) /\ IsList(list) /\ Newest > 0
             /\ \E file : IsPart(list, file) /\ dirs' = WithFile(name, file)
<1>1. PICK name, list : name = NextTable /\ list = DbtRows(source.tables[name].rows)
  OBVIOUS
<1>2. dumping.left # {} /\ dumping.at = "tables" /\ Newest > 0
  BY DEF DumpTable, DumpInv, DumpingInv
<1>3. name \in DOMAIN source.tables
  BY <1>1, <1>2, MinIsElement DEF DumpInv, DumpingInv, TableOf, NextTable
<1>4. IsTable(source.tables[name])
  BY <1>3 DEF DumpInv, SourceInv, IsDatabase
<1>5. IsList(list)
  BY <1>1, <1>4, DbtRowsAre
<1>6. \E file : IsPart(list, file) /\ dirs' = WithFile(name, file)
  <2>1. LET all == DbtRows(source.tables[NextTable].rows)
        IN  \/ dirs' = IF Count(source, NextTable) = 0 THEN dirs ELSE WithFile(NextTable, SubSeq(all, 1, Len(all)))
            \/ UNCHANGED dirs
            \/ \E n \in 0 .. Len(all) - 1 : dirs' = WithFile(NextTable, SubSeq(all, 1, n))
            \/ \E n \in 0 .. Len(all) - 1 : \E torn \in TornLines(all[n + 1]) :
                 dirs' = WithFile(NextTable, SubSeq(all, 1, n) \o torn)
    BY Zenon DEF DumpTable, WithFile
  <2>2. \/ dirs' = WithFile(name, SubSeq(list, 1, Len(list)))
        \/ \E n \in 0 .. Len(list) - 1 : dirs' = WithFile(name, SubSeq(list, 1, n))
        \/ \E n \in 0 .. Len(list) - 1 : \E torn \in TornLines(list[n + 1]) :
             dirs' = WithFile(name, SubSeq(list, 1, n) \o torn)
    BY <1>1, <2>1
  <2>3. Len(list) \in 0 .. Len(list) /\ \A n \in 0 .. Len(list) - 1 : n \in 0 .. Len(list)
    BY <1>5 DEF IsList
  <2>4. \A n \in 0 .. Len(list) : IsPart(list, SubSeq(list, 1, n))
    BY DEF IsPart
  <2>5. \A n \in 0 .. Len(list) - 1 : \A torn \in TornLines(list[n + 1]) : IsPart(list, SubSeq(list, 1, n) \o torn)
    BY DEF IsPart
  <2> QED
    BY <2>2, <2>3, <2>4, <2>5
<1> QED
  BY <1>1, <1>2, <1>3, <1>4, <1>5, <1>6

LEMMA FilesStep ==
  ASSUME DumpInv, FilesInv, [Next]_vars
  PROVE  FilesInv' /\ DirsGrow /\ (CreateDumpDir \/ Newest' = Newest)
<1>1. CASE UNCHANGED dirs
  BY <1>1, FilesUnchanged DEF DumpInv
<1>2. CASE CreateDumpDir
  <2>1. dirs' = Append(dirs, NoDir)
    BY <1>2 DEF CreateDumpDir
  <2>2. PICK S : dirs \in Seq(S)
    BY DEF DumpInv, DirsInv
  <2>3. /\ Newest \in Nat /\ DOMAIN dirs = 1 .. Newest /\ DOMAIN dirs' = 1 .. (Newest + 1) /\ Newest' = Newest + 1
        /\ dirs'[Newest + 1] = NoDir /\ \A d \in 1 .. Newest : dirs'[d] = dirs[d]
    BY <2>1, <2>2 DEF Newest
  <2>4. IsDir(NoDir)
    <3>1. PICK f : f = NoDir.model
      OBVIOUS
    <3>2. f.tables = << >> /\ f.enums = << >> /\ f.relations = << >>
      BY <3>1 DEF NoDir
    <3>3. IsFile(f)
      BY <3>2, FS_EmptySet DEF IsFile, AreListed, IsList, HasEnums
    <3>4. DOMAIN NoDir.dbt = {}
      BY DEF NoDir
    <3> QED
      BY <3>1, <3>3, <3>4 DEF IsDir
  <2>5. FilesInv'
    <3> SUFFICES ASSUME NEW d \in DOMAIN dirs' PROVE IsDir(dirs'[d])
      BY DEF FilesInv
    <3>1. d = Newest + 1 \/ d \in 1 .. Newest
      BY <2>3
    <3> QED
      BY <2>3, <2>4, <3>1 DEF FilesInv
  <2> QED
    BY <1>2, <2>3, <2>5 DEF DirsGrow
<1>3. CASE DumpModel /\ ~(UNCHANGED dirs)
  <2>1. PICK m : (m = ReadDatabaseModel(source) \/ m \in PartModels(source)) /\ SaveModelFile(m)
    BY <1>3 DEF DumpModel
  <2>2. IsFile(SaveModel(m))
    BY <2>1, SourceModelsAreSound, SavedIsFile DEF DumpInv
  <2>3. Newest > 0 /\ Newest \in DOMAIN dirs
    BY <1>3, DirsFacts DEF DumpModel, DumpInv, DumpingInv
  <2>4. PICK d : d = [dirs[Newest] EXCEPT !.model = SaveModel(m)]
    OBVIOUS
  <2>5. d.model = SaveModel(m) /\ d.dbt = dirs[Newest].dbt
    BY <2>3, <2>4 DEF DumpInv, DirsInv
  <2>6. IsDir(d)
    BY <2>2, <2>3, <2>5 DEF IsDir, FilesInv
  <2>7. dirs' = [dirs EXCEPT ![Newest] = d]
    BY <2>1, <2>4 DEF SaveModelFile
  <2> QED
    BY <2>3, <2>5, <2>6, <2>7, NewestChanged DEF DumpInv
<1>4. CASE DumpTable /\ ~(UNCHANGED dirs)
  <2>1. PICK name, list : name = NextTable /\ list = DbtRows(source.tables[name].rows)
    OBVIOUS
  <2>2. /\ IsList(list) /\ Newest > 0 /\ Newest \in DOMAIN dirs
        /\ \E file : IsPart(list, file) /\ dirs' = WithFile(name, file)
    BY <1>4, <2>1, TableDumped, DirsFacts DEF DumpInv
  <2>3. PICK part : IsPart(list, part) /\ dirs' = WithFile(name, part)
    BY <2>2
  <2>4. PICK old, dbt : /\ old = dirs[Newest]
                        /\ dbt = [f \in DOMAIN old.dbt \cup {name} |-> IF f = name THEN part ELSE old.dbt[f]]
    OBVIOUS
  <2>5. PICK d : d = [old EXCEPT !.dbt = dbt]
    OBVIOUS
  <2>6. d.model = old.model /\ d.dbt = dbt
    BY <2>2, <2>4, <2>5 DEF DumpInv, DirsInv
  <2>7. IsDir(d)
    <3>1. IsList(part)
      BY <2>2, <2>3, PartsAreLists
    <3>2. IsDir(old)
      BY <2>2, <2>4 DEF FilesInv
    <3>3. \A f \in DOMAIN old.dbt \cup {name} : IsList(dbt[f])
      BY <2>4, <3>1, <3>2 DEF IsDir
    <3>4. DOMAIN dbt = DOMAIN old.dbt \cup {name}
      BY <2>4
    <3> QED
      BY <2>6, <3>2, <3>3, <3>4 DEF IsDir
  <2>8. dirs' = [dirs EXCEPT ![Newest] = d]
    BY <2>3, <2>4, <2>5 DEF WithFile
  <2>9. DOMAIN dirs[Newest].dbt \subseteq DOMAIN d.dbt
    BY <2>4, <2>6
  <2> QED
    BY <2>2, <2>7, <2>8, <2>9, NewestChanged DEF DumpInv
<1>5. UNCHANGED dirs \/ CreateDumpDir \/ DumpModel \/ DumpTable
  BY OthersLeaveDump DEF Next, vars, onDump, WriteSource, EndDump, Crash
<1> QED
  BY <1>1, <1>2, <1>3, <1>4, <1>5

LEMMA ReadInitial == Init => ReadInv
<1> SUFFICES ASSUME Init PROVE ReadInv
  OBVIOUS
<1>1. DumpInv
  BY DumpInitial
<1>2. IsDatabase(target)
  BY DumpAssumption DEF Init
<1>3. dirs = << >> /\ reported = {} /\ reading = Idle /\ faults = 0 /\ changes = 0 /\ reads = 0
  BY DEF Init
<1>4. FilesInv /\ ReadingInv
  BY <1>3 DEF FilesInv, ReadingInv, Idle
<1>5. {MaxFaults, MaxChanges, MaxDumps, MaxReads} \subseteq Nat
  BY DumpAssumption
<1>6. CountersInv
  BY <1>3, <1>5 DEF CountersInv
<1> QED
  BY <1>1, <1>2, <1>4, <1>6 DEF ReadInv

LEMMA ReadingGoesOn ==
  ASSUME ReadingInv, reading.at # "idle", DirsGrow, DOMAIN reading' = DOMAIN reading,
         reading'.at \in {"model", "create", "check", "data"},
         reading'.dir = reading.dir, reading'.model = reading.model, reading'.left \subseteq reading.left
  PROVE  ReadingInv'
<1>1. /\ DOMAIN reading' = {"at", "dir", "model", "ok", "clean", "left"}
      /\ reading'.dir \in DOMAIN dirs' /\ IsSound(reading'.model)
      /\ reading'.left \subseteq DOMAIN Stems
  BY DEF ReadingInv, DirsGrow
<1>2. \A n \in reading'.left : Stems[n] \in DOMAIN dirs'[reading'.dir].dbt
  BY DEF ReadingInv, DirsGrow
<1> QED
  BY <1>1, <1>2 DEF ReadingInv

LEMMA AnswersAreIdle ==
  ASSUME \/ reading' = Idle
         \/ \E a : Answer(a) \/ reading' = [Idle EXCEPT !.answer = a]
  PROVE  ReadingInv'
<1>1. reading'.at = "idle"
  BY DEF Answer, Idle
<1> QED
  BY <1>1 DEF ReadingInv

LEMMA StepsGoOn ==
  ASSUME ReadingInv, reading.at # "idle", DirsGrow,
         NEW at \in {"model", "create", "check", "data"}, NEW clean,
         Step(at) \/ reading' = [reading EXCEPT !.at = at, !.clean = clean]
  PROVE  ReadingInv'
<1>1. DOMAIN reading = {"at", "dir", "model", "ok", "clean", "left"}
  BY DEF ReadingInv
<1>2. /\ DOMAIN reading' = DOMAIN reading /\ reading'.at = at /\ reading'.dir = reading.dir
      /\ reading'.model = reading.model /\ reading'.left = reading.left
  BY <1>1 DEF Step
<1> QED
  BY <1>2, ReadingGoesOn

LEMMA ReadingStep ==
  ASSUME ReadInv, [Next]_vars
  PROVE  ReadingInv'
<1>1. ReadingInv /\ DirsGrow
  BY FilesStep DEF ReadInv
<1>2. CASE UNCHANGED reading
  <2>1. CASE reading.at = "idle"
    BY <1>2, <2>1 DEF ReadingInv
  <2>2. CASE reading.at # "idle"
    <3>1. reading.at \in {"model", "create", "check", "data"}
      BY <1>1, <2>2 DEF ReadingInv
    <3> QED
      BY <1>1, <1>2, <2>2, <3>1, ReadingGoesOn
  <2> QED
    BY <2>1, <2>2
<1>3. CASE WriteTarget /\ ~(UNCHANGED reading)
  <2>1. reading.at # "idle" /\ reading' = [reading EXCEPT !.clean = FALSE]
    BY <1>3 DEF WriteTarget
  <2>2. /\ DOMAIN reading' = DOMAIN reading /\ reading'.at = reading.at /\ reading'.dir = reading.dir
        /\ reading'.model = reading.model /\ reading'.left = reading.left
        /\ reading.at \in {"model", "create", "check", "data"}
    BY <1>1, <2>1 DEF ReadingInv
  <2> QED
    BY <1>1, <2>1, <2>2, ReadingGoesOn
<1>4. CASE ReadInDumpFiles
  <2>1. PICK d \in 1 .. Newest : Begin(d, ReadFileModel(dirs[d].model))
    BY <1>4 DEF ReadInDumpFiles
  <2>2. d \in DOMAIN dirs /\ dirs' = dirs
    BY <1>4, DirsFacts DEF ReadInv, DumpInv, ReadInDumpFiles, onDump
  <2>3. PICK m : m = ReadFileModel(dirs[d].model)
    OBVIOUS
  <2>4. IsSound(m)
    BY <2>2, <2>3, FileIsSound DEF ReadInv, FilesInv, IsDir
  <2>5. reading' = [at |-> "model", dir |-> d, model |-> m, ok |-> TRUE, clean |-> TRUE,
                    left |-> {n \in DOMAIN Stems : Stems[n] \in DOMAIN dirs[d].dbt}]
    BY <2>1, <2>3 DEF Begin
  <2> QED
    BY <2>2, <2>4, <2>5 DEF ReadingInv
<1>5. CASE ReadTargetModel
  <2>1. reading.at # "idle"
    BY <1>5 DEF ReadTargetModel
  <2>2. \/ \E a : Answer(a) \/ reading' = [Idle EXCEPT !.answer = a]
        \/ \E at \in {"create", "check"} : Step(at)
        \/ reading' = [reading EXCEPT !.at = "create", !.clean = FALSE]
    BY <1>5 DEF ReadTargetModel, Compare, AnswerAfter
  <2> QED
    BY <1>1, <2>1, <2>2, AnswersAreIdle, StepsGoOn
<1>6. CASE Create
  <2>1. reading.at # "idle"
    BY <1>6 DEF Create
  <2>2. \/ \E a : reading' = [Idle EXCEPT !.answer = a]
        \/ \E clean : reading' = [reading EXCEPT !.at = "check", !.clean = clean]
    BY <1>6 DEF Create, AnswerAfter
  <2> QED
    BY <1>1, <2>1, <2>2, AnswersAreIdle, StepsGoOn
<1>7. CASE CheckEmpty
  <2>1. reading.at # "idle"
    BY <1>7 DEF CheckEmpty
  <2>2. \/ \E a : Answer(a) \/ reading' = [Idle EXCEPT !.answer = a]
        \/ Step("data")
    BY <1>7 DEF CheckEmpty, AnswerAfter
  <2> QED
    BY <1>1, <2>1, <2>2, AnswersAreIdle, StepsGoOn
<1>8. CASE ReadInTable
  <2>1. reading.at = "data"
    BY <1>8 DEF ReadInTable
  <2>2. \/ reading' = Idle
        \/ \E ok, clean : reading' = [reading EXCEPT !.left = @ \ {Min(@)}, !.ok = ok, !.clean = clean]
    BY <1>8 DEF ReadInTable
  <2>3. ASSUME NEW ok, NEW clean, reading' = [reading EXCEPT !.left = @ \ {Min(@)}, !.ok = ok, !.clean = clean]
        PROVE  ReadingInv'
    <3>1. PICK left : left = reading.left \ {Min(reading.left)}
      OBVIOUS
    <3>2. reading' = [reading EXCEPT !.left = left, !.ok = ok, !.clean = clean]
      BY <2>3, <3>1
    <3>3. /\ DOMAIN reading' = DOMAIN reading /\ reading'.at = "data" /\ reading'.dir = reading.dir
          /\ reading'.model = reading.model /\ reading'.left = left
      BY <1>1, <2>1, <3>2 DEF ReadingInv
    <3>4. reading'.left \subseteq reading.left
      BY <3>1, <3>3
    <3> QED
      BY <1>1, <2>1, <3>3, <3>4, ReadingGoesOn
  <2> QED
    BY <2>2, <2>3, AnswersAreIdle
<1>9. CASE EndRead \/ CreateDb \/ Crash
  BY <1>9, AnswersAreIdle DEF EndRead, CreateDb, Crash
<1>10. CASE \/ UNCHANGED vars \/ WriteSource \/ CreateDumpDir \/ DumpModel \/ DumpTable \/ EndDump
  BY <1>2, <1>10 DEF vars, onRead, WriteSource, CreateDumpDir, DumpModel, DumpTable, EndDump
<1> QED
  BY <1>2, <1>3, <1>4, <1>5, <1>6, <1>7, <1>8, <1>9, <1>10 DEF Next

LEMMA TargetGrows ==
  ASSUME ReadInv, [Next]_vars
  PROVE  Grows(target, target')
<1>1. IsDatabase(target)
  BY DEF ReadInv
<1>2. CASE UNCHANGED target
  BY <1>1, <1>2, GrowsSame
<1>3. CASE WriteTarget
  <2>1. PICK w \in Writes : target' \in Inserted(target, w)
    BY <1>3 DEF WriteTarget
  <2>2. w[1] \in DOMAIN target.tables /\ target' = Insert(target, w[1], w[2])
    BY <2>1 DEF Inserted, Refused
  <2> QED
    BY <1>1, <2>2, InsertFacts
<1>4. CASE Create
  <2>1. IsSound(reading.model)
    BY <1>4 DEF Create, ReadInv, ReadingInv
  <2>2. \/ UNCHANGED target
        \/ target' = [target EXCEPT !.exists = TRUE]
        \/ \E broken : target' = Created(target, reading.model, broken).db
    BY <1>4 DEF Create
  <2>3. CASE target' = [target EXCEPT !.exists = TRUE]
    <3>1. DOMAIN target' = DOMAIN target /\ target'.kind = target.kind /\ target'.tables = target.tables
      BY <1>1, <2>3 DEF IsDatabase
    <3> QED
      BY <1>1, <3>1, OtherFieldsGrow
  <2> QED
    BY <1>1, <1>2, <2>1, <2>2, <2>3, CreatedGrows
<1>5. CASE ReadInTable
  <2>1. PICK stem, rows : stem = Stems[Min(reading.left)] /\ rows = dirs[reading.dir].dbt[stem]
    OBVIOUS
  <2>2. reading.at = "data" /\ reading.left # {}
    BY <1>5 DEF ReadInTable
  <2>3. reading.left \in SUBSET Nat
    BY <2>2, DumpAssumption DEF ReadInv, ReadingInv
  <2>4. reading.dir \in DOMAIN dirs /\ stem \in DOMAIN dirs[reading.dir].dbt
    BY <2>1, <2>2, <2>3, MinIsElement DEF ReadInv, ReadingInv
  <2>5. IsList(rows) /\ Len(rows) \in Nat /\ DOMAIN rows = 1 .. Len(rows)
    BY <2>1, <2>4 DEF ReadInv, FilesInv, IsDir, IsList
  <2>6. \/ UNCHANGED target
        \/ \E name, broken, alone : \E n \in {Len(rows)} \cup DOMAIN rows :
             target' = Inserts(target, name, SubSeq(rows, 1, n), broken, alone).db
    <3> DEFINE T == reading.model.tables
               i == IF GetTableByDbName(T, stem) # 0 THEN GetTableByDbName(T, stem) ELSE GetTableByName(T, stem)
               Put(broken, alone, n) == Inserts(target, T[i].db, SubSeq(rows, 1, n), broken, alone).db
    <3>1. \/ UNCHANGED target
          \/ target' = Put(0, FALSE, Len(rows))
          \/ \E n \in DOMAIN rows : target' = Put(n, FALSE, Len(rows))
          \/ target' = Put(0, TRUE, Len(rows))
          \/ \E n \in DOMAIN rows : target' = Put(0, TRUE, n)
      BY <1>5, <2>1 DEF ReadInTable
    <3> QED
      BY <3>1
  <2>7. ASSUME NEW n \in {Len(rows)} \cup DOMAIN rows, NEW name, NEW broken, NEW alone
        PROVE  Grows(target, Inserts(target, name, SubSeq(rows, 1, n), broken, alone).db)
    <3>1. n \in 0 .. Len(rows)
      BY <2>5
    <3>2. Len(SubSeq(rows, 1, n)) \in Nat
      BY <2>5, <3>1, PartIsList DEF IsList
    <3> QED
      BY <1>1, <3>2, InsertsGrow
  <2> QED
    BY <1>2, <2>6, <2>7
<1>6. CASE CreateDb
  <2>1. PICK m \in Models : target' = Created(target, ReadFileModel(SaveModel(m)), 0).db
    BY <1>6 DEF CreateDb
  <2>2. IsSound(ReadFileModel(SaveModel(m)))
    BY DumpAssumption, ModelIsSound, SavedIsFile, FileIsSound
  <2> QED
    BY <1>1, <2>1, <2>2, CreatedGrows
<1>7. \/ UNCHANGED target \/ WriteTarget \/ Create \/ ReadInTable \/ CreateDb
  BY DEF Next, vars, onRead, WriteSource, CreateDumpDir, DumpModel, DumpTable, EndDump,
         ReadInDumpFiles, ReadTargetModel, CheckEmpty, EndRead, Crash
<1> QED
  BY <1>2, <1>3, <1>4, <1>5, <1>6, <1>7

LEMMA CountersStep ==
  ASSUME ReadInv, [Next]_vars
  PROVE  CountersInv'
<1>1. {MaxFaults, MaxChanges, MaxDumps, MaxReads} \subseteq Nat /\ CountersInv /\ DirsGrow
  BY DumpAssumption, FilesStep DEF ReadInv
<1>2. faults' \in 0 .. MaxFaults
  <2>1. faults' = faults \/ (faults < MaxFaults /\ faults' = faults + 1)
    BY DEF Next, vars, WriteSource, WriteTarget, CreateDumpDir, DumpModel, DumpTable, EndDump,
           ReadInDumpFiles, ReadTargetModel, BeginFails, AnswerAfter, Create, CheckEmpty, ReadInTable,
           EndRead, CreateDb, Crash, NoFault, Fault
  <2> QED
    BY <1>1, <2>1 DEF CountersInv
<1>3. changes' \in 0 .. MaxChanges
  <2>1. changes' = changes \/ (changes < MaxChanges /\ changes' = changes + 1)
    BY DEF Next, vars, WriteSource, WriteTarget, Change, CreateDumpDir, DumpModel, DumpTable, EndDump,
           ReadInDumpFiles, ReadTargetModel, Create, CheckEmpty, ReadInTable, EndRead, CreateDb, Crash
  <2> QED
    BY <1>1, <2>1 DEF CountersInv
<1>4. reads' \in 0 .. MaxReads
  <2>1. reads' = reads \/ (reads < MaxReads /\ reads' = reads + 1)
    BY DEF Next, vars, onRead, WriteSource, WriteTarget, CreateDumpDir, DumpModel, DumpTable, EndDump,
           ReadInDumpFiles, ReadTargetModel, Create, CheckEmpty, ReadInTable, EndRead, CreateDb, Crash
  <2> QED
    BY <1>1, <2>1 DEF CountersInv
<1>5. reported' \subseteq DOMAIN dirs'
  <2>1. \/ reported' = reported
        \/ EndDump /\ reported' = reported \cup {Newest}
    BY OthersLeaveDump
    DEF Next, vars, onDump, WriteSource, CreateDumpDir, DumpModel, DumpTable, EndDump, Crash
  <2>2. EndDump => Newest \in DOMAIN dirs
    BY DirsFacts DEF EndDump, ReadInv, DumpInv, DumpingInv
  <2> QED
    BY <1>1, <2>1, <2>2 DEF CountersInv, DirsGrow
<1>6. Len(dirs') <= MaxDumps
  <2>1. Len(dirs) \in Nat
    BY DirsFacts DEF ReadInv, DumpInv, Newest
  <2>2. CASE CreateDumpDir
    <3>1. PICK S : dirs \in Seq(S)
      BY DEF ReadInv, DumpInv, DirsInv
    <3>2. Len(dirs) < MaxDumps /\ dirs' = Append(dirs, NoDir)
      BY <2>2 DEF CreateDumpDir, Newest
    <3>3. Len(dirs') = Len(dirs) + 1
      BY <3>1, <3>2
    <3> QED
      BY <1>1, <2>1, <3>2, <3>3
  <2>3. CASE ~CreateDumpDir
    <3>1. Newest' = Newest
      BY <2>3, FilesStep DEF ReadInv
    <3> QED
      BY <1>1, <3>1 DEF CountersInv, Newest
  <2> QED
    BY <2>2, <2>3
<1> QED
  BY <1>1, <1>2, <1>3, <1>4, <1>5, <1>6 DEF CountersInv

LEMMA ReadInductive == ReadInv /\ [Next]_vars => ReadInv'
<1> SUFFICES ASSUME ReadInv, [Next]_vars PROVE ReadInv'
  OBVIOUS
<1>1. DumpInv'
  BY DumpInductive DEF ReadInv
<1>2. IsDatabase(target)'
  BY TargetGrows DEF Grows
<1>3. FilesInv' /\ ReadingInv' /\ CountersInv'
  BY FilesStep, ReadingStep, CountersStep DEF ReadInv
<1> QED
  BY <1>1, <1>2, <1>3 DEF ReadInv

\* A row of the database that a dump is read into never changes and never goes: Create and
\* ReadInTable, whatever fails in them, only add rows.
THEOREM RowsAreKept == Spec => KeepsRows
<1> DEFINE Kept == \A name \in DOMAIN target.tables :
                     /\ name \in DOMAIN target'.tables
                     /\ \A i \in DOMAIN target.tables[name].rows :
                          /\ i \in DOMAIN target'.tables[name].rows
                          /\ target'.tables[name].rows[i] = target.tables[name].rows[i]
<1>1. ReadInv /\ [Next]_vars => [Kept]_vars
  BY TargetGrows DEF Grows
<1> HIDE DEF Kept
<1>2. Spec => [][Kept]_vars
  BY <1>1, ReadInitial, ReadInductive, PTL DEF Spec
<1> QED
  BY <1>2 DEF KeepsRows, Kept

\* Every row of both databases has an id that its table has handed out, what is reported is a
\* directory, and DumpDatabase and ReadInDump are where they can be.
THEOREM TypeCorrect == Spec => []TypeOK
<1>1. ReadInv => TypeOK
  <2> SUFFICES ASSUME ReadInv PROVE TypeOK
    OBVIOUS
  <2>1. IsDatabase(source) /\ IsDatabase(target)
    BY DEF ReadInv, DumpInv, SourceInv
  <2>2. \A db \in {source, target} : \A name \in DOMAIN db.tables :
          DOMAIN db.tables[name].rows \subseteq 1 .. db.tables[name].last
    BY <2>1 DEF IsDatabase, IsTable
  <2>3. dumping.at \in {"idle", "model", "tables"}
    BY DEF ReadInv, DumpInv, DumpingInv
  <2>4. reading.at \in {"idle", "model", "create", "check", "data"}
    BY DEF ReadInv, ReadingInv
  <2> QED
    BY <2>2, <2>3, <2>4 DEF TypeOK, ReadInv, CountersInv
<1> QED
  BY <1>1, ReadInitial, ReadInductive, PTL DEF Spec

-----------------------------------------------------------------------------
(***************************************************************************)
(* Nothing is stored twice.                                                *)
(***************************************************************************)
\* A table that is one of the data in a model is so in this one.
IsTold(t) ==
  /\ {"db", "base"} \subseteq DOMAIN t
  /\ IsData(t.db) => t.base \notin {"AoEnvironment", "AoUnit"}

IsNamed(t) == t.db # ""

AreTold(T) == \A i \in DOMAIN T : IsTold(T[i]) /\ IsNamed(T[i])

\* The letters of the names of the rows are different ones.
HasText(row) == {"text", "refs"} \subseteq DOMAIN row /\ "text" \in DOMAIN row.text

Differ(rows) ==
  /\ \A i \in DOMAIN rows : HasText(rows[i])
  /\ \A i, k \in DOMAIN rows : rows[i].text.text = rows[k].text.text => i = k

RowsDiffer(db) == \A name \in DOMAIN db.tables : IsData(name) => Differ(db.tables[name].rows)

\* A row of the data has a name.
HasLetters(letters) == letters # ""

AreNamed(rows) == \A i \in DOMAIN rows : HasLetters(rows[i].text.text)

RowsNamed(db) == \A name \in DOMAIN db.tables : IsData(name) => AreNamed(db.tables[name].rows)

LEMMA NoLetters == ~HasLetters(NoText.text)
BY Zenon DEF HasLetters, NoText

\* What is asked of the databases and models: no table is without a name in the database, there
\* is one file of a name, and the data have names that differ (those of a source have letters).
TablesAreTold ==
  /\ \A n, k \in DOMAIN Stems : Stems[n] = Stems[k] => n = k
  /\ \A m \in Models : \A i \in DOMAIN m.tables : IsTold(m.tables[i])
  /\ \A db \in Sources : AreTold(db.svc.ents)

DataDiffer ==
  /\ TablesAreTold
  /\ \A db \in Sources \cup Targets : RowsDiffer(db)
  /\ \A db \in Sources : RowsNamed(db)
  /\ \A w \in Writes : HasText(w[2])

\* The models of databases and of files.
LEMMA ReadIsTold ==
  ASSUME NEW db, IsService(db.svc), AreTold(db.svc.ents)
  PROVE  AreTold(ReadDatabaseModel(db).tables)
<1> DEFINE svc == db.svc
           ents == svc.ents
           Flat == [i \in DOMAIN ents |-> WithColumns(db, ents[i], AttrsOf(svc, i), UnitTable(ents))]
           parents == [j \in DOMAIN Flat |-> Flat[j].parent]
           T == ReadSvcAttrTable(db)
<1>1. T = [i \in Placed(parents) |-> Flat[i]]
  BY DEF ReadSvcAttrTable, ReadSvcEntTable, Nested
<1>2. DOMAIN Flat = DOMAIN ents /\ DOMAIN parents = DOMAIN ents
  OBVIOUS
<1>3. Placed(parents) \subseteq DOMAIN ents
  BY <1>2 DEF Placed
<1>4. ASSUME NEW i \in DOMAIN ents
      PROVE  IsTold(Flat[i]) /\ IsNamed(Flat[i])
  <2>1. PICK e, a, c : /\ e = ents[i] /\ a = ParentOf(AttrsOf(svc, i))
                       /\ c = [n \in DOMAIN AttrsOf(svc, i) |->
                                 FixUnitString(db, UnitTable(ents), AttrsOf(svc, i)[n])]
    OBVIOUS
  <2>2. PICK t : t = Flat[i]
    OBVIOUS
  <2>3. t = [e EXCEPT !.at = a, !.parent = a, !.columns = c]
    BY <2>1, <2>2 DEF WithColumns
  <2>4. IsTold(e) /\ IsNamed(e)
    BY <2>1 DEF AreTold
  <2>5. DOMAIN t = DOMAIN e /\ t.db = e.db /\ t.base = e.base
    BY <2>3, <2>4 DEF IsTold
  <2> QED
    BY <2>2, <2>4, <2>5 DEF IsTold, IsNamed
<1>5. ReadDatabaseModel(db).tables = T
  BY DEF ReadDatabaseModel, ModelOf
<1> HIDE DEF Flat, parents, T
<1>6. ASSUME NEW i \in DOMAIN T
      PROVE  IsTold(T[i]) /\ IsNamed(T[i])
  BY <1>1, <1>3, <1>4
<1> QED
  BY <1>5, <1>6 DEF AreTold

LEMMA SourceIsTold ==
  ASSUME TablesAreTold, SourceInv, NEW m, m = ReadDatabaseModel(source) \/ m \in PartModels(source)
  PROVE  AreTold(m.tables)
<1>1. IsService(source.svc) /\ AreTold(source.svc.ents)
  BY DumpAssumption DEF SourceInv, SameTables, TablesAreTold
<1>2. CASE m = ReadDatabaseModel(source)
  BY <1>1, <1>2, ReadIsTold
<1>3. CASE m \in PartModels(source)
  <2> DEFINE Without(names) ==
               [source EXCEPT !.tables = [name \in DOMAIN @ |->
                  IF name \in names THEN [@[name] EXCEPT !.rows = << >>] ELSE @[name]]]
  <2>1. PICK names : m = ReadDatabaseModel(Without(names))
    BY <1>3 DEF PartModels
  <2>2. Without(names).svc = source.svc
    BY DEF SourceInv, IsDatabase
  <2> HIDE DEF Without
  <2> QED
    BY <1>1, <2>1, <2>2, ReadIsTold
<1> QED
  BY <1>2, <1>3

\* A file that is read.
NodesAreTold(file) == \A n \in DOMAIN file.tables : IsTold(file.tables[n].table)

NodesAreNamed(file) == \A n \in DOMAIN file.tables : IsNamed(file.tables[n].table)

LEMMA SavedIsTold ==
  ASSUME NEW m, IsSound(m), \A i \in DOMAIN m.tables : IsTold(m.tables[i])
  PROVE  /\ NodesAreTold(SaveModel(m))
         /\ AreTold(m.tables) => NodesAreNamed(SaveModel(m))
         /\ LET list == AllTables(m.tables)
            IN  \A n \in DOMAIN list : /\ n \in DOMAIN SaveModel(m).tables
                                       /\ SaveModel(m).tables[n].table.db = m.tables[list[n]].db
<1>1. PICK list, s, T : list = AllTables(m.tables) /\ s = SaveModel(m).tables /\ T = m.tables
  OBVIOUS
<1>2. AreListed(s) /\ Len(s) = Len(list) /\ \A n \in 1 .. Len(s) : s[n] = SaveTable(T, list[n])
  BY <1>1, SavedTables DEF IsSound
<1>3. IsList(list) /\ \A n \in DOMAIN list : list[n] \in DOMAIN T
  BY <1>1, AllTablesIsList DEF IsSound, SoundTables
<1>4. DOMAIN s = 1 .. Len(s) /\ DOMAIN list = 1 .. Len(s)
  BY <1>2, <1>3 DEF AreListed, IsList
<1>5. ASSUME NEW n \in DOMAIN s
      PROVE  /\ IsTold(s[n].table) /\ (AreTold(T) => IsNamed(s[n].table))
             /\ s[n].table.db = T[list[n]].db
  <2>1. PICK t, u : t = T[list[n]] /\ u = s[n].table
    OBVIOUS
  <2>2. u = [t EXCEPT !.at = 0]
    BY <1>2, <1>4, <2>1 DEF SaveTable
  <2>3. list[n] \in DOMAIN T
    BY <1>3, <1>4
  <2>4. IsTold(t) /\ (AreTold(T) => IsNamed(t))
    BY <1>1, <2>1, <2>3 DEF AreTold
  <2>5. DOMAIN u = DOMAIN t /\ u.db = t.db /\ u.base = t.base
    BY <2>2, <2>4 DEF IsTold
  <2> QED
    BY <2>1, <2>4, <2>5 DEF IsTold, IsNamed
<1> QED
  BY <1>1, <1>4, <1>5 DEF NodesAreTold, NodesAreNamed

LEMMA FileReadIsTold ==
  ASSUME NEW file, IsFile(file), NodesAreTold(file)
  PROVE  LET T == ReadFileModel(file).tables
         IN  /\ \A i \in DOMAIN T : IsTold(T[i])
             /\ NodesAreNamed(file) => AreTold(T)
             /\ \A n \in DOMAIN file.tables : \E i \in DOMAIN T : T[i].db = file.tables[n].table.db
<1>1. PICK m, N : m = ReadModel(EmptyModel, file) /\ N = Len(file.tables)
  OBVIOUS
<1>2. Read(m, file, N) /\ DOMAIN file.tables = 1 .. N
  BY <1>1, FileIsRead DEF IsFile, AreListed, IsList
<1> DEFINE Zeroed(t) == [n \in DOMAIN t.columns |-> [t.columns[n] EXCEPT !.nr = 0]]
<1>3. PICK T : /\ T = ReadFileModel(file).tables
               /\ T = [i \in DOMAIN m.tables |-> [m.tables[i] EXCEPT !.columns = Zeroed(m.tables[i])]]
  <2>1. DOMAIN m = Fields
    BY <1>2 DEF Read
  <2> QED
    BY <1>1, <2>1 DEF ReadFileModel, Fields
<1>4. ASSUME NEW k \in 1 .. N
      PROVE  LET i == file.tables[k].id
                 t == file.tables[k].table
             IN  /\ i \in DOMAIN T /\ IsTold(T[i]) /\ T[i].db = t.db
  <2>1. PICK i, t : i = file.tables[k].id /\ t = file.tables[k].table
    OBVIOUS
  <2>2. i \in DOMAIN m.tables /\ m.tables[i] = AsRead(file, k)
    BY <1>2, <2>1 DEF Read, Ids
  <2>3. IsTold(t)
    BY <1>2, <2>1 DEF NodesAreTold
  <2>4. PICK u, v, w : /\ u = [t EXCEPT !.desc = ""] /\ v = m.tables[i] /\ w = T[i]
    OBVIOUS
  <2>5. \E at : v = [u EXCEPT !.at = at]
    BY <2>1, <2>2, <2>4 DEF AsRead, Undescribed
  <2>6. \E c : w = [v EXCEPT !.columns = c]
    BY <1>3, <2>2, <2>4
  <2>7. DOMAIN u = DOMAIN t /\ u.db = t.db /\ u.base = t.base
    BY <2>3, <2>4, Zenon DEF IsTold
  <2>8. DOMAIN w = DOMAIN t /\ w.db = t.db /\ w.base = t.base
    BY <2>3, <2>5, <2>6, <2>7 DEF IsTold
  <2>9. IsTold(w)
    BY <2>3, <2>8 DEF IsTold
  <2> QED
    BY <1>3, <2>1, <2>2, <2>4, <2>8, <2>9
<1>5. ASSUME NEW i \in DOMAIN T
      PROVE  \E k \in 1 .. N : i = file.tables[k].id
  BY <1>2, <1>3 DEF Read, Ids
<1>6. \A i \in DOMAIN T : IsTold(T[i])
  BY <1>4, <1>5
<1>7. ASSUME NodesAreNamed(file), NEW i \in DOMAIN T
      PROVE  IsNamed(T[i])
  <2>1. PICK k \in 1 .. N : i = file.tables[k].id
    BY <1>5
  <2>2. T[i].db = file.tables[k].table.db
    BY <1>4, <2>1
  <2>3. IsNamed(file.tables[k].table)
    BY <1>2, <1>7 DEF NodesAreNamed
  <2> QED
    BY <2>2, <2>3 DEF IsNamed
<1>8. \A n \in DOMAIN file.tables : \E i \in DOMAIN T : T[i].db = file.tables[n].table.db
  BY <1>2, <1>4
<1> QED
  BY <1>3, <1>6, <1>7, <1>8 DEF AreTold

\* Of the statements of Create those that insert rows do so into the units and the environment.
Harmless(s) == s.do = "insert" => ~IsData(s.table)

AreHarmless(list) == IsList(list) /\ \A n \in DOMAIN list : Harmless(list[n])

StepsAreHarmless(list) == IsList(list) /\ \A n \in DOMAIN list : Harmless(list[n].statement)

LEMMA FlatIsHarmless ==
  ASSUME NEW s, IsList(s), NEW t, t = [n \in DOMAIN s |-> t[n]], \A n \in DOMAIN s : AreHarmless(t[n])
  PROVE  AreHarmless(FlattenSeq(t))
BY FlatIsList, FlatElements DEF AreHarmless

LEMMA HarmlessSteps ==
  ASSUME NEW s, NEW t, StepsAreHarmless(s), StepsAreHarmless(t)
  PROVE  StepsAreHarmless(s \o t)
BY ListConcat, ConcatElements DEF StepsAreHarmless

LEMMA HarmlessLists ==
  ASSUME NEW x, Harmless(x), NEW y, Harmless(y)
  PROVE  AreHarmless(<< >>) /\ AreHarmless(<<x>>) /\ AreHarmless(<<x, y>>)
<1>1. DOMAIN << >> = {} /\ DOMAIN <<x>> = {1} /\ <<x>>[1] = x
  OBVIOUS
<1>2. DOMAIN <<x, y>> = {1, 2} /\ <<x, y>>[1] = x /\ <<x, y>>[2] = y
  OBVIOUS
<1> QED
  BY <1>1, <1>2, ShortLists DEF AreHarmless

LEMMA UnitsAreHarmless ==
  ASSUME NEW m, NEW places, IsList(places), NEW u, u = 0 \/ ~IsData(m.tables[u].db)
  PROVE  AreHarmless(UnitsOf(m, places, u))
<1> DEFINE Link(n) == [do |-> "unit", at |-> places[n], table |-> m.tables[u].db, unit |-> UnitAt(m, places[n])]
           Row(n) == [do |-> "insert", table |-> m.tables[u].db,
                      row |-> NameRow(m, m.tables[u], UnitAt(m, places[n]))]
           rows == [n \in DOMAIN places |->
                      IF UnitAt(m, places[n]) = NoText THEN << >>
                      ELSE IF \E k \in 1..(n - 1) : UnitAt(m, places[k]) = UnitAt(m, places[n]) THEN <<Link(n)>>
                      ELSE <<Row(n), Link(n)>>]
<1>1. PICK refuse : refuse = [do |-> "refuse"] /\ Harmless(refuse)
  <2>1. PICK x : x = [do |-> "refuse"]
    OBVIOUS
  <2>2. x.do = "refuse"
    BY <2>1
  <2> QED
    BY <2>1, <2>2 DEF Harmless
<1>4. \/ UnitsOf(m, places, u) = << >>
      \/ u # 0 /\ (UnitsOf(m, places, u) = FlattenSeq(rows) \/ UnitsOf(m, places, u) = <<refuse>>)
  BY <1>1 DEF UnitsOf
<1>2. CASE u # 0
  <2>1. ASSUME NEW n \in DOMAIN places
        PROVE  Harmless(Link(n)) /\ Harmless(Row(n))
    <3>1. Link(n).do = "unit" /\ Row(n).table = m.tables[u].db
      OBVIOUS
    <3> QED
      BY <1>2, <3>1 DEF Harmless
  <2> HIDE DEF Link, Row
  <2>2. \A n \in DOMAIN places : AreHarmless(rows[n])
    BY <2>1, HarmlessLists
  <2>3. rows = [n \in DOMAIN places |-> rows[n]]
    OBVIOUS
  <2> HIDE DEF rows
  <2>4. AreHarmless(FlattenSeq(rows))
    BY <2>2, <2>3, FlatIsHarmless
  <2>5. AreHarmless(<< >>) /\ AreHarmless(<<refuse>>)
    BY <1>1, HarmlessLists
  <2> QED
    BY <1>4, <2>4, <2>5
<1>3. CASE u = 0
  <2> HIDE DEF rows
  <2> QED
    BY <1>4, <1>3, PlainLists DEF AreHarmless, IsPlain, Harmless
<1> QED
  BY <1>2, <1>3

LEMMA BaseIsOne ==
  ASSUME NEW T, IsTree(T), NEW base
  PROVE  LET i == GetTableByBaseId(T, base)
         IN  i = 0 \/ (i \in DOMAIN T /\ T[i].base = base)
<1>1. PICK ids, top : ids = {i \in DOMAIN T : T[i].base = base} /\ top = ids \cap SubTables(T, 0)
  OBVIOUS
<1>2. ids \in SUBSET DOMAIN T /\ top \in SUBSET DOMAIN T /\ top \subseteq ids
  BY <1>1
<1>3. FirstOf(T, ids) \in ids \cup {0} /\ FirstOf(T, top) \in ids \cup {0}
  BY <1>2, FirstOfIsOne
<1>4. GetTableByBaseId(T, base) \in ids \cup {0}
  BY <1>1, <1>3 DEF GetTableByBaseId
<1> QED
  BY <1>1, <1>4

LEMMA InsertsElsewhere ==
  ASSUME NEW m, IsSound(m), \A i \in DOMAIN m.tables : IsTold(m.tables[i])
  PROVE  StepsAreHarmless(Statements(m))
<1>1. PICK T, list : T = m.tables /\ list = AllTables(T)
  OBVIOUS
<1> DEFINE Of(step, rows) == [n \in DOMAIN rows |-> [step |-> step, statement |-> rows[n]]]
<1>2. ASSUME NEW step, NEW rows, AreHarmless(rows)
      PROVE  StepsAreHarmless(Of(step, rows))
  <2>1. PICK t : t = Of(step, rows)
    OBVIOUS
  <2>2. DOMAIN t = DOMAIN rows /\ t = [n \in DOMAIN rows |-> t[n]] /\ \A n \in DOMAIN rows : t[n].statement = rows[n]
    BY <2>1
  <2>3. IsList(rows)
    BY <1>2 DEF AreHarmless
  <2> HIDE DEF Of
  <2> QED
    BY <1>2, <2>1, <2>2, <2>3, MappedIsList DEF AreHarmless, StepsAreHarmless
<1>3. ASSUME NEW rows, IsPlain(rows)
      PROVE  AreHarmless(rows)
  BY <1>3 DEF IsPlain, AreHarmless, Harmless
<1>4. ASSUME NEW base \in {"AoUnit", "AoEnvironment"}
      PROVE  LET u == GetTableByBaseId(T, base)
             IN  u = 0 \/ ~IsData(m.tables[u].db)
  <2>1. IsTree(T)
    BY <1>1 DEF IsSound, SoundTables
  <2> QED
    BY <1>1, <2>1, BaseIsOne DEF IsTold
<1>5. AreHarmless(UnitRows(m, list))
  BY <1>1, <1>4, RowsArePlain, UnitsAreHarmless DEF UnitRows
<1>6. AreHarmless(EnvRow(m, GetTableByBaseId(m.tables, "AoEnvironment")))
  <2>1. PICK e : e = GetTableByBaseId(m.tables, "AoEnvironment")
    OBVIOUS
  <2>2. e = 0 \/ ~IsData(m.tables[e].db)
    BY <1>1, <1>4, <2>1
  <2>3. PICK x : x = [do |-> "insert", table |-> m.tables[e].db, row |-> NameRow(m, m.tables[e], m.title)]
    OBVIOUS
  <2>4. x.table = m.tables[e].db
    BY <2>3
  <2>5. EnvRow(m, e) = << >> \/ (e # 0 /\ EnvRow(m, e) = <<x>>)
    BY <2>3 DEF EnvRow
  <2>6. AreHarmless(<< >>)
    BY <1>3, PlainLists
  <2>7. e # 0 => AreHarmless(<<x>>)
    BY <2>2, <2>4, HarmlessLists DEF Harmless
  <2> QED
    BY <2>1, <2>5, <2>6, <2>7
<1>7. /\ AreHarmless(Make("SVCENUM") \o EnumRows(m)) /\ AreHarmless(Make("SVCENT") \o EntRows(list))
      /\ AreHarmless(Make("SVCATTR") \o AttrRows(m, list)) /\ AreHarmless(Make("SVCREF") \o RefRows(m))
      /\ AreHarmless(TableRows(m, list)) /\ AreHarmless(RelationTables(m))
  BY <1>1, <1>3, RowsArePlain, ConcatIsPlain
<1>8. /\ StepsAreHarmless(Of("enum", Make("SVCENUM") \o EnumRows(m)))
      /\ StepsAreHarmless(Of("ent", Make("SVCENT") \o EntRows(list)))
      /\ StepsAreHarmless(Of("attr", Make("SVCATTR") \o AttrRows(m, list)))
      /\ StepsAreHarmless(Of("ref", Make("SVCREF") \o RefRows(m)))
      /\ StepsAreHarmless(Of("tables", TableRows(m, list)))
      /\ StepsAreHarmless(Of("relations", RelationTables(m)))
      /\ StepsAreHarmless(Of("units", UnitRows(m, list)))
      /\ StepsAreHarmless(Of("env", EnvRow(m, GetTableByBaseId(m.tables, "AoEnvironment"))))
  <2> HIDE DEF Of
  <2> QED
    BY <1>2, <1>5, <1>6, <1>7
<1>9. Statements(m) = Of("enum", Make("SVCENUM") \o EnumRows(m)) \o Of("ent", Make("SVCENT") \o EntRows(list))
      \o Of("attr", Make("SVCATTR") \o AttrRows(m, list)) \o Of("ref", Make("SVCREF") \o RefRows(m))
      \o Of("tables", TableRows(m, list)) \o Of("relations", RelationTables(m))
      \o Of("units", UnitRows(m, list))
      \o Of("env", EnvRow(m, GetTableByBaseId(m.tables, "AoEnvironment")))
  BY <1>1 DEF Statements
<1> HIDE DEF Of
<1> QED
  BY <1>8, <1>9, HarmlessSteps

\* The rows after an insertion.
LEMMA InsertedRow ==
  ASSUME NEW db, IsDatabase(db), NEW name \in DOMAIN db.tables, NEW row
  PROVE  LET new == Insert(db, name, row)
             rows == db.tables[name].rows
             id == db.tables[name].last + 1
         IN  /\ id \notin DOMAIN rows /\ new.tables[name].last = id
             /\ new.tables[name].rows = [i \in DOMAIN rows \cup {id} |-> IF i = id THEN Stored(db, row) ELSE rows[i]]
<1>1. PICK new, t, id : new = Insert(db, name, row) /\ t = db.tables[name] /\ id = t.last + 1
  OBVIOUS
<1>2. PICK rows : rows = [i \in DOMAIN t.rows \cup {id} |-> IF i = id THEN Stored(db, row) ELSE t.rows[i]]
  OBVIOUS
<1>3. PICK u : u = [t EXCEPT !.last = id, !.rows = rows]
  OBVIOUS
<1>4. new = [db EXCEPT !.tables[name] = u]
  BY <1>1, <1>2, <1>3 DEF Insert
<1>5. IsTable(t)
  BY <1>1 DEF IsDatabase
<1>6. u.rows = rows /\ u.last = id
  BY <1>3, <1>5 DEF IsTable
<1>7. id \notin DOMAIN t.rows
  BY <1>1, <1>5 DEF IsTable
<1>8. new.tables[name] = u
  BY <1>4 DEF IsDatabase
<1> QED
  BY <1>1, <1>2, <1>6, <1>7, <1>8

LEMMA OthersStay ==
  ASSUME NEW db, IsDatabase(db), NEW name \in DOMAIN db.tables, NEW row, NEW other \in DOMAIN db.tables, other # name
  PROVE  Insert(db, name, row).tables[other] = db.tables[other]
<1>1. PICK new, t, id : new = Insert(db, name, row) /\ t = db.tables[name] /\ id = t.last + 1
  OBVIOUS
<1>2. PICK u : u = [t EXCEPT !.last = id,
                             !.rows = [i \in DOMAIN @ \cup {id} |-> IF i = id THEN Stored(db, row) ELSE @[i]]]
  OBVIOUS
<1>3. new = [db EXCEPT !.tables[name] = u]
  BY <1>1, <1>2 DEF Insert
<1> QED
  BY <1>1, <1>3 DEF IsDatabase

-----------------------------------------------------------------------------
\* The rows of the data are the same, and new tables of the data are empty.
KeepsData(db, new) ==
  /\ DOMAIN db.tables \subseteq DOMAIN new.tables
  /\ \A name \in DOMAIN new.tables : IsData(name) =>
       IF name \in DOMAIN db.tables THEN new.tables[name].rows = db.tables[name].rows
       ELSE DOMAIN new.tables[name].rows = {}

LEMMA KeepsDataOn ==
  ASSUME NEW a, NEW b, NEW c, KeepsData(a, b), KeepsData(b, c)
  PROVE  KeepsData(a, c)
BY DEF KeepsData

LEMMA NoRowsDiffer == ASSUME NEW rows, DOMAIN rows = {} PROVE Differ(rows)
BY DEF Differ

LEMMA KeptDataDiffer ==
  ASSUME NEW db, NEW new, KeepsData(db, new), RowsDiffer(db)
  PROVE  RowsDiffer(new)
BY NoRowsDiffer DEF KeepsData, RowsDiffer

LEMMA DoneKeepsData ==
  ASSUME NEW db, IsDatabase(db), NEW m, NEW s, ~Fails(db, m, s), Harmless(s)
  PROVE  KeepsData(db, Done(db, m, s))
<1>1. PICK new : new = Done(db, m, s)
  OBVIOUS
<1>2. CASE s.do \notin {"table", "insert"}
  <2>1. new.tables = db.tables
    BY <1>1, <1>2, TablesUntouched
  <2> QED
    BY <1>1, <2>1 DEF KeepsData
<1>3. CASE s.do = "table"
  <2>1. PICK t, more : t = m.tables[s.id] /\ more = NewTable(m, t)
    OBVIOUS
  <2>2. new.tables = [n \in DOMAIN db.tables \cup {t.db} |->
                        IF n \in DOMAIN db.tables THEN db.tables[n] ELSE more]
    BY <1>1, <1>3, <2>1, TableMade
  <2>3. DOMAIN more.rows = {}
    BY <2>1 DEF NewTable
  <2> QED
    BY <1>1, <2>2, <2>3 DEF KeepsData
<1>4. CASE s.do = "insert"
  <2>1. new = Insert(db, s.table, s.row)
    BY <1>1, <1>4 DEF Done
  <2>2. ~Refused(db, s.table, s.row, TRUE)
    BY <1>4 DEF Fails
  <2>3. s.table \in DOMAIN db.tables /\ ~IsData(s.table)
    BY <1>4, <2>2 DEF Refused, Harmless
  <2>4. DOMAIN new.tables = DOMAIN db.tables
    BY <2>1, <2>3, InsertFacts DEF SameTables
  <2>5. \A other \in DOMAIN db.tables : other # s.table => new.tables[other] = db.tables[other]
    <3>1. PICK name, row : name = s.table /\ row = s.row
      OBVIOUS
    <3>2. name \in DOMAIN db.tables /\ new = Insert(db, name, row)
      BY <2>1, <2>3, <3>1
    <3> QED
      BY <3>1, <3>2, OthersStay
  <2> QED
    BY <1>1, <2>3, <2>4, <2>5 DEF KeepsData
<1> QED
  BY <1>2, <1>3, <1>4

LEMMA CreatedKeepsData ==
  ASSUME NEW db, IsDatabase(db), NEW m, IsSound(m), \A i \in DOMAIN m.tables : IsTold(m.tables[i]), NEW broken
  PROVE  KeepsData(db, Created(db, m, broken).db)
<1>1. PICK statements, N : statements = Statements(m) /\ N = Len(statements) /\ N \in Nat /\ DOMAIN statements = 1 .. N
  BY StatementsAreList DEF IsList
<1>2. \A n \in 1 .. N : Harmless(statements[n].statement)
  BY <1>1, InsertsElsewhere DEF StepsAreHarmless
<1>3. PICK opened : opened = OpenEx(db)
  OBVIOUS
<1>4. IsDatabase(opened) /\ opened.tables = db.tables
  <2>1. opened = [db EXCEPT !.exists = TRUE]
    BY <1>3 DEF OpenEx
  <2>2. DOMAIN opened = DOMAIN db /\ opened.kind = db.kind /\ opened.tables = db.tables
    BY <2>1 DEF IsDatabase
  <2> QED
    BY <2>2, OtherFieldsGrow DEF Grows
<1>5. PICK after :
        /\ after[0] = [db |-> opened, failed |-> {}] /\ after[N] = AllSteps(opened, m, statements, broken)
        /\ \A n \in 1 .. N : after[n] = Execute(m, broken, after[n - 1], statements[n], n)
  BY <1>1, CreateSteps
<1> DEFINE Good(r) == DOMAIN r = {"db", "failed"} /\ IsDatabase(r.db) /\ KeepsData(opened, r.db)
           T == {n \in 0 .. N : Good(after[n])}
<1>6. 0 \in T
  <2>1. KeepsData(opened, opened)
    BY DEF KeepsData
  <2> QED
    BY <1>1, <1>4, <1>5, <2>1
<1>7. ASSUME NEW n \in 0 .. N, n + 1 \in 0 .. N, n \in T
      PROVE  n + 1 \in T
  <2>1. n + 1 \in 1 .. N /\ (n + 1) - 1 = n
    BY <1>1, <1>7
  <2>2. PICK r, s : r = after[n] /\ s = statements[n + 1]
    OBVIOUS
  <2>3. after[n + 1] = Execute(m, broken, r, s, n + 1) /\ Good(r) /\ Harmless(s.statement)
    BY <1>2, <1>5, <1>7, <2>1, <2>2
  <2>4. ASSUME NEW f
        PROVE  Good([r EXCEPT !.failed = f])
    BY <2>3
  <2>5. ASSUME ~Fails(r.db, m, s.statement)
        PROVE  Good([r EXCEPT !.db = Done(r.db, m, s.statement)])
    <3>1. PICK d : d = Done(r.db, m, s.statement)
      OBVIOUS
    <3>2. KeepsData(r.db, d) /\ IsDatabase(d)
      BY <2>3, <2>5, <3>1, DoneGrows, DoneKeepsData DEF Grows
    <3>3. KeepsData(opened, d)
      BY <2>3, <3>2, KeepsDataOn
    <3> QED
      BY <2>3, <3>1, <3>2, <3>3
  <2>6. Good(Execute(m, broken, r, s, n + 1))
    <3>1. \/ Execute(m, broken, r, s, n + 1) = r
          \/ \E f : Execute(m, broken, r, s, n + 1) = [r EXCEPT !.failed = f]
          \/ /\ ~Fails(r.db, m, s.statement)
             /\ Execute(m, broken, r, s, n + 1) = [r EXCEPT !.db = Done(r.db, m, s.statement)]
      <4>1. PICK f : f = r.failed \cup {s.step}
        OBVIOUS
      <4> QED
        BY <4>1 DEF Execute
    <3> HIDE DEF Good
    <3> QED
      BY <2>3, <2>4, <2>5, <3>1
  <2> HIDE DEF Good
  <2> QED
    BY <1>7, <2>3, <2>6
<1>8. PICK all : all = AllSteps(opened, m, statements, broken) /\ KeepsData(opened, all.db)
  <2>1. N \in T
    <3> HIDE DEF T
    <3>1. 0 .. N \subseteq T
      BY <1>1, <1>6, <1>7, UpTo
    <3> QED
      BY <1>1, <3>1
  <2> QED
    BY <1>5, <2>1
<1>9. Created(db, m, broken).db = db \/ Created(db, m, broken).db = opened \/ Created(db, m, broken).db = all.db
  BY <1>1, <1>3, <1>8 DEF Created, Closed
<1>10. KeepsData(db, db) /\ KeepsData(db, opened) /\ KeepsData(db, all.db)
  BY <1>4, <1>8 DEF KeepsData
<1> QED
  BY <1>9, <1>10

-----------------------------------------------------------------------------
\* The letters of a name stay what they are on the way into a table, and so do the references.
LEMMA StoredText ==
  ASSUME NEW db, NEW row, HasText(row)
  PROVE  /\ HasText(Stored(db, row)) /\ Stored(db, row).text.text = row.text.text
         /\ Stored(db, row).refs = row.refs
<1>1. PICK t, q : t = row.text /\ q = Quoted(db, t)
  OBVIOUS
<1>2. q.text = t.text /\ DOMAIN q = DOMAIN t
  <2>1. q = t \/ \E n : q = [t EXCEPT !.quotes = n]
    BY <1>1 DEF Quoted
  <2>2. "text" \in DOMAIN t
    BY <1>1 DEF HasText
  <2> QED
    BY <2>1, <2>2
<1>3. PICK new : new = Stored(db, row)
  OBVIOUS
<1>4. new = [row EXCEPT !.text = q]
  BY <1>1, <1>3 DEF Stored
<1>5. DOMAIN new = DOMAIN row /\ new.text = q /\ new.refs = row.refs
  BY <1>4 DEF HasText
<1> QED
  BY <1>1, <1>2, <1>3, <1>5 DEF HasText

LEMMA FetchedText ==
  ASSUME NEW row, HasText(row)
  PROVE  /\ HasText(FetchDbtRow(row)) /\ FetchDbtRow(row).text.text = row.text.text
         /\ FetchDbtRow(row).refs = row.refs
<1>1. PICK new : new = FetchDbtRow(row)
  OBVIOUS
<1>2. \E d : new = [row EXCEPT !.data = d]
  BY <1>1 DEF FetchDbtRow
<1>3. DOMAIN new = DOMAIN row /\ new.text = row.text /\ new.refs = row.refs
  BY <1>2 DEF HasText
<1> QED
  BY <1>1, <1>3 DEF HasText

\* The letters of a row are not those of a row of a table.
IsOther(rows, row) == \A i \in DOMAIN rows : rows[i].text.text # row.text.text

LEMMA InsertDiffers ==
  ASSUME NEW db, IsDatabase(db), NEW name \in DOMAIN db.tables, NEW row, HasText(row),
         Differ(db.tables[name].rows), IsOther(db.tables[name].rows, row)
  PROVE  LET rows == db.tables[name].rows
             new == Insert(db, name, row).tables[name].rows
         IN  /\ Differ(new)
             /\ \A i \in DOMAIN new : new[i].text.text = row.text.text \/ (i \in DOMAIN rows /\ new[i] = rows[i])
<1>1. PICK rows, new, id : /\ rows = db.tables[name].rows /\ new = Insert(db, name, row).tables[name].rows
                           /\ id = db.tables[name].last + 1
  OBVIOUS
<1>2. PICK stored : stored = Stored(db, row)
  OBVIOUS
<1>3. id \notin DOMAIN rows /\ new = [i \in DOMAIN rows \cup {id} |-> IF i = id THEN stored ELSE rows[i]]
  BY <1>1, <1>2, InsertedRow
<1>4. HasText(stored) /\ stored.text.text = row.text.text
  BY <1>2, StoredText
<1>5. DOMAIN new = DOMAIN rows \cup {id} /\ new[id] = stored /\ \A i \in DOMAIN rows : new[i] = rows[i]
  BY <1>3
<1>6. \A i \in DOMAIN new : HasText(new[i])
  BY <1>1, <1>4, <1>5 DEF Differ
<1>7. ASSUME NEW i \in DOMAIN new, NEW k \in DOMAIN new, new[i].text.text = new[k].text.text
      PROVE  i = k
  <2>1. CASE i = id \/ k = id
    BY <1>1, <1>4, <1>5, <1>7, <2>1 DEF IsOther
  <2>2. CASE i # id /\ k # id
    BY <1>1, <1>5, <1>7, <2>2 DEF Differ
  <2> QED
    BY <2>1, <2>2
<1>8. Differ(new)
  BY <1>6, <1>7 DEF Differ
<1> QED
  BY <1>1, <1>4, <1>5, <1>8

\* The rows of a file: their letters differ, and are not those of a table.
FileDiffers(file) ==
  /\ \A n \in DOMAIN file : HasText(file[n].row)
  /\ \A n, k \in DOMAIN file : file[n].row.text.text = file[k].row.text.text => n = k

AreOthers(rows, file) == \A n \in DOMAIN file : IsOther(rows, file[n].row)

\* Rows that are read into a table are in no other one, and in this one they are once.
LEMMA InsertsDiffer ==
  ASSUME NEW db, IsDatabase(db), NEW name, NEW file, IsList(file), NEW broken, NEW alone, NEW data,
         name \in data => /\ name \in DOMAIN db.tables /\ FileDiffers(file) /\ Differ(db.tables[name].rows)
                          /\ AreOthers(db.tables[name].rows, file)
  PROVE  LET new == Inserts(db, name, file, broken, alone).db
         IN  /\ DOMAIN new.tables = DOMAIN db.tables
             /\ \A other \in DOMAIN db.tables : other # name => new.tables[other] = db.tables[other]
             /\ name \in data => Differ(new.tables[name].rows)
<1>1. PICK N : N = Len(file) /\ N \in Nat /\ DOMAIN file = 1 .. N
  BY DEF IsList
<1>2. PICK after :
        /\ after[0] = [db |-> db, fails |-> 0] /\ after[N] = AllInserts(db, name, file, broken, alone)
        /\ \A n \in 1 .. N : after[n] = InsertRow(name, broken, alone, after[n - 1], FetchDbtRow(file[n].row), n)
  BY <1>1, InsertSteps
<1> DEFINE Left(rows, n) == \A k \in (n + 1) .. N : IsOther(rows, file[k].row)
           Agrees(d) == /\ IsDatabase(d) /\ DOMAIN d.tables = DOMAIN db.tables
                      /\ \A other \in DOMAIN db.tables : other # name => d.tables[other] = db.tables[other]
           Fine(d, n) == name \in data => Differ(d.tables[name].rows) /\ Left(d.tables[name].rows, n)
           Good(r, n) == DOMAIN r = {"db", "fails"} /\ Agrees(r.db) /\ Fine(r.db, n)
           T == {n \in 0 .. N : Good(after[n], n)}
<1>3. 0 \in T
  <2>1. Agrees(db)
    OBVIOUS
  <2>2. Fine(db, 0)
    BY <1>1 DEF AreOthers
  <2> HIDE DEF Agrees, Fine
  <2> QED
    BY <1>1, <1>2, <2>1, <2>2
<1>4. ASSUME NEW n \in 0 .. N, n + 1 \in 0 .. N, n \in T
      PROVE  n + 1 \in T
  <2>1. n + 1 \in 1 .. N /\ (n + 1) - 1 = n /\ n \in Nat
    BY <1>1, <1>4
  <2>2. PICK r, row : r = after[n] /\ row = FetchDbtRow(file[n + 1].row)
    OBVIOUS
  <2>3. after[n + 1] = InsertRow(name, broken, alone, r, row, n + 1) /\ Good(r, n)
    BY <1>2, <1>4, <2>1, <2>2
  <2>4. name \in data => HasText(row) /\ row.text.text = file[n + 1].row.text.text
    BY <1>1, <2>1, <2>2, FetchedText DEF FileDiffers
  <2>5. Fine(r.db, n + 1)
    <3>1. \A k \in ((n + 1) + 1) .. N : k \in (n + 1) .. N
      BY <1>1, <2>1
    <3> QED
      BY <2>3, <3>1
  <2>6. ASSUME NEW f
        PROVE  Good([r EXCEPT !.fails = f], n + 1)
    <3> HIDE DEF Agrees, Fine
    <3>1. PICK x : x = [r EXCEPT !.fails = f]
      OBVIOUS
    <3>2. DOMAIN x = {"db", "fails"} /\ x.db = r.db
      BY <2>3, <3>1
    <3> QED
      BY <2>3, <2>5, <3>1, <3>2
  <2>7. ASSUME name \in DOMAIN r.db.tables
        PROVE  Good([r EXCEPT !.db = Insert(r.db, name, row)], n + 1)
    <3>1. PICK d, e : d = r.db /\ e = Insert(d, name, row)
      OBVIOUS
    <3>2. Agrees(d) /\ Fine(d, n) /\ name \in DOMAIN d.tables /\ name \in DOMAIN db.tables
      BY <2>3, <2>7, <3>1
    <3>3. n + 1 \in (n + 1) .. N
      BY <1>1, <2>1
    <3>4. name \in data => Differ(d.tables[name].rows) /\ IsOther(d.tables[name].rows, row)
      BY <2>4, <3>2, <3>3 DEF IsOther
    <3>5. name \in data => /\ Differ(e.tables[name].rows)
                    /\ \A i \in DOMAIN e.tables[name].rows :
                         \/ e.tables[name].rows[i].text.text = row.text.text
                         \/ i \in DOMAIN d.tables[name].rows /\ e.tables[name].rows[i] = d.tables[name].rows[i]
      <4> SUFFICES ASSUME name \in data
                   PROVE  /\ Differ(e.tables[name].rows)
                          /\ \A i \in DOMAIN e.tables[name].rows :
                               \/ e.tables[name].rows[i].text.text = row.text.text
                               \/ /\ i \in DOMAIN d.tables[name].rows
                                  /\ e.tables[name].rows[i] = d.tables[name].rows[i]
        OBVIOUS
      <4>1. IsDatabase(d) /\ HasText(row)
        BY <2>4, <3>2
      <4>2. name \in DOMAIN d.tables /\ Differ(d.tables[name].rows) /\ IsOther(d.tables[name].rows, row)
        BY <3>2, <3>4
      <4> HIDE DEF Agrees, Fine
      <4> QED
        BY <3>1, <4>1, <4>2, InsertDiffers, SMTT(30)
    <3>6. Agrees(e)
      <4>1. IsDatabase(e) /\ DOMAIN e.tables = DOMAIN d.tables
        BY <3>1, <3>2, InsertFacts DEF Grows, SameTables
      <4>2. \A other \in DOMAIN d.tables : other # name => e.tables[other] = d.tables[other]
        BY <3>1, <3>2, OthersStay
      <4> QED
        BY <3>2, <4>1, <4>2
    <3>7. name \in data => Left(e.tables[name].rows, n + 1)
      <4> SUFFICES ASSUME name \in data, NEW k \in ((n + 1) + 1) .. N, NEW i \in DOMAIN e.tables[name].rows
                   PROVE  e.tables[name].rows[i].text.text # file[k].row.text.text
        BY DEF IsOther
      <4>1. k \in (n + 1) .. N /\ k # n + 1 /\ k \in DOMAIN file /\ n + 1 \in DOMAIN file
        BY <1>1, <2>1
      <4>2. row.text.text # file[k].row.text.text
        BY <2>4, <4>1 DEF FileDiffers
      <4>3. IsOther(d.tables[name].rows, file[k].row)
        BY <3>2, <4>1
      <4> QED
        BY <3>5, <4>2, <4>3 DEF IsOther
    <3>8. Fine(e, n + 1)
      BY <3>5, <3>7
    <3> HIDE DEF Agrees, Fine
    <3>9. PICK x : x = [r EXCEPT !.db = e]
      OBVIOUS
    <3>10. DOMAIN x = {"db", "fails"} /\ x.db = e
      BY <2>3, <3>9
    <3> QED
      BY <3>1, <3>6, <3>8, <3>9, <3>10
  <2>8. Good(InsertRow(name, broken, alone, r, row, n + 1), n + 1)
    <3>1. \/ \E f : InsertRow(name, broken, alone, r, row, n + 1) = [r EXCEPT !.fails = f]
          \/ /\ name \in DOMAIN r.db.tables
             /\ InsertRow(name, broken, alone, r, row, n + 1) = [r EXCEPT !.db = Insert(r.db, name, row)]
      <4>1. PICK f : f = r.fails + 1
        OBVIOUS
      <4> QED
        BY <4>1 DEF InsertRow, Refused
    <3> HIDE DEF Good
    <3> QED
      BY <2>6, <2>7, <3>1
  <2> HIDE DEF Good
  <2> QED
    BY <1>4, <2>3, <2>8
<1>5. PICK all : all = AllInserts(db, name, file, broken, alone) /\ Good(all, N)
  <2>1. N \in T
    <3> HIDE DEF T
    <3>1. 0 .. N \subseteq T
      BY <1>1, <1>3, <1>4, UpTo
    <3> QED
      BY <1>1, <3>1
  <2> HIDE DEF Good
  <2> QED
    BY <1>2, <2>1
<1>6. \/ Inserts(db, name, file, broken, alone) = all
      \/ Inserts(db, name, file, broken, alone) = [all EXCEPT !.db = db]
  BY <1>5 DEF Inserts, AllInserts
<1>7. Inserts(db, name, file, broken, alone).db \in {db, all.db}
  BY <1>5, <1>6
<1> QED
  BY <1>5, <1>7

-----------------------------------------------------------------------------
\* There are letters, of no row of a table, in neither database, and of no row of its files.
IsNew(name, letters) ==
  /\ HasLetters(letters)
  /\ \A db \in {source, target} : name \in DOMAIN db.tables =>
       \A i \in DOMAIN db.tables[name].rows : db.tables[name].rows[i].text.text # letters
  /\ \A d \in DOMAIN dirs : \A r \in DbtOf(d, name) : r.row.text.text # letters

InsertsNew(db, new) ==
  \A name \in DOMAIN db.tables : IsData(name) =>
    \A i \in DOMAIN new.tables[name].rows \ DOMAIN db.tables[name].rows :
      IsNew(name, new.tables[name].rows[i].text.text)

\* What is asked of other programs: what they insert into the data has a name of its own.
OthersInsertNew == changes' # changes => InsertsNew(source, source') /\ InsertsNew(target, target')

\* The file of a table is that of a table of the model, with the rows of the table.
IsFull(d) ==
  /\ NodesAreTold(d.model) /\ NodesAreNamed(d.model)
  /\ \A f \in DOMAIN d.dbt : \E n \in DOMAIN d.model.tables : d.model.tables[n].table.db = f
  /\ \A f \in DOMAIN d.dbt : IsData(f) => FileDiffers(d.dbt[f])

FullInv == \A d \in DOMAIN dirs : IsFull(dirs[d])

\* What is still to be dumped is a table of the model.
ToDumpInv ==
  /\ dumping.at = "model" => DOMAIN dirs[Newest].dbt = {}
  /\ dumping.at = "tables" => \A n \in dumping.left :
       \E k \in DOMAIN dirs[Newest].model.tables : dirs[Newest].model.tables[k].table.db = TableOf(n)

\* The files that are read are of tables of the model, and nobody writes them.
HasFiles(m, d) ==
  AreTold(m.tables) /\ \A f \in DOMAIN dirs[d].dbt : \E i \in DOMAIN m.tables : m.tables[i].db = f

ToReadInv ==
  reading.at # "idle" => HasFiles(reading.model, reading.dir) /\ (dumping = Idle \/ reading.dir # Newest)

\* What is still to be read into the data is not there yet.
LeftInv ==
  reading.at = "data" => \A n \in reading.left :
    IsData(Stems[n]) /\ Stems[n] \in DOMAIN target.tables =>
      AreOthers(target.tables[Stems[n]].rows, dirs[reading.dir].dbt[Stems[n]])

OnceInv ==
  /\ RowsDiffer(source) /\ RowsNamed(source) /\ RowsDiffer(target)
  /\ FullInv /\ ToDumpInv /\ ToReadInv /\ LeftInv

LEMMA NewRowDiffers ==
  ASSUME NEW db, IsDatabase(db), RowsDiffer(db), db \in {source, target},
         NEW name \in DOMAIN db.tables, NEW row, HasText(row),
         InsertsNew(db, Insert(db, name, row))
  PROVE  /\ RowsDiffer(Insert(db, name, row))
         /\ IsData(name) => IsNew(name, row.text.text)
<1>1. PICK new, rows, id : /\ new = Insert(db, name, row) /\ rows = db.tables[name].rows
                           /\ id = db.tables[name].last + 1
  OBVIOUS
<1>2. PICK stored : stored = Stored(db, row)
  OBVIOUS
<1>3. id \notin DOMAIN rows /\ new.tables[name].rows = [i \in DOMAIN rows \cup {id} |-> IF i = id THEN stored ELSE rows[i]]
  BY <1>1, <1>2, InsertedRow
<1>4. ASSUME IsData(name)
      PROVE  IsNew(name, row.text.text) /\ Differ(new.tables[name].rows)
  <2>1. new.tables[name].rows[id] = stored /\ id \in DOMAIN new.tables[name].rows
    BY <1>3
  <2>2. stored.text.text = row.text.text
    BY <1>2, StoredText
  <2>3. IsNew(name, row.text.text)
    BY <1>1, <1>3, <1>4, <2>1, <2>2 DEF InsertsNew
  <2>4. IsOther(rows, row)
    BY <1>1, <2>3 DEF IsNew, IsOther
  <2>5. Differ(rows)
    BY <1>1, <1>4 DEF RowsDiffer
  <2> QED
    BY <1>1, <2>3, <2>4, <2>5, InsertDiffers
<1>5. DOMAIN new.tables = DOMAIN db.tables
  BY <1>1, InsertFacts DEF SameTables
<1>6. \A other \in DOMAIN db.tables : other # name => new.tables[other] = db.tables[other]
  BY <1>1, OthersStay
<1>7. RowsDiffer(new)
  BY <1>4, <1>5, <1>6 DEF RowsDiffer
<1> QED
  BY <1>1, <1>4, <1>7

LEMMA FewerDiffer ==
  ASSUME NEW rows, Differ(rows), NEW few, DOMAIN few \subseteq DOMAIN rows, \A i \in DOMAIN few : few[i] = rows[i]
  PROVE  Differ(few)
BY DEF Differ

LEMMA ChangesCount == ASSUME ReadInv, Change PROVE changes' # changes
BY DumpAssumption DEF ReadInv, CountersInv, Change

LEMMA SourceDiffers ==
  ASSUME DataDiffer, ReadInv, RowsDiffer(source), [Next]_vars, OthersInsertNew
  PROVE  RowsDiffer(source)'
<1>1. IsDatabase(source)
  BY DEF ReadInv, DumpInv, SourceInv
<1>2. CASE UNCHANGED source
  BY <1>2 DEF RowsDiffer
<1>3. CASE WriteSource
  <2>1. InsertsNew(source, source')
    BY <1>3, ChangesCount DEF WriteSource, OthersInsertNew
  <2>2. ASSUME NEW w \in Writes, source' \in Inserted(source, w)
        PROVE  RowsDiffer(source)'
    <3>1. PICK name, row : name = w[1] /\ row = w[2]
      OBVIOUS
    <3>2. source' = Insert(source, name, row) /\ name \in DOMAIN source.tables /\ HasText(row)
      BY <2>2, <3>1 DEF Inserted, Refused, DataDiffer
    <3>3. InsertsNew(source, Insert(source, name, row))
      BY <2>1, <3>2
    <3>4. RowsDiffer(Insert(source, name, row))
      BY <1>1, <3>2, <3>3, NewRowDiffers
    <3> QED
      BY <3>2, <3>4
  <2>3. ASSUME NEW name \in DOMAIN source.tables, NEW id \in DOMAIN source.tables[name].rows,
               source' = Deleted(source, name, id)
        PROVE  RowsDiffer(source)'
    <3>1. PICK new, rows : new = Deleted(source, name, id) /\ rows = source.tables[name].rows
      OBVIOUS
    <3>2. /\ DOMAIN new.tables = DOMAIN source.tables
          /\ \A n \in DOMAIN source.tables : n # name => new.tables[n] = source.tables[n]
      BY <1>1, <3>1, DeletedFacts DEF SameTables
    <3>3. new.tables[name].rows = [i \in DOMAIN rows \ {id} |-> rows[i]]
      BY <1>1, <3>1 DEF Deleted, IsDatabase, IsTable
    <3>4. IsData(name) => Differ(new.tables[name].rows)
      BY <3>1, <3>3, FewerDiffer DEF RowsDiffer
    <3>5. RowsDiffer(new)
      BY <3>2, <3>4 DEF RowsDiffer
    <3> QED
      BY <2>3, <3>1, <3>5
  <2> QED
    BY <1>3, <2>2, <2>3 DEF WriteSource
<1>4. UNCHANGED source \/ WriteSource
  BY DEF Next, vars, onDump, WriteTarget, CreateDumpDir, DumpModel, DumpTable, EndDump, ReadInDumpFiles,
         ReadTargetModel, Create, CheckEmpty, ReadInTable, EndRead, CreateDb, Crash
<1> QED
  BY <1>2, <1>3, <1>4

-----------------------------------------------------------------------------
LEMMA SourceNamed ==
  ASSUME ReadInv, RowsNamed(source), [Next]_vars, OthersInsertNew
  PROVE  RowsNamed(source)'
<1>1. IsDatabase(source)
  BY DEF ReadInv, DumpInv, SourceInv
<1>2. CASE UNCHANGED source
  BY <1>2 DEF RowsNamed
<1>3. CASE WriteSource
  <2>1. InsertsNew(source, source')
    BY <1>3, ChangesCount DEF WriteSource, OthersInsertNew
  <2>2. DOMAIN source'.tables = DOMAIN source.tables
    <3>1. ASSUME NEW w \in Writes, source' \in Inserted(source, w)
          PROVE  DOMAIN source'.tables = DOMAIN source.tables
      BY <1>1, <3>1, InsertFacts DEF Inserted, Refused, SameTables
    <3>2. ASSUME NEW name \in DOMAIN source.tables, NEW id, source' = Deleted(source, name, id)
          PROVE  DOMAIN source'.tables = DOMAIN source.tables
      BY <1>1, <3>2, DeletedFacts DEF SameTables
    <3> QED
      BY <1>3, <3>1, <3>2 DEF WriteSource
  <2>3. ASSUME NEW name \in DOMAIN source.tables, NEW i \in DOMAIN source.tables[name].rows,
               i \in DOMAIN source'.tables[name].rows
        PROVE  source'.tables[name].rows[i] = source.tables[name].rows[i]
    <3>1. ASSUME NEW w \in Writes, source' \in Inserted(source, w)
          PROVE  source'.tables[name].rows[i] = source.tables[name].rows[i]
      BY <1>1, <3>1, InsertFacts DEF Inserted, Refused, Grows
    <3>2. ASSUME NEW other \in DOMAIN source.tables, NEW id, source' = Deleted(source, other, id)
          PROVE  source'.tables[name].rows[i] = source.tables[name].rows[i]
      <4>1. CASE name # other
        BY <1>1, <3>2, <4>1, DeletedFacts
      <4>2. CASE name = other
        <5>1. PICK new, rows : new = Deleted(source, name, id) /\ rows = source.tables[name].rows
          OBVIOUS
        <5>2. new.tables[name].rows = [k \in DOMAIN rows \ {id} |-> rows[k]]
          BY <1>1, <5>1 DEF Deleted, IsDatabase, IsTable
        <5> QED
          BY <2>3, <3>2, <4>2, <5>1, <5>2
      <4> QED
        BY <4>1, <4>2
    <3> QED
      BY <1>3, <3>1, <3>2 DEF WriteSource
  <2> SUFFICES ASSUME NEW name \in DOMAIN source.tables, IsData(name), NEW i \in DOMAIN source'.tables[name].rows
               PROVE  HasLetters(source'.tables[name].rows[i].text.text)
    BY <2>2 DEF RowsNamed, AreNamed
  <2>4. CASE i \in DOMAIN source.tables[name].rows
    BY <2>3, <2>4 DEF RowsNamed, AreNamed
  <2>5. CASE i \notin DOMAIN source.tables[name].rows
    BY <2>1, <2>5 DEF InsertsNew, IsNew
  <2> QED
    BY <2>4, <2>5
<1>4. UNCHANGED source \/ WriteSource
  BY DEF Next, vars, onDump, WriteTarget, CreateDumpDir, DumpModel, DumpTable, EndDump, ReadInDumpFiles,
         ReadTargetModel, Create, CheckEmpty, ReadInTable, EndRead, CreateDb, Crash
<1> QED
  BY <1>2, <1>3, <1>4

-----------------------------------------------------------------------------
LEMMA NoTextFields == "text" \in DOMAIN NoText
BY DEF NoText

LEMMA EmptyConcat ==
  ASSUME NEW s, IsList(s)
  PROVE  s \o << >> = s
<1>1. s \in Seq({s[n] : n \in 1 .. Len(s)})
  BY ListIsSeq
<1> QED
  BY <1>1

LEMMA ConcatOne ==
  ASSUME NEW s, IsList(s), NEW x
  PROVE  /\ DOMAIN (s \o <<x>>) = 1 .. (Len(s) + 1) /\ (s \o <<x>>)[Len(s) + 1] = x
         /\ \A i \in 1 .. Len(s) : (s \o <<x>>)[i] = s[i]
<1> DEFINE X == {s[n] : n \in 1 .. Len(s)} \cup {x}
<1>1. s \in Seq(X)
  BY ListIsSeq
<1> HIDE DEF X
<1> QED
  BY <1>1 DEF IsList

\* The line that a failed write leaves has the letters of its row, or none.
LEMMA TornFacts ==
  ASSUME NEW r, HasText(r.row), NEW torn \in TornLines(r)
  PROVE  \/ torn = << >>
         \/ \E x : /\ torn = <<x>> /\ HasText(x.row)
                  /\ (x.row.text.text = r.row.text.text \/ ~HasLetters(x.row.text.text))
<1>1. ASSUME NEW text \in {NoText, r.row.text}, torn = <<[id |-> r.id, row |-> Cut(r.row, text)]>>
      PROVE  \E x : /\ torn = <<x>> /\ HasText(x.row)
                   /\ (x.row.text.text = r.row.text.text \/ ~HasLetters(x.row.text.text))
  <2>1. PICK row, x : row = Cut(r.row, text) /\ x = [id |-> r.id, row |-> row]
    OBVIOUS
  <2>2. PICK refs : refs = [c \in DOMAIN r.row.refs |-> 0]
    OBVIOUS
  <2>3. row = [r.row EXCEPT !.text = text, !.data = "none", !.refs = refs]
    BY <2>1, <2>2 DEF Cut
  <2>4. DOMAIN row = DOMAIN r.row /\ row.text = text
    BY <2>3 DEF HasText
  <2>5. "text" \in DOMAIN text
    <3>1. "text" \in DOMAIN NoText
      BY Zenon, NoTextFields
    <3> QED
      BY <1>1, <3>1 DEF HasText
  <2>6. HasText(row)
    BY <2>4, <2>5 DEF HasText
  <2>7. row.text.text = r.row.text.text \/ ~HasLetters(row.text.text)
    BY <1>1, <2>4, NoLetters
  <2>8. torn = <<x>> /\ x.row = row
    BY <1>1, <2>1
  <2> QED
    BY <2>6, <2>7, <2>8
<1> QED
  BY <1>1 DEF TornLines

LEMMA PartDiffers ==
  ASSUME NEW t, IsTable(t), Differ(t.rows), AreNamed(t.rows), NEW list, list = DbtRows(t.rows),
         NEW file, IsPart(list, file)
  PROVE  FileDiffers(file)
<1>1. /\ IsList(list)
      /\ \A i \in DOMAIN list : list[i].id \in DOMAIN t.rows /\ list[i].row = t.rows[list[i].id]
      /\ \A i, k \in DOMAIN list : list[i].id = list[k].id => i = k
  BY DbtRowsAre
<1>2. FileDiffers(list) /\ \A i \in DOMAIN list : HasLetters(list[i].row.text.text)
  BY <1>1 DEF FileDiffers, Differ, AreNamed
<1>3. ASSUME NEW n \in 0 .. Len(list), NEW part, part = SubSeq(list, 1, n)
      PROVE  /\ IsList(part) /\ Len(part) = n /\ n \in Nat /\ FileDiffers(part)
             /\ \A i \in DOMAIN part : i \in DOMAIN list /\ part[i] = list[i]
  <2>1. IsList(part) /\ Len(part) = n
    BY <1>1, <1>3, PartIsList DEF IsList
  <2>2. DOMAIN part \subseteq DOMAIN list /\ \A i \in DOMAIN part : part[i] = list[i]
    BY <1>1, <1>3 DEF IsList
  <2> QED
    BY <1>2, <2>1, <2>2 DEF FileDiffers
<1>4. ASSUME NEW n \in 0 .. Len(list) - 1, NEW torn \in TornLines(list[n + 1]), file = SubSeq(list, 1, n) \o torn
      PROVE  FileDiffers(file)
  <2>1. n \in 0 .. Len(list) /\ n + 1 \in DOMAIN list /\ n \in Nat
    BY <1>1 DEF IsList
  <2>2. PICK part : part = SubSeq(list, 1, n)
    OBVIOUS
  <2>3. /\ IsList(part) /\ Len(part) = n /\ FileDiffers(part)
        /\ \A i \in DOMAIN part : i \in DOMAIN list /\ part[i] = list[i]
    BY <1>3, <2>1, <2>2
  <2>4. CASE torn = << >>
    <3>1. file = part
      BY <1>4, <2>2, <2>3, <2>4, EmptyConcat
    <3> QED
      BY <2>3, <3>1
  <2>5. CASE torn # << >>
    <3>1. PICK x : /\ torn = <<x>> /\ HasText(x.row)
                   /\ (x.row.text.text = list[n + 1].row.text.text \/ ~HasLetters(x.row.text.text))
      BY <1>2, <2>1, <2>5, TornFacts DEF FileDiffers
    <3>2. DOMAIN file = 1 .. (n + 1) /\ file[n + 1] = x /\ \A i \in 1 .. n : file[i] = part[i]
      BY <1>4, <2>1, <2>2, <2>3, <3>1, ConcatOne
    <3>3. ASSUME NEW i \in 1 .. n
          PROVE  file[i] = list[i] /\ i \in DOMAIN list /\ file[i].row.text.text # x.row.text.text
      <4>1. i \in DOMAIN list /\ file[i] = list[i] /\ i # n + 1
        BY <2>1, <2>3, <3>2 DEF IsList
      <4> QED
        BY <1>2, <2>1, <3>1, <4>1 DEF FileDiffers
    <3>4. \A i \in DOMAIN file : HasText(file[i].row)
      BY <1>2, <2>1, <3>1, <3>2, <3>3 DEF FileDiffers
    <3>5. ASSUME NEW i \in DOMAIN file, NEW k \in DOMAIN file, file[i].row.text.text = file[k].row.text.text
          PROVE  i = k
      <4>1. CASE i = n + 1 \/ k = n + 1
        <5>1. ASSUME NEW j \in DOMAIN file, file[j].row.text.text = x.row.text.text
              PROVE  j = n + 1
          BY <2>1, <3>2, <3>3, <5>1
        <5>2. CASE i = n + 1
          BY <3>2, <3>5, <5>1, <5>2
        <5>3. CASE k = n + 1
          BY <3>2, <3>5, <5>1, <5>3
        <5> QED
          BY <4>1, <5>2, <5>3
      <4>2. CASE i # n + 1 /\ k # n + 1
        BY <1>2, <2>1, <3>2, <3>3, <3>5, <4>2 DEF FileDiffers
      <4> QED
        BY <4>1, <4>2
    <3> QED
      BY <3>4, <3>5 DEF FileDiffers
  <2> QED
    BY <2>4, <2>5
<1> QED
  BY <1>3, <1>4 DEF IsPart

\* What the steps of a dump do to the directories.
LEMMA DirMade ==
  ASSUME DirsInv, CreateDumpDir
  PROVE  /\ Newest \in Nat /\ DOMAIN dirs = 1 .. Newest /\ DOMAIN dirs' = 1 .. (Newest + 1) /\ Newest' = Newest + 1
         /\ dirs'[Newest + 1] = NoDir /\ \A d \in 1 .. Newest : dirs'[d] = dirs[d]
<1>1. dirs' = Append(dirs, NoDir)
  BY DEF CreateDumpDir
<1>2. PICK S : dirs \in Seq(S)
  BY DEF DirsInv
<1> QED
  BY <1>1, <1>2 DEF Newest

LEMMA NewestWritten ==
  ASSUME DirsInv, Newest > 0, NEW d, DOMAIN d = {"model", "dbt"}, dirs' = [dirs EXCEPT ![Newest] = d]
  PROVE  /\ Newest \in DOMAIN dirs /\ DOMAIN dirs' = DOMAIN dirs /\ Newest' = Newest /\ dirs'[Newest] = d
         /\ \A n \in DOMAIN dirs : n # Newest => dirs'[n] = dirs[n]
<1>1. Newest \in DOMAIN dirs
  BY DirsFacts
<1> QED
  BY <1>1, DirsChanged DEF Newest

LEMMA ModelWritten ==
  ASSUME DirsInv, Newest > 0, NEW m, SaveModelFile(m)
  PROVE  /\ Newest \in DOMAIN dirs /\ DOMAIN dirs' = DOMAIN dirs /\ Newest' = Newest
         /\ dirs'[Newest].model = SaveModel(m) /\ dirs'[Newest].dbt = dirs[Newest].dbt
         /\ \A n \in DOMAIN dirs : n # Newest => dirs'[n] = dirs[n]
<1>1. Newest \in DOMAIN dirs
  BY DirsFacts
<1>2. PICK old, file : old = dirs[Newest] /\ file = SaveModel(m)
  OBVIOUS
<1>3. PICK d : d = [old EXCEPT !.model = file]
  OBVIOUS
<1>4. DOMAIN d = {"model", "dbt"} /\ d.model = file /\ d.dbt = old.dbt
  BY <1>1, <1>2, <1>3 DEF DirsInv
<1>5. dirs' = [dirs EXCEPT ![Newest] = d]
  BY <1>2, <1>3 DEF SaveModelFile
<1> QED
  BY <1>2, <1>4, <1>5, NewestWritten

LEMMA FileWritten ==
  ASSUME DirsInv, Newest > 0, NEW name, NEW list, dirs' = WithFile(name, list)
  PROVE  /\ Newest \in DOMAIN dirs /\ DOMAIN dirs' = DOMAIN dirs /\ Newest' = Newest
         /\ dirs'[Newest].model = dirs[Newest].model
         /\ DOMAIN dirs'[Newest].dbt = DOMAIN dirs[Newest].dbt \cup {name}
         /\ \A f \in DOMAIN dirs'[Newest].dbt :
              dirs'[Newest].dbt[f] = IF f = name THEN list ELSE dirs[Newest].dbt[f]
         /\ \A n \in DOMAIN dirs : n # Newest => dirs'[n] = dirs[n]
<1>1. Newest \in DOMAIN dirs
  BY DirsFacts
<1>2. PICK old, dbt : /\ old = dirs[Newest]
                      /\ dbt = [f \in DOMAIN old.dbt \cup {name} |-> IF f = name THEN list ELSE old.dbt[f]]
  OBVIOUS
<1>3. PICK d : d = [old EXCEPT !.dbt = dbt]
  OBVIOUS
<1>4. DOMAIN d = {"model", "dbt"} /\ d.model = old.model /\ d.dbt = dbt
  BY <1>1, <1>2, <1>3 DEF DirsInv
<1>5. dirs' = [dirs EXCEPT ![Newest] = d]
  BY <1>2, <1>3 DEF WithFile
<1>6. /\ DOMAIN dirs' = DOMAIN dirs /\ Newest' = Newest /\ dirs'[Newest] = d
      /\ \A n \in DOMAIN dirs : n # Newest => dirs'[n] = dirs[n]
  BY <1>4, <1>5, NewestWritten
<1>7. DOMAIN dbt = DOMAIN old.dbt \cup {name} /\ \A f \in DOMAIN dbt : dbt[f] = IF f = name THEN list ELSE old.dbt[f]
  BY <1>2
<1> QED
  BY <1>1, <1>2, <1>4, <1>6, <1>7

-----------------------------------------------------------------------------
\* Every step keeps the directories full.
LEMMA DumpStepFull ==
  ASSUME TablesAreTold, ReadInv, RowsDiffer(source), RowsNamed(source), FullInv, ToDumpInv, [Next]_vars
  PROVE  FullInv' /\ ToDumpInv'
<1>1. DumpInv /\ SourceInv /\ DirsInv /\ DumpingInv
  BY DEF ReadInv, DumpInv
<1>2. CASE UNCHANGED <<dirs, dumping>>
  <2>1. FullInv'
    BY <1>2 DEF FullInv
  <2>2. ToDumpInv'
    BY <1>2 DEF ToDumpInv, TableOf, Newest
  <2> QED
    BY <2>1, <2>2
<1>3. CASE UNCHANGED dirs /\ dumping' = Idle
  BY <1>3 DEF FullInv, ToDumpInv, Idle
<1>4. CASE CreateDumpDir
  <2>1. /\ Newest \in Nat /\ DOMAIN dirs = 1 .. Newest /\ DOMAIN dirs' = 1 .. (Newest + 1) /\ Newest' = Newest + 1
        /\ dirs'[Newest + 1] = NoDir /\ \A d \in 1 .. Newest : dirs'[d] = dirs[d]
    BY <1>1, <1>4, DirMade
  <2>2. IsFull(NoDir)
    <3>1. PICK f : f = NoDir.model
      OBVIOUS
    <3>2. DOMAIN f.tables = {} /\ DOMAIN NoDir.dbt = {}
      BY <3>1 DEF NoDir
    <3> QED
      BY <3>1, <3>2 DEF IsFull, NodesAreTold, NodesAreNamed
  <2>3. FullInv'
    <3> SUFFICES ASSUME NEW d \in DOMAIN dirs' PROVE IsFull(dirs'[d])
      BY DEF FullInv
    <3>1. d = Newest + 1 \/ d \in 1 .. Newest
      BY <2>1
    <3> QED
      BY <2>1, <2>2, <3>1 DEF FullInv
  <2>4. ToDumpInv'
    <3>1. dumping'.at = "model"
      BY <1>4 DEF CreateDumpDir
    <3>2. DOMAIN NoDir.dbt = {}
      BY DEF NoDir
    <3> QED
      BY <2>1, <3>1, <3>2 DEF ToDumpInv
  <2> QED
    BY <2>3, <2>4
<1>5. ASSUME dumping.at = "model", NEW m, m = ReadDatabaseModel(source) \/ m \in PartModels(source), SaveModelFile(m),
             dumping' = [at |-> "tables", model |-> m, ok |-> TRUE, left |-> InDatabase(m.tables)]
      PROVE  FullInv' /\ ToDumpInv'
  <2>1. Newest > 0
    BY <1>1, <1>5 DEF DumpingInv
  <2>2. /\ Newest \in DOMAIN dirs /\ DOMAIN dirs' = DOMAIN dirs /\ Newest' = Newest
        /\ dirs'[Newest].model = SaveModel(m) /\ dirs'[Newest].dbt = dirs[Newest].dbt
        /\ \A n \in DOMAIN dirs : n # Newest => dirs'[n] = dirs[n]
    BY <1>1, <1>5, <2>1, ModelWritten
  <2>3. DOMAIN dirs[Newest].dbt = {}
    BY <1>5 DEF ToDumpInv
  <2>4. IsSound(m) /\ AreTold(m.tables)
    BY <1>1, <1>5, SourceModelsAreSound, SourceIsTold
  <2>5. /\ NodesAreTold(SaveModel(m)) /\ NodesAreNamed(SaveModel(m))
        /\ LET list == AllTables(m.tables)
           IN  \A n \in DOMAIN list : /\ n \in DOMAIN SaveModel(m).tables
                                      /\ SaveModel(m).tables[n].table.db = m.tables[list[n]].db
    <3>1. \A i \in DOMAIN m.tables : IsTold(m.tables[i])
      BY <2>4 DEF AreTold
    <3> QED
      BY <2>4, <3>1, SavedIsTold
  <2>6. IsFull(dirs'[Newest])
    BY <2>2, <2>3, <2>5 DEF IsFull
  <2>7. FullInv'
    BY <2>2, <2>6 DEF FullInv
  <2>8. ToDumpInv'
    <3>1. dumping'.at = "tables" /\ dumping'.left = InDatabase(m.tables) /\ dumping'.model = m
      BY <1>5
    <3>2. ASSUME NEW n \in InDatabase(m.tables)
          PROVE  \E k \in DOMAIN SaveModel(m).tables : SaveModel(m).tables[k].table.db = m.tables[AllTables(m.tables)[n]].db
      BY <2>5 DEF InDatabase
    <3>3. \A n : TableOf(n)' = m.tables[AllTables(m.tables)[n]].db
      BY <3>1 DEF TableOf
    <3> QED
      BY <2>2, <3>1, <3>2, <3>3 DEF ToDumpInv
  <2> QED
    BY <2>7, <2>8
<1>6. CASE DumpModel
  <2>1. /\ dumping.at = "model"
        /\ \/ UNCHANGED dirs /\ dumping' = Idle
           \/ \E m : /\ m = ReadDatabaseModel(source) \/ m \in PartModels(source)
                     /\ SaveModelFile(m)
                     /\ dumping' = [at |-> "tables", model |-> m, ok |-> TRUE, left |-> InDatabase(m.tables)]
    BY <1>6 DEF DumpModel
  <2> QED
    BY <1>3, <1>5, <2>1
<1>7. CASE DumpTable
  <2>1. \/ dumping' = Idle
        \/ \E ok : dumping' = [dumping EXCEPT !.left = @ \ {Min(@)}, !.ok = @ /\ ok]
    BY <1>7 DEF DumpTable
  <2>2. dumping.at = "tables" /\ dumping.left # {}
    BY <1>7 DEF DumpTable
  <2>3. DOMAIN dumping = {"at", "model", "ok", "left"} /\ dumping.left \subseteq Nat
    BY <1>1, <2>2 DEF DumpingInv
  <2>4. ASSUME FullInv', Newest' = Newest, dirs'[Newest].model = dirs[Newest].model
        PROVE  ToDumpInv'
    <3>1. CASE dumping' = Idle
      BY <3>1 DEF ToDumpInv, Idle
    <3>2. CASE dumping' # Idle
      <4>1. dumping'.at = "tables" /\ dumping'.left \subseteq dumping.left /\ dumping'.model = dumping.model
        BY <2>1, <2>2, <2>3, <3>2
      <4>2. \A n : TableOf(n)' = TableOf(n)
        BY <4>1 DEF TableOf
      <4> QED
        BY <2>2, <2>4, <4>1, <4>2 DEF ToDumpInv
    <3> QED
      BY <3>1, <3>2
  <2>5. CASE UNCHANGED dirs
    BY <2>4, <2>5 DEF FullInv, Newest
  <2>6. CASE ~(UNCHANGED dirs)
    <3>1. PICK name, list : name = NextTable /\ list = DbtRows(source.tables[name].rows)
      OBVIOUS
    <3>2. /\ name \in DOMAIN source.tables /\ IsTable(source.tables[name]) /\ Newest > 0
          /\ \E file : IsPart(list, file) /\ dirs' = WithFile(name, file)
      BY <1>1, <1>7, <2>6, <3>1, TableDumped
    <3>3. PICK part : IsPart(list, part) /\ dirs' = WithFile(name, part)
      BY <3>2
    <3>5. /\ Newest \in DOMAIN dirs /\ DOMAIN dirs' = DOMAIN dirs /\ Newest' = Newest
          /\ dirs'[Newest].model = dirs[Newest].model
          /\ DOMAIN dirs'[Newest].dbt = DOMAIN dirs[Newest].dbt \cup {name}
          /\ \A f \in DOMAIN dirs'[Newest].dbt :
               dirs'[Newest].dbt[f] = IF f = name THEN part ELSE dirs[Newest].dbt[f]
          /\ \A k \in DOMAIN dirs : k # Newest => dirs'[k] = dirs[k]
      BY <1>1, <3>2, <3>3, FileWritten
    <3>6. \E k \in DOMAIN dirs[Newest].model.tables : dirs[Newest].model.tables[k].table.db = name
      <4>1. PICK n1 \in dumping.left : TableOf(n1) = name
        BY <2>2, <2>3, <3>1, MinIsElement DEF TableOf, NextTable
      <4> QED
        BY <2>2, <4>1 DEF ToDumpInv
    <3>7. IsData(name) => FileDiffers(part)
      <4>1. IsData(name) => Differ(source.tables[name].rows) /\ AreNamed(source.tables[name].rows)
        BY <3>2 DEF RowsDiffer, RowsNamed
      <4> QED
        BY <3>1, <3>2, <3>3, <4>1, PartDiffers
    <3>8. IsFull(dirs'[Newest])
      <4>1. PICK old, new : old = dirs[Newest] /\ new = dirs'[Newest]
        OBVIOUS
      <4>2. IsFull(old)
        BY <3>5, <4>1 DEF FullInv
      <4>3. /\ new.model = old.model /\ DOMAIN new.dbt = DOMAIN old.dbt \cup {name}
            /\ \A f \in DOMAIN new.dbt : new.dbt[f] = IF f = name THEN part ELSE old.dbt[f]
        BY <3>5, <4>1
      <4> QED
        BY <3>6, <3>7, <4>1, <4>2, <4>3 DEF IsFull
    <3>9. FullInv'
      BY <3>5, <3>8 DEF FullInv
    <3> QED
      BY <2>4, <3>5, <3>9
  <2> QED
    BY <2>5, <2>6
<1>8. CASE EndDump \/ Crash
  <2>1. UNCHANGED dirs /\ dumping' = Idle
    BY <1>8 DEF EndDump, Crash
  <2> QED
    BY <1>3, <2>1
<1>9. CASE \/ UNCHANGED vars \/ WriteSource \/ WriteTarget \/ ReadInDumpFiles \/ ReadTargetModel \/ Create
           \/ CheckEmpty \/ ReadInTable \/ EndRead \/ CreateDb
  <2>1. UNCHANGED <<dirs, dumping>>
    BY <1>9, OthersLeaveDump DEF vars, onDump, WriteSource
  <2> QED
    BY <1>2, <2>1
<1> QED
  BY <1>4, <1>6, <1>7, <1>8, <1>9 DEF Next

\* A directory that is not being dumped to stays as it is.
LEMMA OldDirsStay ==
  ASSUME ReadInv, [Next]_vars, NEW d \in DOMAIN dirs, dumping = Idle \/ d # Newest
  PROVE  d \in DOMAIN dirs' /\ dirs'[d] = dirs[d] /\ (dumping' = Idle \/ d # Newest')
<1>1. DumpInv /\ DirsInv /\ DumpingInv
  BY DEF ReadInv, DumpInv
<1>2. CASE UNCHANGED dirs /\ (dumping' = dumping \/ dumping' = Idle)
  BY <1>2 DEF Newest
<1>3. CASE CreateDumpDir
  <2>1. /\ Newest \in Nat /\ DOMAIN dirs = 1 .. Newest /\ DOMAIN dirs' = 1 .. (Newest + 1) /\ Newest' = Newest + 1
        /\ \A n \in 1 .. Newest : dirs'[n] = dirs[n]
    BY <1>1, <1>3, DirMade
  <2>2. d \in 1 .. (Newest + 1) /\ d # Newest + 1
    BY <2>1
  <2> QED
    BY <2>1, <2>2
<1>4. CASE DumpModel
  <2>1. dumping.at = "model"
    BY <1>4 DEF DumpModel
  <2>2. Newest > 0 /\ d # Newest
    BY <1>1, <2>1 DEF DumpingInv, Idle
  <2>3. UNCHANGED dirs \/ \E m : SaveModelFile(m)
    BY <1>4 DEF DumpModel
  <2>4. CASE UNCHANGED dirs
    BY <2>2, <2>4 DEF Newest
  <2>5. ASSUME NEW m, SaveModelFile(m)
        PROVE  d \in DOMAIN dirs' /\ dirs'[d] = dirs[d] /\ d # Newest'
    BY <1>1, <2>2, <2>5, ModelWritten
  <2> QED
    BY <2>2, <2>3, <2>4, <2>5
<1>5. CASE DumpTable
  <2>1. dumping.at = "tables"
    BY <1>5 DEF DumpTable
  <2>2. d # Newest
    BY <2>1 DEF Idle
  <2>3. CASE UNCHANGED dirs
    BY <2>2, <2>3 DEF Newest
  <2>4. CASE ~(UNCHANGED dirs)
    <3>1. PICK name, list : name = NextTable /\ list = DbtRows(source.tables[name].rows)
      OBVIOUS
    <3>2. Newest > 0 /\ \E part : IsPart(list, part) /\ dirs' = WithFile(name, part)
      BY <1>1, <1>5, <2>4, <3>1, TableDumped
    <3>3. PICK part : dirs' = WithFile(name, part)
      BY <3>2
    <3> QED
      BY <1>1, <2>2, <3>2, <3>3, FileWritten
  <2> QED
    BY <2>3, <2>4
<1>6. CASE \/ UNCHANGED vars \/ WriteSource \/ WriteTarget \/ EndDump \/ ReadInDumpFiles \/ ReadTargetModel \/ Create
           \/ CheckEmpty \/ ReadInTable \/ EndRead \/ CreateDb \/ Crash
  <2>1. UNCHANGED dirs /\ (dumping' = dumping \/ dumping' = Idle)
    BY <1>6, OthersLeaveDump DEF vars, onDump, WriteSource, EndDump, Crash
  <2> QED
    BY <1>2, <2>1
<1> QED
  BY <1>3, <1>4, <1>5, <1>6 DEF Next

-----------------------------------------------------------------------------
\* The table of a file is found by its name in the database, and CheckEmpty has counted its rows.
LEMMA FileIsFound ==
  ASSUME NEW T, SoundTables(T), NEW name, \E i \in DOMAIN T : T[i].db = name
  PROVE  LET i == GetTableByDbName(T, name) IN i # 0 /\ i \in DOMAIN T /\ T[i].db = name
<1>1. PICK ids : ids = {i \in DOMAIN T : T[i].db = name} /\ ids # {}
  OBVIOUS
<1>2. FirstOf(T, ids) \in ids
  BY <1>1, FirstIsOne DEF SoundTables
<1>3. 0 \notin DOMAIN T
  BY DEF SoundTables
<1> QED
  BY <1>1, <1>2, <1>3 DEF GetTableByDbName

LEMMA NamedAreListed ==
  ASSUME NEW T, IsTree(T), \A i \in DOMAIN T : IsNamed(T[i]), NEW i \in DOMAIN T
  PROVE  i \in ToSet(AllTables(T))
<1>1. Path(T, i) \in Seq(DOMAIN T) /\ Path(T, i) # << >>
  BY PathFacts
<1>2. Head(Path(T, i)) \in DOMAIN T
  BY <1>1
<1>3. i \in Listed(T)
  BY <1>2 DEF Listed, IsNamed
<1>4. \E n \in DOMAIN AllTables(T) : AllTables(T)[n] = i
  BY <1>3, AllTablesListsEach DEF IsListing
<1> QED
  BY <1>4 DEF ToSet

LEMMA FileIsCounted ==
  ASSUME NEW m, IsSound(m), NEW d, HasFiles(m, d), NEW f \in DOMAIN dirs[d].dbt, IsData(f)
  PROVE  f \in Counted(m)
<1>1. PICK i \in DOMAIN m.tables : m.tables[i].db = f
  BY DEF HasFiles
<1>2. IsTold(m.tables[i]) /\ IsNamed(m.tables[i]) /\ IsTree(m.tables) /\ \A k \in DOMAIN m.tables : IsNamed(m.tables[k])
  BY DEF HasFiles, AreTold, IsSound, SoundTables
<1>3. m.tables[i].base # "AoEnvironment" /\ i \in ToSet(AllTables(m.tables))
  BY <1>1, <1>2, NamedAreListed DEF IsTold
<1>4. f \notin {""}
  BY <1>1, <1>2, Zenon DEF IsNamed
<1> QED
  BY <1>1, <1>3, <1>4 DEF Counted

\* ReadInDump goes on with the model and the directory that it has begun with.
LEMMA StepFields ==
  ASSUME ReadingInv, reading.at # "idle", NEW at, NEW clean,
         Step(at) \/ reading' = [reading EXCEPT !.at = at, !.clean = clean]
  PROVE  /\ reading'.at = at /\ reading'.dir = reading.dir /\ reading'.model = reading.model
         /\ reading'.left = reading.left
<1>1. DOMAIN reading = {"at", "dir", "model", "ok", "clean", "left"}
  BY DEF ReadingInv
<1> QED
  BY <1>1 DEF Step

Goes ==
  /\ reading.at # "idle" /\ reading'.dir = reading.dir /\ reading'.model = reading.model
  /\ reading'.left \subseteq reading.left
  /\ reading'.at = "data" => reading.at = "data" \/ CheckEmpty
  /\ reading'.at # "data" => reading.at # "data" /\ reading'.left = reading.left

LEMMA ReadingGoes ==
  ASSUME ReadInv, [Next]_vars, ~ReadInDumpFiles, reading'.at # "idle"
  PROVE  Goes
<1>1. ReadingInv
  BY DEF ReadInv
<1>2. CASE UNCHANGED reading
  BY <1>2 DEF Goes
<1>3. CASE WriteTarget /\ ~(UNCHANGED reading)
  <2>1. reading.at # "idle" /\ reading' = [reading EXCEPT !.clean = FALSE]
    BY <1>3 DEF WriteTarget
  <2> QED
    BY <1>1, <2>1 DEF Goes, ReadingInv
<1>4. ASSUME \/ reading' = Idle
             \/ \E a : Answer(a) \/ reading' = [Idle EXCEPT !.answer = a]
      PROVE  FALSE
  BY <1>4 DEF Answer, Idle
<1>5. CASE ReadTargetModel
  <2>1. reading.at = "model"
    BY <1>5 DEF ReadTargetModel
  <2>2. \/ \E a : Answer(a) \/ reading' = [Idle EXCEPT !.answer = a]
        \/ \E at \in {"create", "check"} : Step(at)
        \/ reading' = [reading EXCEPT !.at = "create", !.clean = FALSE]
    BY <1>5 DEF ReadTargetModel, Compare, AnswerAfter
  <2>3. \E at \in {"create", "check"} : Step(at) \/ reading' = [reading EXCEPT !.at = at, !.clean = FALSE]
    BY <1>4, <2>2
  <2>4. PICK at \in {"create", "check"} : Step(at) \/ reading' = [reading EXCEPT !.at = at, !.clean = FALSE]
    BY <2>3
  <2> QED
    BY <1>1, <2>1, <2>4, StepFields DEF Goes
<1>6. CASE Create
  <2>1. reading.at = "create"
    BY <1>6 DEF Create
  <2>2. \/ \E a : reading' = [Idle EXCEPT !.answer = a]
        \/ \E clean : reading' = [reading EXCEPT !.at = "check", !.clean = clean]
    BY <1>6 DEF Create, AnswerAfter
  <2>3. PICK clean : reading' = [reading EXCEPT !.at = "check", !.clean = clean]
    BY <1>4, <2>2
  <2> QED
    BY <1>1, <2>1, <2>3, StepFields DEF Goes
<1>7. CASE CheckEmpty
  <2>1. reading.at = "check"
    BY <1>7 DEF CheckEmpty
  <2>2. \/ \E a : Answer(a) \/ reading' = [Idle EXCEPT !.answer = a]
        \/ Step("data")
    BY <1>7 DEF CheckEmpty, AnswerAfter
  <2>3. Step("data")
    BY <1>4, <2>2
  <2> QED
    BY <1>1, <1>7, <2>1, <2>3, StepFields DEF Goes
<1>8. CASE ReadInTable
  <2>1. reading.at = "data"
    BY <1>8 DEF ReadInTable
  <2>2. \/ reading' = Idle
        \/ \E ok, clean : reading' = [reading EXCEPT !.left = @ \ {Min(@)}, !.ok = ok, !.clean = clean]
    BY <1>8 DEF ReadInTable
  <2>3. PICK left : left = reading.left \ {Min(reading.left)}
    OBVIOUS
  <2>4. \E ok, clean : reading' = [reading EXCEPT !.left = left, !.ok = ok, !.clean = clean]
    BY <1>4, <2>2, <2>3
  <2>5. reading'.at = "data" /\ reading'.dir = reading.dir /\ reading'.model = reading.model /\ reading'.left = left
    BY <1>1, <2>1, <2>4 DEF ReadingInv
  <2> QED
    BY <2>1, <2>3, <2>5 DEF Goes
<1>9. CASE EndRead \/ CreateDb \/ Crash
  BY <1>4, <1>9 DEF EndRead, CreateDb, Crash
<1>10. CASE \/ UNCHANGED vars \/ WriteSource \/ CreateDumpDir \/ DumpModel \/ DumpTable \/ EndDump
  BY <1>2, <1>10 DEF vars, onRead, WriteSource, CreateDumpDir, DumpModel, DumpTable, EndDump
<1> QED
  BY <1>2, <1>3, <1>5, <1>6, <1>7, <1>8, <1>9, <1>10 DEF Next

LEMMA ToReadStep ==
  ASSUME ReadInv, FullInv, ToReadInv, [Next]_vars
  PROVE  ToReadInv'
<1>1. CASE reading'.at = "idle"
  BY <1>1 DEF ToReadInv
<1>2. CASE ReadInDumpFiles
  <2>1. PICK d \in 1 .. Newest : (dumping = Idle \/ d # Newest) /\ Begin(d, ReadFileModel(dirs[d].model))
    BY <1>2 DEF ReadInDumpFiles
  <2>2. d \in DOMAIN dirs /\ dirs' = dirs /\ dumping' = dumping /\ Newest' = Newest
    BY <1>2, DirsFacts DEF ReadInv, DumpInv, ReadInDumpFiles, onDump, Newest
  <2>3. PICK m, file : m = ReadFileModel(dirs[d].model) /\ file = dirs[d].model
    OBVIOUS
  <2>4. IsFile(file) /\ IsFull(dirs[d])
    BY <2>2, <2>3 DEF ReadInv, FilesInv, IsDir, FullInv
  <2>5. /\ AreTold(m.tables)
        /\ \A n \in DOMAIN file.tables : \E i \in DOMAIN m.tables : m.tables[i].db = file.tables[n].table.db
    BY <2>3, <2>4, FileReadIsTold DEF IsFull
  <2>6. reading'.model = m /\ reading'.dir = d
    BY <2>1, <2>3 DEF Begin
  <2>7. \A f \in DOMAIN dirs[d].dbt : \E i \in DOMAIN m.tables : m.tables[i].db = f
    BY <2>3, <2>4, <2>5 DEF IsFull
  <2> QED
    BY <2>1, <2>2, <2>5, <2>6, <2>7 DEF ToReadInv, HasFiles
<1>3. CASE reading'.at # "idle" /\ ~ReadInDumpFiles
  <2>1. reading.at # "idle" /\ reading'.dir = reading.dir /\ reading'.model = reading.model
    BY <1>3, ReadingGoes DEF Goes
  <2>2. reading.dir \in DOMAIN dirs
    BY <2>1 DEF ReadInv, ReadingInv
  <2>3. HasFiles(reading.model, reading.dir) /\ (dumping = Idle \/ reading.dir # Newest)
    BY <2>1 DEF ToReadInv
  <2>4. PICK d : d = reading.dir /\ d \in DOMAIN dirs /\ (dumping = Idle \/ d # Newest)
    BY <2>2, <2>3
  <2>5. dirs'[d] = dirs[d] /\ (dumping' = Idle \/ d # Newest')
    BY <2>4, OldDirsStay
  <2> QED
    BY <2>1, <2>3, <2>4, <2>5 DEF ToReadInv, HasFiles
<1> QED
  BY <1>1, <1>2, <1>3

-----------------------------------------------------------------------------
\* What is still to be read stays new to its table.
LEMMA LeftUnchanged ==
  ASSUME ReadInv, RowsDiffer(target), ToReadInv, LeftInv, [Next]_vars, UNCHANGED target, ~CheckEmpty
  PROVE  RowsDiffer(target)' /\ LeftInv'
<1>1. RowsDiffer(target)'
  BY DEF RowsDiffer
<1>2. ASSUME reading'.at = "data"
      PROVE  LeftInv'
  <2>1. ~ReadInDumpFiles
    BY <1>2 DEF ReadInDumpFiles, Begin
  <2>2. Goes /\ reading.at = "data"
    BY <1>2, <2>1, ReadingGoes DEF Goes
  <2>3. PICK d : d = reading.dir /\ d \in DOMAIN dirs /\ (dumping = Idle \/ d # Newest)
    BY <2>2 DEF ReadInv, ReadingInv, ToReadInv
  <2>4. dirs'[d] = dirs[d]
    BY <2>3, OldDirsStay
  <2> QED
    BY <2>2, <2>3, <2>4 DEF LeftInv, Goes
<1> QED
  BY <1>1, <1>2 DEF LeftInv

LEMMA LeftIsChecked ==
  ASSUME ReadInv, RowsDiffer(target), ToReadInv, CheckEmpty
  PROVE  RowsDiffer(target)' /\ LeftInv'
<1>1. target' = target /\ dirs' = dirs
  BY DEF CheckEmpty, onDump
<1>2. RowsDiffer(target)'
  BY <1>1 DEF RowsDiffer
<1>3. ASSUME reading'.at = "data"
      PROVE  LeftInv'
  <2>1. reading.at = "check"
    BY DEF CheckEmpty
  <2>2. /\ Counted(reading.model) \subseteq DOMAIN target.tables
        /\ IsEmpty(reading.model) /\ Step("data")
    BY <1>3 DEF CheckEmpty, Answer, AnswerAfter, Idle
  <2>3. /\ reading'.dir = reading.dir /\ reading'.left = reading.left
        /\ IsSound(reading.model)
        /\ \A n \in reading.left : Stems[n] \in DOMAIN dirs[reading.dir].dbt
    BY <2>1, <2>2, StepFields DEF ReadInv, ReadingInv
  <2>4. ASSUME NEW n \in reading.left, IsData(Stems[n])
        PROVE  AreOthers(target.tables[Stems[n]].rows, dirs[reading.dir].dbt[Stems[n]])
    <3>1. PICK name, m, d : name = Stems[n] /\ m = reading.model /\ d = reading.dir
      OBVIOUS
    <3>2. HasFiles(m, d) /\ name \in DOMAIN dirs[d].dbt
      BY <2>1, <2>3, <3>1 DEF ToReadInv
    <3>3. name \in Counted(m)
      BY <2>3, <2>4, <3>1, <3>2, FileIsCounted
    <3>4. name \in DOMAIN target.tables /\ Cardinality(DOMAIN target.tables[name].rows) = 0
      BY <2>2, <3>1, <3>3 DEF IsEmpty, Count
    <3>5. IsFiniteSet(DOMAIN target.tables[name].rows)
      BY <3>4, RowsAreFinite DEF ReadInv, IsDatabase, IsTable
    <3>6. DOMAIN target.tables[name].rows = {}
      BY <3>4, <3>5, FS_EmptySet
    <3> QED
      BY <3>1, <3>6 DEF AreOthers, IsOther
  <2> QED
    BY <1>1, <2>3, <2>4 DEF LeftInv
<1> QED
  BY <1>2, <1>3 DEF LeftInv

LEMMA LeftIsNotWritten ==
  ASSUME DataDiffer, ReadInv, RowsDiffer(target), LeftInv, WriteTarget, OthersInsertNew
  PROVE  RowsDiffer(target)' /\ LeftInv'
<1>1. PICK w \in Writes : target' \in Inserted(target, w)
  BY DEF WriteTarget
<1>2. PICK name, row : name = w[1] /\ row = w[2]
  OBVIOUS
<1>3. IsDatabase(target) /\ target' = Insert(target, name, row) /\ name \in DOMAIN target.tables /\ HasText(row)
  BY <1>1, <1>2 DEF ReadInv, Inserted, Refused, DataDiffer
<1>4. InsertsNew(target, Insert(target, name, row))
  BY <1>3, ChangesCount DEF WriteTarget, OthersInsertNew
<1>5. RowsDiffer(Insert(target, name, row)) /\ (IsData(name) => IsNew(name, row.text.text))
  BY <1>3, <1>4, NewRowDiffers
<1>6. RowsDiffer(target)'
  BY <1>3, <1>5
<1>7. ASSUME reading'.at = "data"
      PROVE  LeftInv'
  <2>1. dirs' = dirs
    BY DEF WriteTarget, onDump
  <2>2. /\ reading.at = "data" /\ reading'.dir = reading.dir /\ reading'.left = reading.left
        /\ reading.dir \in DOMAIN dirs
        /\ \A n \in reading.left : Stems[n] \in DOMAIN dirs[reading.dir].dbt
    BY <1>7 DEF WriteTarget, ReadInv, ReadingInv
  <2>3. PICK old, new, id : /\ old = target.tables[name].rows /\ new = target'.tables[name].rows
                            /\ id = target.tables[name].last + 1
    OBVIOUS
  <2>4. PICK stored : stored = Stored(target, row) /\ stored.text.text = row.text.text
    BY <1>3, StoredText
  <2>5. new = [i \in DOMAIN old \cup {id} |-> IF i = id THEN stored ELSE old[i]]
    BY <1>3, <2>3, <2>4, InsertedRow
  <2>6. /\ DOMAIN target'.tables = DOMAIN target.tables
        /\ \A other \in DOMAIN target.tables : other # name => target'.tables[other] = target.tables[other]
    BY <1>3, InsertFacts, OthersStay DEF SameTables
  <2>7. ASSUME NEW n \in reading.left, IsData(Stems[n]), Stems[n] \in DOMAIN target.tables
        PROVE  AreOthers(target'.tables[Stems[n]].rows, dirs[reading.dir].dbt[Stems[n]])
    <3>1. PICK stem, d : stem = Stems[n] /\ d = reading.dir /\ d \in DOMAIN dirs /\ stem \in DOMAIN dirs[d].dbt
      BY <2>2
    <3>2. AreOthers(target.tables[stem].rows, dirs[d].dbt[stem])
      BY <2>2, <2>7, <3>1 DEF LeftInv
    <3>3. CASE stem = name
      <4>1. IsNew(name, row.text.text)
        BY <1>5, <2>7, <3>1, <3>3
      <4>2. ASSUME NEW k \in DOMAIN dirs[d].dbt[name]
            PROVE  dirs[d].dbt[name][k].row.text.text # row.text.text
        <5>1. dirs[d].dbt[name][k] \in DbtOf(d, name)
          BY <3>1, <3>3 DEF DbtOf, ToSet
        <5> QED
          BY <3>1, <4>1, <5>1 DEF IsNew
      <4>3. ASSUME NEW k \in DOMAIN dirs[d].dbt[name], NEW i \in DOMAIN new
            PROVE  new[i].text.text # dirs[d].dbt[name][k].row.text.text
        <5>1. CASE i = id
          BY <2>4, <2>5, <4>2, <5>1
        <5>2. CASE i # id
          BY <2>3, <2>5, <3>2, <3>3, <5>2 DEF AreOthers, IsOther
        <5> QED
          BY <5>1, <5>2
      <4> QED
        BY <2>3, <3>1, <3>3, <4>3 DEF AreOthers, IsOther
    <3>4. CASE stem # name
      BY <2>6, <2>7, <3>1, <3>2, <3>4
    <3> QED
      BY <3>3, <3>4
  <2> QED
    BY <2>1, <2>2, <2>6, <2>7 DEF LeftInv
<1> QED
  BY <1>6, <1>7 DEF LeftInv

LEMMA LeftIsReadOnce ==
  ASSUME TablesAreTold, ReadInv, RowsDiffer(target), FullInv, ToReadInv, LeftInv, ReadInTable, ~(UNCHANGED target)
  PROVE  RowsDiffer(target)' /\ LeftInv'
<1>1. PICK stem, d, rows : stem = Stems[Min(reading.left)] /\ d = reading.dir /\ rows = dirs[d].dbt[stem]
  OBVIOUS
<1>2. reading.at = "data" /\ reading.left # {} /\ dirs' = dirs
  BY DEF ReadInTable, onDump
<1>3. reading.left \in SUBSET Nat /\ Min(reading.left) \in reading.left
  BY <1>2, DumpAssumption, MinIsElement DEF ReadInv, ReadingInv
<1>4. d \in DOMAIN dirs /\ stem \in DOMAIN dirs[d].dbt
  BY <1>1, <1>2, <1>3 DEF ReadInv, ReadingInv
<1>5. IsList(rows) /\ Len(rows) \in Nat /\ DOMAIN rows = 1 .. Len(rows)
  BY <1>1, <1>4 DEF ReadInv, FilesInv, IsDir, IsList
<1>6. PICK T : T = reading.model.tables /\ SoundTables(T) /\ \E i \in DOMAIN T : T[i].db = stem
  BY <1>1, <1>2, <1>4 DEF ToReadInv, HasFiles, ReadInv, ReadingInv, IsSound
<1>7. PICK i : i = GetTableByDbName(T, stem) /\ i # 0 /\ T[i].db = stem
  BY <1>6, FileIsFound
<1>8. \E broken, alone : \E n \in {Len(rows)} \cup DOMAIN rows :
        target' = Inserts(target, stem, SubSeq(rows, 1, n), broken, alone).db
  <2> DEFINE U == reading.model.tables
             k == IF GetTableByDbName(U, stem) # 0 THEN GetTableByDbName(U, stem) ELSE GetTableByName(U, stem)
             Put(broken, alone, n) == Inserts(target, U[k].db, SubSeq(rows, 1, n), broken, alone).db
  <2>1. \/ UNCHANGED target
        \/ target' = Put(0, FALSE, Len(rows))
        \/ \E n \in DOMAIN rows : target' = Put(n, FALSE, Len(rows))
        \/ target' = Put(0, TRUE, Len(rows))
        \/ \E n \in DOMAIN rows : target' = Put(0, TRUE, n)
    BY <1>1 DEF ReadInTable
  <2>2. U[k].db = stem
    BY <1>6, <1>7
  <2> HIDE DEF U, k
  <2> QED
    BY <2>1, <2>2
<1>9. PICK broken, alone : \E n \in {Len(rows)} \cup DOMAIN rows :
        target' = Inserts(target, stem, SubSeq(rows, 1, n), broken, alone).db
  BY <1>8
<1>10. PICK n \in 0 .. Len(rows) : target' = Inserts(target, stem, SubSeq(rows, 1, n), broken, alone).db
  BY <1>5, <1>9
<1>11. PICK part : part = SubSeq(rows, 1, n)
  OBVIOUS
<1>12. IsList(part) /\ DOMAIN part \subseteq DOMAIN rows /\ \A k \in DOMAIN part : part[k] = rows[k]
  BY <1>5, <1>10, <1>11, PartIsList DEF IsList
<1>13. PICK data : data = {name \in DOMAIN target.tables : IsData(name)}
  OBVIOUS
<1>14. stem \in data => /\ stem \in DOMAIN target.tables /\ FileDiffers(part) /\ Differ(target.tables[stem].rows)
                        /\ AreOthers(target.tables[stem].rows, part)
  <2> SUFFICES ASSUME stem \in data
               PROVE  FileDiffers(part) /\ Differ(target.tables[stem].rows) /\ AreOthers(target.tables[stem].rows, part)
    BY <1>13
  <2>1. IsData(stem) /\ stem \in DOMAIN target.tables
    BY <1>13
  <2>2. FileDiffers(rows)
    BY <1>1, <1>4, <2>1 DEF FullInv, IsFull
  <2>3. FileDiffers(part)
    BY <1>12, <2>2 DEF FileDiffers
  <2>4. AreOthers(target.tables[stem].rows, rows)
    BY <1>1, <1>2, <1>3, <2>1 DEF LeftInv
  <2>5. AreOthers(target.tables[stem].rows, part)
    BY <1>12, <2>4 DEF AreOthers
  <2> QED
    BY <2>1, <2>3, <2>5 DEF RowsDiffer
<1>15. /\ DOMAIN target'.tables = DOMAIN target.tables
       /\ \A other \in DOMAIN target.tables : other # stem => target'.tables[other] = target.tables[other]
       /\ stem \in data => Differ(target'.tables[stem].rows)
  <2>1. PICK new : new = Inserts(target, stem, part, broken, alone).db
    OBVIOUS
  <2>2. IsDatabase(target)
    BY DEF ReadInv
  <2>3. LET given == Inserts(target, stem, part, broken, alone).db
        IN  /\ DOMAIN given.tables = DOMAIN target.tables
            /\ \A other \in DOMAIN target.tables : other # stem => given.tables[other] = target.tables[other]
            /\ stem \in data => Differ(given.tables[stem].rows)
    BY <1>12, <1>14, <2>2, InsertsDiffer
  <2> QED
    BY <1>10, <1>11, <2>1, <2>3
<1>16. RowsDiffer(target)'
  BY <1>13, <1>15 DEF RowsDiffer
<1>17. ASSUME reading'.at = "data"
       PROVE  LeftInv'
  <2>1. PICK left : left = reading.left \ {Min(reading.left)}
    OBVIOUS
  <2>2. \/ reading' = Idle
        \/ \E ok, clean : reading' = [reading EXCEPT !.left = left, !.ok = ok, !.clean = clean]
    BY <2>1 DEF ReadInTable
  <2>3. reading'.left = left /\ reading'.dir = d
    <3>1. \E ok, clean : reading' = [reading EXCEPT !.left = left, !.ok = ok, !.clean = clean]
      <4>1. reading' # Idle
        BY <1>17 DEF Idle
      <4> QED
        BY <2>2, <4>1
    <3>2. DOMAIN reading = {"at", "dir", "model", "ok", "clean", "left"}
      BY <1>2 DEF ReadInv, ReadingInv
    <3> QED
      BY <1>1, <3>1, <3>2
  <2>4. ASSUME NEW k \in left, IsData(Stems[k]), Stems[k] \in DOMAIN target.tables
        PROVE  AreOthers(target'.tables[Stems[k]].rows, dirs[d].dbt[Stems[k]])
    <3>1. k \in reading.left /\ k # Min(reading.left) /\ k \in DOMAIN Stems /\ Min(reading.left) \in DOMAIN Stems
      BY <1>2, <1>3, <2>1, <2>4 DEF ReadInv, ReadingInv
    <3>2. Stems[k] # stem
      BY <1>1, <3>1 DEF TablesAreTold
    <3>3. AreOthers(target.tables[Stems[k]].rows, dirs[d].dbt[Stems[k]])
      BY <1>1, <1>2, <2>4, <3>1 DEF LeftInv
    <3> QED
      BY <1>15, <2>4, <3>2, <3>3
  <2> QED
    BY <1>2, <1>15, <2>3, <2>4 DEF LeftInv
<1> QED
  BY <1>16, <1>17 DEF LeftInv

LEMMA CreateDiffers ==
  ASSUME TablesAreTold, ReadInv, RowsDiffer(target), ToReadInv, Create \/ CreateDb
  PROVE  RowsDiffer(target)' /\ LeftInv'
<1>1. IsDatabase(target)
  BY DEF ReadInv
<1>2. ASSUME NEW m, IsSound(m), \A i \in DOMAIN m.tables : IsTold(m.tables[i]), NEW broken,
             target' = Created(target, m, broken).db
      PROVE  RowsDiffer(target)'
  <2>1. RowsDiffer(Created(target, m, broken).db)
    BY <1>1, <1>2, CreatedKeepsData, KeptDataDiffer
  <2> QED
    BY <1>2, <2>1
<1>3. CASE Create
  <2>1. reading.at = "create"
    BY <1>3 DEF Create
  <2>2. IsSound(reading.model) /\ \A i \in DOMAIN reading.model.tables : IsTold(reading.model.tables[i])
    BY <2>1 DEF ReadInv, ReadingInv, ToReadInv, HasFiles, AreTold
  <2>3. \/ UNCHANGED target
        \/ target' = [target EXCEPT !.exists = TRUE]
        \/ \E broken : target' = Created(target, reading.model, broken).db
    BY <1>3 DEF Create
  <2>4. ASSUME UNCHANGED target
        PROVE  RowsDiffer(target)'
    BY <2>4 DEF RowsDiffer
  <2>5. ASSUME target' = [target EXCEPT !.exists = TRUE]
        PROVE  RowsDiffer(target)'
    <3>1. target'.tables = target.tables
      BY <1>1, <2>5 DEF IsDatabase
    <3> QED
      BY <3>1 DEF RowsDiffer
  <2>6. RowsDiffer(target)'
    BY <1>2, <2>2, <2>3, <2>4, <2>5
  <2>7. \/ \E a : reading' = [Idle EXCEPT !.answer = a]
        \/ \E clean : reading' = [reading EXCEPT !.at = "check", !.clean = clean]
    BY <1>3 DEF Create, AnswerAfter
  <2>8. reading'.at # "data"
    <3>1. \A clean : reading' = [reading EXCEPT !.at = "check", !.clean = clean] => reading'.at = "check"
      BY <2>1, StepFields DEF ReadInv
    <3> QED
      BY <2>7, <3>1 DEF Idle
  <2> QED
    BY <2>6, <2>8 DEF LeftInv
<1>4. CASE CreateDb
  <2>1. PICK m \in Models : target' = Created(target, ReadFileModel(SaveModel(m)), 0).db
    BY <1>4 DEF CreateDb
  <2>2. PICK file, read : file = SaveModel(m) /\ read = ReadFileModel(file)
    OBVIOUS
  <2>3. IsSound(m) /\ IsFile(file) /\ IsSound(read)
    BY <2>2, DumpAssumption, ModelIsSound, SavedIsFile, FileIsSound
  <2>4. NodesAreTold(file)
    BY <2>2, <2>3, SavedIsTold DEF TablesAreTold
  <2>5. \A i \in DOMAIN read.tables : IsTold(read.tables[i])
    BY <2>2, <2>3, <2>4, FileReadIsTold
  <2>6. RowsDiffer(target)'
    BY <1>2, <2>1, <2>2, <2>3, <2>5
  <2>7. reading'.at # "data"
    BY <1>4 DEF CreateDb, Idle
  <2> QED
    BY <2>6, <2>7 DEF LeftInv
<1> QED
  BY <1>3, <1>4

LEMMA OnceInitial == DataDiffer /\ Init => OnceInv
<1> SUFFICES ASSUME DataDiffer, Init PROVE OnceInv
  OBVIOUS
<1>1. source \in Sources /\ target \in Targets /\ DOMAIN dirs = {} /\ dumping.at = "idle" /\ reading.at = "idle"
  BY DEF Init, Idle
<1>2. RowsDiffer(source) /\ RowsNamed(source) /\ RowsDiffer(target)
  BY <1>1 DEF DataDiffer
<1> QED
  BY <1>1, <1>2 DEF OnceInv, FullInv, ToDumpInv, ToReadInv, LeftInv

LEMMA OnceInductive ==
  ASSUME DataDiffer, ReadInv, OnceInv, [Next]_vars, OthersInsertNew
  PROVE  OnceInv'
<1>1. /\ RowsDiffer(source) /\ RowsNamed(source) /\ RowsDiffer(target) /\ FullInv /\ ToDumpInv /\ ToReadInv
      /\ LeftInv /\ TablesAreTold
  BY DEF OnceInv, DataDiffer
<1>2. RowsDiffer(source)' /\ RowsNamed(source)' /\ FullInv' /\ ToDumpInv' /\ ToReadInv'
  BY <1>1, SourceDiffers, SourceNamed, DumpStepFull, ToReadStep
<1>3. RowsDiffer(target)' /\ LeftInv'
  <2>1. CASE UNCHANGED target /\ ~CheckEmpty
    BY <1>1, <2>1, LeftUnchanged
  <2>2. CASE CheckEmpty
    BY <1>1, <2>2, LeftIsChecked
  <2>3. CASE WriteTarget
    BY <1>1, <2>3, LeftIsNotWritten
  <2>4. CASE Create \/ CreateDb
    BY <1>1, <2>4, CreateDiffers
  <2>5. CASE ReadInTable /\ ~(UNCHANGED target)
    BY <1>1, <2>5, LeftIsReadOnce
  <2>6. UNCHANGED target \/ WriteTarget \/ Create \/ ReadInTable \/ CreateDb
    BY DEF Next, vars, onRead, WriteSource, CreateDumpDir, DumpModel, DumpTable, EndDump,
           ReadInDumpFiles, ReadTargetModel, CheckEmpty, EndRead, Crash
  <2> QED
    BY <2>1, <2>2, <2>3, <2>4, <2>5, <2>6
<1> QED
  BY <1>2, <1>3 DEF OnceInv

LEMMA DifferIsOnce == RowsDiffer(target) => StoredOnce
<1> SUFFICES ASSUME RowsDiffer(target),
                    NEW d \in DOMAIN dirs, NEW name \in DOMAIN dirs[d].dbt \cap DOMAIN target.tables, IsData(name),
                    NEW r \in ToSet(dirs[d].dbt[name])
             PROVE  Cardinality(FromDump(name, r)) <= 1
  BY DEF StoredOnce
<1>1. PICK from : from = FromDump(name, r)
  OBVIOUS
<1>2. \A i, k \in from : i = k
  <2>1. PICK rows : rows = target.tables[name].rows /\ Differ(rows)
    BY DEF RowsDiffer
  <2>2. \A i \in from : i \in DOMAIN rows /\ rows[i].text.text = r.row.text.text
    BY <1>1, <2>1 DEF FromDump
  <2> QED
    BY <2>1, <2>2 DEF Differ
<1>3. CASE from = {}
  BY <1>1, <1>3, FS_EmptySet
<1>4. CASE from # {}
  <2>1. PICK i \in from : from = {i}
    <3>1. PICK i : i \in from
      BY <1>4
    <3>2. from = {i}
      BY <1>2, <3>1
    <3> QED
      BY <3>1, <3>2
  <2>2. Cardinality({i}) = 1
    BY FS_Singleton
  <2>3. Cardinality(from) <= 1
    BY <2>1, <2>2
  <2> QED
    BY <1>1, <2>3
<1> QED
  BY <1>3, <1>4

\* Whatever fails, wherever the process ends and however often it is tried again: a row of the
\* data is in the database at most once, where the names of the rows differ and other programs
\* insert none that is in a dump.
THEOREM RowsAreStoredOnce == ASSUME DataDiffer PROVE Spec /\ [][OthersInsertNew]_vars => []StoredOnce
<1>1. Init => ReadInv /\ OnceInv
  BY ReadInitial, OnceInitial
<1>2. ReadInv /\ OnceInv /\ [Next]_vars /\ [OthersInsertNew]_vars => (ReadInv /\ OnceInv)'
  <2> SUFFICES ASSUME ReadInv, OnceInv, [Next]_vars, [OthersInsertNew]_vars PROVE ReadInv' /\ OnceInv'
    OBVIOUS
  <2>1. OthersInsertNew
    BY DEF vars, OthersInsertNew
  <2> QED
    BY <2>1, ReadInductive, OnceInductive
<1>3. OnceInv => StoredOnce
  BY DifferIsOnce DEF OnceInv
<1> QED
  BY <1>1, <1>2, <1>3, PTL DEF Spec

-----------------------------------------------------------------------------
(***************************************************************************)
(* References lead to the row that they led to.                            *)
(***************************************************************************)
\* What is asked of the databases: a table of the source has a file, and a table of the target
\* that has no rows has never had one.
TablesAreNew ==
  /\ \A db \in Sources : DOMAIN db.tables \subseteq ToSet(Stems)
  /\ \A db \in Targets : IsFresh(db)

\* What is asked of other programs: they leave the names in a table of the source different, and
\* none without letters.
NamesDiffer ==
  \A name \in DOMAIN source.tables : Differ(source.tables[name].rows) /\ AreNamed(source.tables[name].rows)

\* A file is one of the files that are read in, and the letters of its rows differ.
DistinctInv ==
  \A d \in DOMAIN dirs : \A f \in DOMAIN dirs[d].dbt : f \in ToSet(Stems) /\ FileDiffers(dirs[d].dbt[f])

\* Nobody writes the files that have been read in.
AnsweredInv ==
  Finished => reading.dir \in DOMAIN dirs /\ (dumping = Idle \/ reading.dir # Newest)

\* All files are to be read in.
AllLeftInv ==
  reading.at \in {"model", "create", "check"} =>
    \A n \in DOMAIN Stems : Stems[n] \in DOMAIN dirs[reading.dir].dbt => n \in reading.left

\* The rows of a file have the ids that are their places, and their references.
IsReadIn(db, f, file) ==
  \A k \in DOMAIN file :
    LET rows == db.tables[f].rows
    IN  k \in DOMAIN rows /\ rows[k].text.text = file[k].row.text.text /\ rows[k].refs = file[k].row.refs

IsUnread(db, f) ==
  /\ DOMAIN db.tables[f].rows = {} /\ db.tables[f].last = 0
  /\ reading.at = "data" /\ \E n \in reading.left : Stems[n] = f

\* What has been counted is to be read into an empty table, or has been read in as it is.
KeptInv ==
  (reading.at = "data" \/ Finished) /\ reading.clean /\ target.kind = "sqlite" =>
    \A f \in DOMAIN dirs[reading.dir].dbt \cap Counted(reading.model) :
      /\ f \in DOMAIN target.tables
      /\ IsReadIn(target, f, dirs[reading.dir].dbt[f]) \/ IsUnread(target, f)

RefsInv == IsFresh(target) /\ DistinctInv /\ AnsweredInv /\ AllLeftInv /\ KeptInv

\* Rows that are read into an empty table of a SQLite database get their places as ids.
LEMMA InsertsAll ==
  ASSUME NEW db, IsDatabase(db), db.kind = "sqlite", NEW name \in DOMAIN db.tables, NEW file, IsList(file),
         FileDiffers(file), DOMAIN db.tables[name].rows = {}, db.tables[name].last = 0,
         NEW broken, broken \notin DOMAIN file, NEW alone
  PROVE  IsReadIn(Inserts(db, name, file, broken, alone).db, name, file)
<1>1. PICK N : N = Len(file) /\ N \in Nat /\ DOMAIN file = 1 .. N
  BY DEF IsList
<1>2. PICK after :
        /\ after[0] = [db |-> db, fails |-> 0] /\ after[N] = AllInserts(db, name, file, broken, alone)
        /\ \A n \in 1 .. N : after[n] = InsertRow(name, broken, alone, after[n - 1], FetchDbtRow(file[n].row), n)
  BY <1>1, InsertSteps, SMTT(30)
<1> DEFINE SameRow(a, b) == a.text.text = b.text.text /\ a.refs = b.refs
           Holds(t, n) == /\ t.last = n /\ DOMAIN t.rows = 1 .. n
                          /\ \A k \in 1 .. n : SameRow(t.rows[k], file[k].row)
           Fine(d, n) == /\ IsDatabase(d) /\ d.kind = "sqlite" /\ name \in DOMAIN d.tables
                         /\ Holds(d.tables[name], n)
           Good(r, n) == DOMAIN r = {"db", "fails"} /\ Fine(r.db, n)
           T == {n \in 0 .. N : Good(after[n], n)}
<1>3. 0 \in T
  <2>1. 1 .. 0 = {} /\ 0 \in 0 .. N
    BY <1>1
  <2>2. Fine(db, 0)
    BY <2>1
  <2> HIDE DEF Fine
  <2> QED
    BY <1>2, <2>1, <2>2
<1>4. ASSUME NEW n \in 0 .. N, n + 1 \in 0 .. N, n \in T
      PROVE  n + 1 \in T
  <2>1. n + 1 \in 1 .. N /\ (n + 1) - 1 = n /\ n \in Nat /\ n + 1 # broken /\ n + 1 \in DOMAIN file
    BY <1>1, <1>4
  <2>2. PICK r, row, d : r = after[n] /\ row = FetchDbtRow(file[n + 1].row) /\ d = r.db
    OBVIOUS
  <2>3. after[n + 1] = InsertRow(name, broken, alone, r, row, n + 1) /\ Good(r, n)
    BY <1>2, <1>4, <2>1, <2>2
  <2>4. HasText(row) /\ SameRow(row, file[n + 1].row)
    BY <2>1, <2>2, FetchedText DEF FileDiffers
  <2>5. PICK t : t = d.tables[name]
    OBVIOUS
  <2>6. IsDatabase(d) /\ d.kind = "sqlite" /\ name \in DOMAIN d.tables /\ Holds(t, n)
    BY <2>2, <2>3, <2>5
  <2>7. PICK stored : stored = Stored(d, row)
    OBVIOUS
  <2>8. SameRow(stored, file[n + 1].row)
    BY <2>4, <2>7, StoredText
  <2>9. ~Refused(d, name, row, Checked(d.kind))
    <3>1. ~Checked(d.kind)
      BY <2>6 DEF Checked
    <3>2. ASSUME NEW i \in DOMAIN t.rows
          PROVE  t.rows[i].text # stored.text
      <4>1. i \in 1 .. N /\ i # n + 1 /\ SameRow(t.rows[i], file[i].row)
        BY <1>1, <2>1, <2>6
      <4>2. file[i].row.text.text # file[n + 1].row.text.text
        BY <1>1, <2>1, <4>1 DEF FileDiffers
      <4> QED
        BY <2>8, <4>1, <4>2
    <3> QED
      BY <2>5, <2>6, <2>7, <3>1, <3>2 DEF Refused
  <2>10. PICK e : e = Insert(d, name, row)
    OBVIOUS
  <2>11. after[n + 1] = [r EXCEPT !.db = e]
    <3>1. ~BrokenOff(d, r.fails > 0, alone)
      BY <2>6 DEF BrokenOff
    <3> QED
      BY <2>1, <2>2, <2>3, <2>9, <2>10, <3>1 DEF InsertRow
  <2>12. IsDatabase(e) /\ e.kind = "sqlite" /\ name \in DOMAIN e.tables
    BY <2>6, <2>10, InsertFacts DEF Grows
  <2>13. /\ e.tables[name].last = n + 1
         /\ e.tables[name].rows = [i \in DOMAIN t.rows \cup {n + 1} |-> IF i = n + 1 THEN stored ELSE t.rows[i]]
    <3>1. PICK rows, new, id : /\ rows = d.tables[name].rows /\ new = Insert(d, name, row).tables[name]
                               /\ id = d.tables[name].last + 1
      OBVIOUS
    <3>2. IsDatabase(d) /\ name \in DOMAIN d.tables
      BY <2>6
    <3>3. new.last = id /\ new.rows = [i \in DOMAIN rows \cup {id} |-> IF i = id THEN stored ELSE rows[i]]
      BY <2>7, <3>1, <3>2, InsertedRow
    <3>4. id = n + 1 /\ rows = t.rows /\ new = e.tables[name]
      BY <2>5, <2>6, <2>10, <3>1
    <3> QED
      BY <3>3, <3>4
  <2>14. DOMAIN e.tables[name].rows = 1 .. (n + 1)
    BY <2>1, <2>6, <2>13
  <2>15. ASSUME NEW k \in 1 .. (n + 1)
         PROVE  SameRow(e.tables[name].rows[k], file[k].row)
    <3>1. CASE k = n + 1
      BY <2>8, <2>13, <3>1
    <3>2. CASE k # n + 1
      <4>1. k \in 1 .. n
        BY <2>1, <3>2
      <4>2. e.tables[name].rows[k] = t.rows[k]
        BY <2>6, <2>13, <3>2, <4>1
      <4> QED
        BY <2>6, <4>1, <4>2
    <3> QED
      BY <3>1, <3>2
  <2>16. Fine(e, n + 1)
    BY <2>12, <2>13, <2>14, <2>15
  <2> HIDE DEF Fine
  <2>17. PICK x : x = [r EXCEPT !.db = e]
    OBVIOUS
  <2>18. DOMAIN x = {"db", "fails"} /\ x.db = e
    BY <2>3, <2>17
  <2>19. Good(after[n + 1], n + 1)
    BY <2>11, <2>16, <2>17, <2>18
  <2> HIDE DEF Good
  <2> QED
    BY <1>4, <2>19
<1>5. PICK all : all = AllInserts(db, name, file, broken, alone) /\ Good(all, N)
  <2>1. N \in T
    <3> HIDE DEF T
    <3>1. 0 .. N \subseteq T
      BY <1>1, <1>3, <1>4, UpTo
    <3> QED
      BY <1>1, <3>1
  <2> HIDE DEF Good
  <2> QED
    BY <1>2, <2>1
<1>6. Inserts(db, name, file, broken, alone) = all
  <2>1. ~BrokenOff(db, all.fails > 0, alone)
    BY DEF BrokenOff
  <2> QED
    BY <1>5, <2>1 DEF Inserts, AllInserts
<1> QED
  BY <1>1, <1>5, <1>6 DEF IsReadIn

\* What has been read in stays.
LEMMA ReadInStays ==
  ASSUME NEW db, NEW new, Grows(db, new), NEW f \in DOMAIN db.tables, NEW file, IsReadIn(db, f, file)
  PROVE  f \in DOMAIN new.tables /\ IsReadIn(new, f, file)
BY DEF Grows, IsReadIn

-----------------------------------------------------------------------------
\* The files of a dump: the rows of the source, under the name of a table.
LEMMA DistinctStep ==
  ASSUME TablesAreNew, ReadInv, NamesDiffer, DistinctInv, [Next]_vars
  PROVE  DistinctInv'
<1>1. DumpInv /\ SourceInv /\ DirsInv /\ DumpingInv
  BY DEF ReadInv, DumpInv
<1>2. CASE UNCHANGED dirs
  BY <1>2 DEF DistinctInv
<1>3. CASE CreateDumpDir
  <2>1. /\ DOMAIN dirs = 1 .. Newest /\ DOMAIN dirs' = 1 .. (Newest + 1) /\ Newest \in Nat
        /\ dirs'[Newest + 1] = NoDir /\ \A d \in 1 .. Newest : dirs'[d] = dirs[d]
    BY <1>1, <1>3, DirMade
  <2>2. DOMAIN NoDir.dbt = {}
    BY DEF NoDir
  <2> SUFFICES ASSUME NEW d \in DOMAIN dirs', NEW f \in DOMAIN dirs'[d].dbt
               PROVE  f \in ToSet(Stems) /\ FileDiffers(dirs'[d].dbt[f])
    BY DEF DistinctInv
  <2>3. d \in DOMAIN dirs /\ dirs'[d] = dirs[d]
    BY <2>1, <2>2
  <2> QED
    BY <2>3 DEF DistinctInv
<1>4. CASE DumpModel /\ ~(UNCHANGED dirs)
  <2>1. PICK m : SaveModelFile(m)
    BY <1>4 DEF DumpModel
  <2>2. Newest > 0
    BY <1>1, <1>4 DEF DumpModel, DumpingInv
  <2>3. /\ DOMAIN dirs' = DOMAIN dirs /\ dirs'[Newest].dbt = dirs[Newest].dbt
        /\ \A n \in DOMAIN dirs : n # Newest => dirs'[n] = dirs[n]
    BY <1>1, <2>1, <2>2, ModelWritten
  <2>4. \A n \in DOMAIN dirs : dirs'[n].dbt = dirs[n].dbt
    BY <2>3
  <2> QED
    BY <2>3, <2>4 DEF DistinctInv
<1>5. CASE DumpTable /\ ~(UNCHANGED dirs)
  <2>1. PICK name, list : name = NextTable /\ list = DbtRows(source.tables[name].rows)
    OBVIOUS
  <2>2. /\ name \in DOMAIN source.tables /\ IsTable(source.tables[name]) /\ Newest > 0
        /\ \E file : IsPart(list, file) /\ dirs' = WithFile(name, file)
    BY <1>1, <1>5, <2>1, TableDumped
  <2>3. PICK part : IsPart(list, part) /\ dirs' = WithFile(name, part)
    BY <2>2
  <2>5. /\ DOMAIN dirs' = DOMAIN dirs
        /\ DOMAIN dirs'[Newest].dbt = DOMAIN dirs[Newest].dbt \cup {name}
        /\ \A f \in DOMAIN dirs'[Newest].dbt :
             dirs'[Newest].dbt[f] = IF f = name THEN part ELSE dirs[Newest].dbt[f]
        /\ \A k \in DOMAIN dirs : k # Newest => dirs'[k] = dirs[k]
    BY <1>1, <2>2, <2>3, FileWritten
  <2>6. FileDiffers(part)
    BY <2>1, <2>2, <2>3, PartDiffers DEF NamesDiffer
  <2>7. name \in ToSet(Stems)
    BY <1>1, <2>2 DEF SourceInv, SameTables, TablesAreNew
  <2> SUFFICES ASSUME NEW d \in DOMAIN dirs', NEW f \in DOMAIN dirs'[d].dbt
               PROVE  f \in ToSet(Stems) /\ FileDiffers(dirs'[d].dbt[f])
    BY DEF DistinctInv
  <2>8. CASE d = Newest /\ f = name
    BY <2>5, <2>6, <2>7, <2>8
  <2>9. CASE d # Newest \/ f # name
    <3>1. d \in DOMAIN dirs /\ f \in DOMAIN dirs[d].dbt /\ dirs'[d].dbt[f] = dirs[d].dbt[f]
      BY <2>5, <2>9
    <3> QED
      BY <3>1 DEF DistinctInv
  <2> QED
    BY <2>8, <2>9
<1>6. UNCHANGED dirs \/ CreateDumpDir \/ DumpModel \/ DumpTable
  BY OthersLeaveDump DEF Next, vars, onDump, WriteSource, EndDump, Crash
<1> QED
  BY <1>2, <1>3, <1>4, <1>5, <1>6

-----------------------------------------------------------------------------
\* Only the end of a read-in answers that it is true.
LEMMA AnswerIsOld ==
  ASSUME ReadInv, [Next]_vars, Finished'
  PROVE  UNCHANGED reading \/ EndRead
<1>1. ReadingInv /\ reading'.at = "idle" /\ reading'.answer = "true"
  BY DEF ReadInv, Finished
<1>2. ASSUME \/ reading' = Idle
             \/ \E a \in {"false", "throws"} : Answer(a) \/ reading' = [Idle EXCEPT !.answer = a]
      PROVE  FALSE
  BY <1>1, <1>2 DEF Answer, Idle
<1>3. ASSUME reading.at # "idle", NEW at \in {"model", "create", "check", "data"}, NEW clean,
             Step(at) \/ reading' = [reading EXCEPT !.at = at, !.clean = clean]
      PROVE  FALSE
  BY <1>1, <1>3, StepFields
<1>4. CASE WriteTarget
  <2>1. CASE reading.at # "idle"
    <3>1. reading' = [reading EXCEPT !.clean = FALSE]
      BY <1>4, <2>1 DEF WriteTarget
    <3>2. reading'.at = reading.at
      BY <1>1, <2>1, <3>1 DEF ReadingInv
    <3> QED
      BY <1>1, <2>1, <3>2
  <2> QED
    BY <1>4, <2>1 DEF WriteTarget
<1>5. CASE ReadInDumpFiles
  BY <1>1, <1>5 DEF ReadInDumpFiles, Begin
<1>6. CASE ReadTargetModel
  <2>1. reading.at # "idle"
    BY <1>6 DEF ReadTargetModel
  <2>2. \/ \E a \in {"false", "throws"} : Answer(a) \/ reading' = [Idle EXCEPT !.answer = a]
        \/ \E at \in {"create", "check"} : Step(at)
        \/ reading' = [reading EXCEPT !.at = "create", !.clean = FALSE]
    BY <1>6 DEF ReadTargetModel, Compare, AnswerAfter
  <2> QED
    BY <1>2, <1>3, <2>1, <2>2
<1>7. CASE Create
  <2>1. reading.at # "idle"
    BY <1>7 DEF Create
  <2>2. \/ \E a \in {"false", "throws"} : reading' = [Idle EXCEPT !.answer = a]
        \/ \E clean : reading' = [reading EXCEPT !.at = "check", !.clean = clean]
    BY <1>7 DEF Create, AnswerAfter
  <2> QED
    BY <1>2, <1>3, <2>1, <2>2
<1>8. CASE CheckEmpty
  <2>1. reading.at # "idle"
    BY <1>8 DEF CheckEmpty
  <2>2. \/ \E a \in {"false", "throws"} : Answer(a) \/ reading' = [Idle EXCEPT !.answer = a]
        \/ Step("data")
    BY <1>8 DEF CheckEmpty, AnswerAfter
  <2> QED
    BY <1>2, <1>3, <2>1, <2>2
<1>9. CASE ReadInTable
  <2>1. reading.at = "data"
    BY <1>9 DEF ReadInTable
  <2>2. \/ reading' = Idle
        \/ \E ok, clean : reading' = [reading EXCEPT !.left = @ \ {Min(@)}, !.ok = ok, !.clean = clean]
    BY <1>9 DEF ReadInTable
  <2>3. PICK left : left = reading.left \ {Min(reading.left)}
    OBVIOUS
  <2>4. \E ok, clean : reading' = [reading EXCEPT !.left = left, !.ok = ok, !.clean = clean]
    BY <1>2, <2>2, <2>3
  <2>5. reading'.at = "data"
    BY <1>1, <2>1, <2>4 DEF ReadingInv
  <2> QED
    BY <1>1, <2>5
<1>10. CASE CreateDb \/ Crash
  BY <1>2, <1>10 DEF CreateDb, Crash
<1>11. CASE \/ UNCHANGED vars \/ WriteSource \/ CreateDumpDir \/ DumpModel \/ DumpTable \/ EndDump
  BY <1>11 DEF vars, onRead, WriteSource, CreateDumpDir, DumpModel, DumpTable, EndDump
<1> QED
  BY <1>4, <1>5, <1>6, <1>7, <1>8, <1>9, <1>10, <1>11 DEF Next

LEMMA AnsweredStep ==
  ASSUME ReadInv, ToReadInv, AnsweredInv, [Next]_vars
  PROVE  AnsweredInv'
<1> SUFFICES ASSUME Finished' PROVE reading'.dir \in DOMAIN dirs' /\ (dumping' = Idle \/ reading'.dir # Newest')
  BY DEF AnsweredInv
<1>1. CASE UNCHANGED reading
  <2>1. Finished
    BY <1>1 DEF Finished
  <2>2. PICK d : d = reading.dir /\ d \in DOMAIN dirs /\ (dumping = Idle \/ d # Newest)
    BY <2>1 DEF AnsweredInv
  <2> QED
    BY <1>1, <2>2, OldDirsStay
<1>2. CASE EndRead
  <2>1. reading.at = "data" /\ reading'.dir = reading.dir
    BY <1>2 DEF EndRead, Answer
  <2>2. PICK d : d = reading.dir /\ d \in DOMAIN dirs /\ (dumping = Idle \/ d # Newest)
    BY <2>1 DEF ReadInv, ReadingInv, ToReadInv
  <2> QED
    BY <2>1, <2>2, OldDirsStay
<1> QED
  BY <1>1, <1>2, AnswerIsOld

\* Until the rows are read nothing of the dump has been left out.
LEMMA AllLeftStep ==
  ASSUME ReadInv, ToReadInv, AllLeftInv, [Next]_vars
  PROVE  AllLeftInv'
<1> SUFFICES ASSUME reading'.at \in {"model", "create", "check"}, NEW n \in DOMAIN Stems,
                    Stems[n] \in DOMAIN dirs'[reading'.dir].dbt
             PROVE  n \in reading'.left
  BY DEF AllLeftInv
<1>1. CASE ReadInDumpFiles
  <2>1. dirs' = dirs /\ \E d, m : Begin(d, m)
    BY <1>1 DEF ReadInDumpFiles, onDump
  <2> QED
    BY <2>1 DEF Begin
<1>2. CASE ~ReadInDumpFiles
  <2>1. Goes
    BY <1>2, ReadingGoes
  <2>2. PICK d : d = reading.dir /\ d \in DOMAIN dirs /\ (dumping = Idle \/ d # Newest)
    BY <2>1 DEF Goes, ReadInv, ReadingInv, ToReadInv
  <2>3. Stems[n] \in DOMAIN dirs[d].dbt
    BY <2>1, <2>2, OldDirsStay DEF Goes
  <2>4. reading.at \in {"model", "create", "check"} /\ reading'.left = reading.left
    BY <2>1 DEF Goes, ReadInv, ReadingInv
  <2> QED
    BY <2>2, <2>3, <2>4 DEF AllLeftInv
<1> QED
  BY <1>1, <1>2

\* A file that is read in without a fault is inserted whole, into the table of its name.
LEMMA CleanInsert ==
  ASSUME ReadInv, ToReadInv, ReadInTable, reading'.clean, reading'.at = "data"
  PROVE  LET n == Min(reading.left)
             stem == Stems[n]
             rows == dirs[reading.dir].dbt[stem]
         IN  /\ reading.at = "data" /\ n \in reading.left /\ stem \in DOMAIN dirs[reading.dir].dbt /\ IsList(rows)
             /\ reading.clean /\ reading'.left = reading.left \ {n}
             /\ reading'.dir = reading.dir /\ reading'.model = reading.model
             /\ \E broken, alone : /\ broken \notin DOMAIN rows
                                   /\ target' = Inserts(target, stem, SubSeq(rows, 1, Len(rows)), broken, alone).db
<1>1. PICK n, stem, d, rows : n = Min(reading.left) /\ stem = Stems[n] /\ d = reading.dir /\ rows = dirs[d].dbt[stem]
  OBVIOUS
<1>2. reading.at = "data" /\ reading.left # {}
  BY DEF ReadInTable
<1>3. reading.left \in SUBSET Nat /\ n \in reading.left
  BY <1>1, <1>2, DumpAssumption, MinIsElement DEF ReadInv, ReadingInv
<1>4. d \in DOMAIN dirs /\ stem \in DOMAIN dirs[d].dbt
  BY <1>1, <1>2, <1>3 DEF ReadInv, ReadingInv
<1>5. IsList(rows) /\ DOMAIN rows = 1 .. Len(rows)
  BY <1>1, <1>4 DEF ReadInv, FilesInv, IsDir, IsList
<1>6. PICK T : T = reading.model.tables /\ SoundTables(T) /\ \E i \in DOMAIN T : T[i].db = stem
  BY <1>1, <1>2, <1>4 DEF ToReadInv, HasFiles, ReadInv, ReadingInv, IsSound
<1>7. PICK i : i = GetTableByDbName(T, stem) /\ i # 0 /\ T[i].db = stem
  BY <1>6, FileIsFound
<1> DEFINE U == reading.model.tables
           k == IF GetTableByDbName(U, stem) # 0 THEN GetTableByDbName(U, stem) ELSE GetTableByName(U, stem)
           Whole == Inserts(target, U[k].db, SubSeq(rows, 1, Len(rows)), 0, FALSE).db
           Rest(ok, clean) ==
             reading' = [reading EXCEPT !.left = @ \ {Min(@)}, !.ok = @ /\ ok, !.clean = @ /\ clean]
<1>8. k # 0 /\ U[k].db = stem
  BY <1>6, <1>7
<1>9. \/ \E ok : Rest(ok, TRUE) /\ target' = Whole
      \/ \E ok : Rest(ok, FALSE)
      \/ reading' = Idle
  BY <1>1, <1>8, Zenon DEF ReadInTable
<1> HIDE DEF U, k
<1>10. DOMAIN reading = {"at", "dir", "model", "ok", "clean", "left"}
  BY <1>2 DEF ReadInv, ReadingInv
<1>11. ASSUME NEW ok, NEW clean, Rest(ok, clean)
       PROVE  /\ reading'.left = reading.left \ {n} /\ reading'.dir = d /\ reading'.model = reading.model
              /\ reading'.clean = (reading.clean /\ clean)
  <2>1. PICK left : left = reading.left \ {Min(reading.left)}
    OBVIOUS
  <2>2. PICK c, o : c = (reading.clean /\ clean) /\ o = (reading.ok /\ ok)
    OBVIOUS
  <2>3. reading' = [reading EXCEPT !.left = left, !.ok = o, !.clean = c]
    BY <1>11, <2>1, <2>2
  <2>4. /\ reading'.left = left /\ reading'.clean = c
        /\ reading'.dir = reading.dir /\ reading'.model = reading.model
    BY <1>10, <2>3
  <2> QED
    BY <1>1, <2>1, <2>2, <2>4
<1>12. ~(reading' = Idle)
  BY DEF Idle
<1>13. PICK ok : Rest(ok, TRUE) /\ target' = Whole
  <2>1. ASSUME NEW ok, Rest(ok, FALSE)
        PROVE  FALSE
    <3>1. reading'.clean = (reading.clean /\ FALSE)
      BY <1>11, <2>1
    <3> QED
      BY <3>1
  <2> QED
    BY <1>9, <1>12, <2>1
<1>14. /\ reading'.left = reading.left \ {n} /\ reading'.dir = d /\ reading'.model = reading.model
       /\ reading'.clean = (reading.clean /\ TRUE)
  BY <1>11, <1>13
<1>15. reading.clean
  BY <1>14
<1>16. \E broken, alone : /\ broken \notin DOMAIN rows
                          /\ target' = Inserts(target, stem, SubSeq(rows, 1, Len(rows)), broken, alone).db
  <2>1. 0 \notin DOMAIN rows
    BY <1>5
  <2> QED
    BY <1>8, <1>13, <2>1
<1> QED
  BY <1>1, <1>2, <1>3, <1>4, <1>5, <1>14, <1>15, <1>16, ZenonT(60)

\* A read-in that goes on, or has ended, with the directory and the model that it has begun with.
LEMMA KeptGoesOn ==
  ASSUME ReadInv, [Next]_vars, ToReadInv, AnsweredInv, KeptInv,
         reading.at = "data" \/ Finished, reading.clean, target'.kind = "sqlite",
         reading'.dir = reading.dir, reading'.model = reading.model,
         NEW f \in DOMAIN dirs'[reading'.dir].dbt \cap Counted(reading'.model)
  PROVE  LET file == dirs[reading.dir].dbt[f]
         IN  /\ f \in DOMAIN dirs[reading.dir].dbt \cap Counted(reading.model)
             /\ dirs'[reading'.dir].dbt[f] = file
             /\ f \in DOMAIN target.tables /\ f \in DOMAIN target'.tables /\ target.kind = "sqlite"
             /\ \/ IsReadIn(target', f, file)
                \/ IsUnread(target, f)
<1>1. PICK d : d = reading.dir /\ d \in DOMAIN dirs /\ (dumping = Idle \/ d # Newest)
  BY DEF ReadInv, ReadingInv, ToReadInv, AnsweredInv
<1>2. dirs'[d] = dirs[d]
  BY <1>1, OldDirsStay
<1>3. f \in DOMAIN dirs[d].dbt \cap Counted(reading.model)
  BY <1>1, <1>2
<1>4. Grows(target, target') /\ target.kind = "sqlite"
  BY TargetGrows DEF Grows
<1>5. PICK file : file = dirs[d].dbt[f]
  OBVIOUS
<1>6. f \in DOMAIN target.tables /\ (IsReadIn(target, f, file) \/ IsUnread(target, f))
  BY <1>1, <1>3, <1>4, <1>5 DEF KeptInv
<1>7. f \in DOMAIN target'.tables
  BY <1>4, <1>6 DEF Grows
<1>8. IsReadIn(target, f, file) => IsReadIn(target', f, file)
  BY <1>4, <1>6, ReadInStays
<1> QED
  BY <1>1, <1>2, <1>3, <1>4, <1>5, <1>6, <1>7, <1>8

\* CheckEmpty finds the tables empty, and nothing has been left out yet.
LEMMA KeptIsChecked ==
  ASSUME ReadInv, IsFresh(target), DistinctInv, AllLeftInv, CheckEmpty, reading'.at = "data",
         NEW f \in DOMAIN dirs'[reading'.dir].dbt \cap Counted(reading'.model)
  PROVE  f \in DOMAIN target'.tables /\ IsUnread(target, f)'
<1>1. target' = target /\ dirs' = dirs /\ reading.at = "check"
  BY DEF CheckEmpty, onDump
<1>2. /\ Counted(reading.model) \subseteq DOMAIN target.tables
      /\ IsEmpty(reading.model) /\ Step("data")
  BY DEF CheckEmpty, Answer, AnswerAfter, Idle
<1>3. /\ reading'.dir = reading.dir /\ reading'.left = reading.left /\ reading'.model = reading.model
      /\ reading.dir \in DOMAIN dirs
  BY <1>1, <1>2, StepFields DEF ReadInv, ReadingInv
<1>4. f \in DOMAIN dirs[reading.dir].dbt /\ f \in Counted(reading.model)
  BY <1>1, <1>3
<1>5. f \in DOMAIN target.tables /\ Cardinality(DOMAIN target.tables[f].rows) = 0
  BY <1>2, <1>4 DEF IsEmpty, Count
<1>6. IsFiniteSet(DOMAIN target.tables[f].rows)
  BY <1>5, RowsAreFinite DEF ReadInv, IsDatabase, IsTable
<1>7. DOMAIN target.tables[f].rows = {} /\ target.tables[f].last = 0
  BY <1>5, <1>6, FS_EmptySet DEF IsFresh
<1>8. PICK n \in DOMAIN Stems : Stems[n] = f
  <2>1. f \in ToSet(Stems)
    BY <1>3, <1>4 DEF DistinctInv
  <2> QED
    BY <2>1 DEF ToSet
<1>9. n \in reading.left
  BY <1>1, <1>4, <1>8 DEF AllLeftInv
<1> QED
  BY <1>1, <1>3, <1>5, <1>7, <1>8, <1>9 DEF IsUnread

LEMMA KeptIsReadIn ==
  ASSUME TablesAreTold, ReadInv, [Next]_vars, ToReadInv, DistinctInv, AnsweredInv, KeptInv, ReadInTable,
         reading'.at = "data", reading'.clean, target'.kind = "sqlite",
         NEW f \in DOMAIN dirs'[reading'.dir].dbt \cap Counted(reading'.model)
  PROVE  /\ f \in DOMAIN target'.tables
         /\ IsReadIn(target', f, dirs'[reading'.dir].dbt[f]) \/ IsUnread(target, f)'
<1>1. PICK n, stem, d, rows : n = Min(reading.left) /\ stem = Stems[n] /\ d = reading.dir /\ rows = dirs[d].dbt[stem]
  OBVIOUS
<1>2. /\ reading.at = "data" /\ n \in reading.left /\ stem \in DOMAIN dirs[d].dbt /\ IsList(rows)
      /\ reading.clean /\ reading'.left = reading.left \ {n}
      /\ reading'.dir = d /\ reading'.model = reading.model
  BY <1>1, CleanInsert
<1>3. PICK broken, alone : /\ broken \notin DOMAIN rows
                           /\ target' = Inserts(target, stem, SubSeq(rows, 1, Len(rows)), broken, alone).db
  BY <1>1, CleanInsert, ZenonT(60)
<1>4. PICK file : file = dirs[d].dbt[f]
  OBVIOUS
<1>5. /\ f \in DOMAIN dirs[d].dbt /\ dirs'[reading'.dir].dbt[f] = file
      /\ f \in DOMAIN target.tables /\ f \in DOMAIN target'.tables /\ target.kind = "sqlite"
      /\ IsReadIn(target', f, file) \/ IsUnread(target, f)
  BY <1>1, <1>2, <1>4, KeptGoesOn
<1>6. PICK part : part = SubSeq(rows, 1, Len(rows))
  OBVIOUS
<1>7. IsList(part) /\ DOMAIN part = DOMAIN rows /\ \A k \in DOMAIN part : part[k] = rows[k]
  BY <1>2, <1>6, PartIsList DEF IsList
<1>8. IsDatabase(target) /\ d \in DOMAIN dirs
  BY <1>1, <1>2 DEF ReadInv, ReadingInv
<1>9. CASE IsUnread(target, f) /\ f = stem
  <2>1. FileDiffers(part)
    <3>1. FileDiffers(rows)
      BY <1>1, <1>2, <1>8 DEF DistinctInv
    <3> QED
      BY <1>7, <3>1 DEF FileDiffers
  <2>2. IsReadIn(Inserts(target, stem, part, broken, alone).db, stem, part)
    BY <1>3, <1>5, <1>7, <1>8, <1>9, <2>1, InsertsAll DEF IsUnread
  <2>3. IsReadIn(target', f, part)
    BY <1>3, <1>6, <1>9, <2>2
  <2>4. DOMAIN file = DOMAIN part /\ \A k \in DOMAIN file : file[k] = part[k]
    BY <1>1, <1>4, <1>7, <1>9
  <2>5. IsReadIn(target', f, file)
    BY <2>3, <2>4 DEF IsReadIn
  <2> QED
    BY <1>5, <2>5
<1>10. CASE IsUnread(target, f) /\ f # stem
  <2>1. PICK data : data = {}
    OBVIOUS
  <2>2. LET new == Inserts(target, stem, part, broken, alone).db
        IN  /\ DOMAIN new.tables = DOMAIN target.tables
            /\ \A other \in DOMAIN target.tables : other # stem => new.tables[other] = target.tables[other]
            /\ stem \in data => Differ(new.tables[stem].rows)
    <3>1. stem \in data => /\ stem \in DOMAIN target.tables /\ FileDiffers(part) /\ Differ(target.tables[stem].rows)
                           /\ AreOthers(target.tables[stem].rows, part)
      BY <2>1
    <3> QED
      BY <1>7, <1>8, <3>1, InsertsDiffer
  <2>3. target'.tables[f] = target.tables[f]
    BY <1>3, <1>5, <1>6, <1>10, <2>2
  <2>4. PICK k \in reading.left : Stems[k] = f
    BY <1>10 DEF IsUnread
  <2>5. k \in reading'.left
    BY <1>1, <1>2, <1>10, <2>4
  <2> QED
    BY <1>5, <1>10, <2>3, <2>4, <2>5 DEF IsUnread
<1> QED
  BY <1>5, <1>9, <1>10

LEMMA KeptStep ==
  ASSUME TablesAreTold, ReadInv, [Next]_vars, ToReadInv, RefsInv
  PROVE  KeptInv'
<1>1. IsFresh(target) /\ DistinctInv /\ AnsweredInv /\ AllLeftInv /\ KeptInv
  BY DEF RefsInv
<1> SUFFICES ASSUME reading'.at = "data" \/ Finished', reading'.clean, target'.kind = "sqlite",
                    NEW f \in DOMAIN dirs'[reading'.dir].dbt \cap Counted(reading'.model)
             PROVE  /\ f \in DOMAIN target'.tables
                    /\ IsReadIn(target', f, dirs'[reading'.dir].dbt[f]) \/ IsUnread(target, f)'
  BY DEF KeptInv, Counted
<1>2. CASE Finished /\ UNCHANGED reading
  <2>1. ~IsUnread(target, f)
    BY <1>2 DEF Finished, IsUnread
  <2> QED
    BY <1>1, <1>2, <2>1, KeptGoesOn
<1>3. CASE EndRead
  <2>1. /\ reading.at = "data" /\ reading.left = {} /\ reading'.dir = reading.dir /\ reading'.model = reading.model
        /\ reading'.clean = reading.clean
    BY <1>3 DEF EndRead, Answer
  <2>2. ~IsUnread(target, f)
    BY <2>1 DEF IsUnread
  <2> QED
    BY <1>1, <2>1, <2>2, KeptGoesOn
<1>4. CASE CheckEmpty /\ reading'.at = "data"
  BY <1>1, <1>4, KeptIsChecked
<1>5. CASE ReadInTable /\ reading'.at = "data"
  BY <1>1, <1>5, KeptIsReadIn
<1>6. CASE reading.at = "data" /\ UNCHANGED <<reading, target>>
  <2>1. IsUnread(target, f) => IsUnread(target, f)'
    BY <1>6 DEF IsUnread
  <2> QED
    BY <1>1, <1>6, <2>1, KeptGoesOn
<1>7. ASSUME reading'.at = "data"
      PROVE  EndRead \/ CheckEmpty \/ ReadInTable \/ (reading.at = "data" /\ UNCHANGED <<reading, target>>)
  <2>1. ~ReadInDumpFiles
    BY <1>7 DEF ReadInDumpFiles, Begin
  <2>2. reading.at = "data" \/ CheckEmpty
    BY <1>7, <2>1, ReadingGoes DEF Goes
  <2>3. ~(WriteTarget /\ reading.at = "data")
    <3> SUFFICES ASSUME WriteTarget, reading.at = "data" PROVE FALSE
      OBVIOUS
    <3>1. reading' = [reading EXCEPT !.clean = FALSE]
      BY DEF WriteTarget
    <3>2. reading'.clean = FALSE
      BY <3>1 DEF ReadInv, ReadingInv
    <3> QED
      BY <3>2
  <2>4. ~CreateDb /\ ~Crash
    BY <1>7 DEF CreateDb, Crash, Idle
  <2> QED
    BY <2>1, <2>2, <2>3, <2>4 DEF Next, vars, onRead, WriteSource, CreateDumpDir, DumpModel, DumpTable, EndDump,
       ReadTargetModel, Create
<1>8. Finished' => EndRead \/ (Finished /\ UNCHANGED reading)
  BY AnswerIsOld DEF Finished
<1> QED
  BY <1>2, <1>3, <1>4, <1>5, <1>6, <1>7, <1>8

-----------------------------------------------------------------------------
KeepingInv == FullInv /\ ToDumpInv /\ ToReadInv /\ RefsInv

LEMMA KeepingInitial == TablesAreNew /\ Init => KeepingInv
<1> SUFFICES ASSUME TablesAreNew, Init PROVE KeepingInv
  OBVIOUS
<1>1. /\ target \in Targets /\ DOMAIN dirs = {} /\ dumping.at = "idle"
      /\ reading.at = "idle" /\ reading.answer = "none"
  BY DEF Init, Idle
<1>2. FullInv /\ ToDumpInv /\ ToReadInv
  BY <1>1 DEF FullInv, ToDumpInv, ToReadInv
<1>3. IsFresh(target) /\ DistinctInv /\ AnsweredInv /\ AllLeftInv /\ KeptInv
  BY <1>1 DEF TablesAreNew, DistinctInv, AnsweredInv, AllLeftInv, KeptInv, Finished
<1> QED
  BY <1>2, <1>3 DEF KeepingInv, RefsInv

LEMMA KeepingInductive ==
  ASSUME TablesAreTold, TablesAreNew, ReadInv, KeepingInv, NamesDiffer, [Next]_vars
  PROVE  KeepingInv'
<1>1. FullInv /\ ToDumpInv /\ ToReadInv /\ RefsInv
  BY DEF KeepingInv
<1>2. IsFresh(target) /\ DistinctInv /\ AnsweredInv /\ AllLeftInv
  BY <1>1 DEF RefsInv
<1>3. RowsDiffer(source) /\ RowsNamed(source)
  BY DEF NamesDiffer, RowsDiffer, RowsNamed
<1>4. FullInv' /\ ToDumpInv' /\ ToReadInv'
  BY <1>1, <1>3, DumpStepFull, ToReadStep
<1>5. IsFresh(target)'
  BY <1>2, TargetGrows DEF Grows
<1>6. DistinctInv' /\ AnsweredInv' /\ AllLeftInv' /\ KeptInv'
  BY <1>1, <1>2, DistinctStep, AnsweredStep, AllLeftStep, KeptStep
<1> QED
  BY <1>4, <1>5, <1>6 DEF KeepingInv, RefsInv

LEMMA KeptIsKept == AnsweredInv /\ KeptInv => ReferencesKept
<1> SUFFICES ASSUME AnsweredInv, KeptInv, Finished, reading.clean, target.kind = "sqlite"
             PROVE  ReferencesKept
  BY DEF ReferencesKept
<1>1. PICK d, dbt, files : /\ d = reading.dir /\ dbt = dirs[d].dbt
                           /\ files = DOMAIN dbt \cap Counted(reading.model)
  OBVIOUS
<1>2. \A f \in files : IsReadIn(target, f, dbt[f])
  BY <1>1 DEF KeptInv, IsUnread, Finished
<1>3. ASSUME NEW name \in files, NEW r \in ToSet(dbt[name]), NEW link \in target.tables[name].refs,
             NEW id, id = r.row.refs[link[1]], NEW other \in files, other = link[2],
             Dense(d, other), id \in DOMAIN dbt[other]
      PROVE  \E i \in FromDump(name, r) :
               /\ target.tables[name].rows[i].refs[link[1]] = id
               /\ id \in DOMAIN target.tables[other].rows
               /\ \E p \in ToSet(dbt[other]) : p.id = id /\ id \in FromDump(other, p)
  <2>1. PICK k \in DOMAIN dbt[name] : r = dbt[name][k]
    BY DEF ToSet
  <2>2. PICK rows : /\ rows = target.tables[name].rows /\ k \in DOMAIN rows
                    /\ rows[k].text.text = r.row.text.text /\ rows[k].refs = r.row.refs
    BY <1>2, <2>1 DEF IsReadIn
  <2>3. k \in FromDump(name, r)
    BY <2>2 DEF FromDump
  <2>4. PICK p : p = dbt[other][id] /\ p \in ToSet(dbt[other]) /\ p.id = id
    BY <1>1, <1>3 DEF ToSet, Dense
  <2>5. /\ id \in DOMAIN target.tables[other].rows
        /\ target.tables[other].rows[id].text.text = p.row.text.text
    BY <1>2, <1>3, <2>4 DEF IsReadIn
  <2>6. id \in FromDump(other, p)
    BY <2>5 DEF FromDump
  <2> QED
    BY <1>3, <2>2, <2>3, <2>4, <2>5, <2>6
<1> QED
  BY <1>1, <1>3 DEF ReferencesKept

\* Into a new SQLite database, without a fault: a row that is read in has its place in the file
\* as its id and the references that it had, in whatever order the files come and whichever
\* reference comes before its row, because nothing is checked until all is there.
THEOREM ReferencesAreKept ==
  ASSUME TablesAreTold, TablesAreNew
  PROVE  Spec /\ []NamesDiffer => []ReferencesKept
<1>1. Init => ReadInv /\ KeepingInv
  BY ReadInitial, KeepingInitial
<1>2. ReadInv /\ KeepingInv /\ NamesDiffer /\ [Next]_vars => (ReadInv /\ KeepingInv)'
  BY ReadInductive, KeepingInductive
<1>3. KeepingInv => ReferencesKept
  BY KeptIsKept DEF KeepingInv, RefsInv
<1> QED
  BY <1>1, <1>2, <1>3, PTL DEF Spec
===============================================================================
