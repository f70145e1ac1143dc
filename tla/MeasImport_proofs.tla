-------------------------- MODULE MeasImport_proofs --------------------------
(***************************************************************************)
(* Theorems of MeasImport, for any files, contents, other programs and     *)
(* faults.                                                                 *)
(***************************************************************************)
EXTENDS MeasImport, WellFoundedInduction, TLAPS

(***************************************************************************)
(* What is always true of the tables.  Own is the property itself: with    *)
(* RefsInv, the ids of an MQ are of rows that are there, so that a new row *)
(* never has one of them.  Remembered says the same of the lists: the id   *)
(* of an entry has been drawn, and is of no other row.                     *)
(***************************************************************************)
IsDb(d) == DOMAIN d = Tables \cup {"last"} /\ d.last \in [Tables -> Nat]

HasFields(d) ==
  /\ \A r \in d.file : DOMAIN r = {"id", "name"}
  /\ \A r \in d.meas : DOMAIN r = {"id", "file", "nr"}
  /\ \A r \in d.mq : DOMAIN r = {"id", "name", "meas", "quantity", "unit", "samples", "of"}
  /\ \A r \in d.quantity : DOMAIN r = {"id", "name", "unit"}
  /\ \A r \in d.unit : DOMAIN r = {"id", "name"}

Drawn(id, last) == id \in Nat /\ id # 0 /\ id <= last

Keys(rows, last) ==
  /\ \A r \in rows : Drawn(r.id, last)
  /\ \A r, q \in rows : r.id = q.id => r = q

KeysInv(d) == \A t \in Tables : Keys(d[t], d.last[t])

RefsInv(d) ==
  /\ \A r \in d.meas : RefersTo(r.file, d.file)
  /\ \A r \in d.mq : /\ RefersTo(r.meas, d.meas) /\ RefersTo(r.quantity, d.quantity)
                     /\ RefersTo(r.unit, d.unit)
  /\ \A r \in d.quantity : RefersTo(r.unit, d.unit)

Names(id, rows, text) == \A r \in rows : r.id = id => r.name.text = text

Own(d) ==
  \A q \in d.mq : /\ Names(q.quantity, d.quantity, q.name.text)
                  /\ Names(q.unit, d.unit, q.of.unit)

DbInv(d) == IsDb(d) /\ HasFields(d) /\ KeysInv(d) /\ RefsInv(d) /\ Own(d)

Remembered(list, rows, last) ==
  \A e \in list : Drawn(e.id, last) /\ Names(e.id, rows, e.name.text)

-----------------------------------------------------------------------------
(***************************************************************************)
(* Inserting a row.                                                        *)
(***************************************************************************)
RowFits(d, t, row) ==
  /\ row.id = d.last[t] + 1
  /\ t = "file" => DOMAIN row = {"id", "name"}
  /\ t = "meas" => DOMAIN row = {"id", "file", "nr"} /\ RefersTo(row.file, d.file)
  /\ t = "mq" => /\ DOMAIN row = {"id", "name", "meas", "quantity", "unit", "samples", "of"}
                 /\ RefersTo(row.meas, d.meas) /\ RefersTo(row.quantity, d.quantity)
                 /\ RefersTo(row.unit, d.unit)
                 /\ Names(row.quantity, d.quantity, row.name.text)
                 /\ Names(row.unit, d.unit, row.of.unit)
  /\ t = "quantity" => DOMAIN row = {"id", "name", "unit"} /\ RefersTo(row.unit, d.unit)
  /\ t = "unit" => DOMAIN row = {"id", "name"}

LEMMA WithRowFacts ==
  ASSUME NEW d, IsDb(d), NEW t \in Tables, NEW row
  PROVE  /\ IsDb(WithRow(d, t, row))
         /\ WithRow(d, t, row)[t] = d[t] \cup {row}
         /\ WithRow(d, t, row).last[t] = d.last[t] + 1
         /\ \A u \in Tables : u # t => /\ WithRow(d, t, row)[u] = d[u]
                                       /\ WithRow(d, t, row).last[u] = d.last[u]
<1>1. PICK l : l = [d.last EXCEPT ![t] = @ + 1]
  OBVIOUS
<1>2. PICK r : r = [d EXCEPT ![t] = @ \cup {row}, !.last = l]
  OBVIOUS
<1>3. r = WithRow(d, t, row)
  BY <1>1, <1>2 DEF WithRow
<1>4. /\ r[t] = d[t] \cup {row} /\ r.last = l /\ DOMAIN r = DOMAIN d
      /\ \A u \in Tables : u # t => r[u] = d[u]
  BY <1>2 DEF IsDb, Tables
<1>5. /\ l[t] = d.last[t] + 1 /\ l \in [Tables -> Nat]
      /\ \A u \in Tables : u # t => l[u] = d.last[u]
  BY <1>1 DEF IsDb
<1> QED
  BY <1>3, <1>4, <1>5 DEF IsDb

LEMMA RowKeys ==
  ASSUME NEW rows, NEW last \in Nat, Keys(rows, last), NEW row, row.id = last + 1
  PROVE  Keys(rows \cup {row}, last + 1)
BY DEF Keys, Drawn

\* A reference or a name that is right stays right.
LEMMA MoreRows ==
  ASSUME NEW rows, NEW row, NEW last \in Nat, Keys(rows, last), row.id = last + 1, NEW id
  PROVE  /\ RefersTo(id, rows) => RefersTo(id, rows \cup {row})
         /\ \A text : Names(id, rows, text) /\ (RefersTo(id, rows) \/ Drawn(id, last))
                        => Names(id, rows \cup {row}, text)
<1>1. RefersTo(id, rows) \/ Drawn(id, last) => id # row.id
  BY DEF RefersTo, Ids, Keys, Drawn
<1> QED
  BY <1>1 DEF RefersTo, Ids, Names

LEMMA WithRowInv ==
  ASSUME NEW d, DbInv(d), NEW t \in Tables, NEW row, RowFits(d, t, row)
  PROVE  DbInv(WithRow(d, t, row))
<1> DEFINE r == WithRow(d, t, row)
<1>1. /\ IsDb(r) /\ r[t] = d[t] \cup {row} /\ r.last[t] = d.last[t] + 1
      /\ \A u \in Tables : u # t => r[u] = d[u] /\ r.last[u] = d.last[u]
  BY WithRowFacts DEF DbInv
<1>2. d.last[t] \in Nat /\ row.id = d.last[t] + 1 /\ Keys(d[t], d.last[t])
  BY DEF DbInv, IsDb, KeysInv, RowFits
<1> HIDE DEF r
<1>3. KeysInv(r)
  <2>1. ASSUME NEW u \in Tables
        PROVE  Keys(r[u], r.last[u])
    <3>1. CASE u = t
      BY <1>1, <1>2, <3>1, RowKeys
    <3>2. CASE u # t
      BY <1>1, <3>2 DEF DbInv, KeysInv
    <3> QED
      BY <3>1, <3>2
  <2> QED
    BY <2>1 DEF KeysInv
<1>4. HasFields(r)
  BY <1>1 DEF DbInv, HasFields, RowFits, Tables
<1>5. \A id : /\ \A u \in Tables : RefersTo(id, d[u]) => RefersTo(id, r[u])
              /\ \A u \in Tables : \A text : Names(id, d[u], text) /\ RefersTo(id, d[u])
                                               => Names(id, r[u], text)
  BY <1>1, <1>2, MoreRows, SMTT(30)
<1>6. RefsInv(r)
  BY <1>1, <1>5 DEF DbInv, RefsInv, RowFits, Tables
<1>7. Own(r)
  BY <1>1, <1>5 DEF DbInv, RefsInv, Own, RowFits, Tables
<1> QED
  BY <1>1, <1>3, <1>4, <1>6, <1>7 DEF DbInv, r

LEMMA WithRowRemembered ==
  ASSUME NEW d, DbInv(d), NEW t \in Tables, NEW row, RowFits(d, t, row),
         NEW u \in Tables, NEW list, Remembered(list, d[u], d.last[u])
  PROVE  Remembered(list, WithRow(d, t, row)[u], WithRow(d, t, row).last[u])
<1>1. /\ WithRow(d, t, row)[t] = d[t] \cup {row} /\ WithRow(d, t, row).last[t] = d.last[t] + 1
      /\ \A v \in Tables : v # t => /\ WithRow(d, t, row)[v] = d[v]
                                    /\ WithRow(d, t, row).last[v] = d.last[v]
  BY WithRowFacts DEF DbInv
<1>2. d.last[t] \in Nat /\ row.id = d.last[t] + 1 /\ Keys(d[t], d.last[t])
  BY DEF DbInv, IsDb, KeysInv, RowFits
<1>3. CASE u = t
  <2>1. \A e \in list : Names(e.id, d[t] \cup {row}, e.name.text)
    BY <1>2, <1>3, MoreRows DEF Remembered
  <2>2. \A e \in list : Drawn(e.id, d.last[t] + 1)
    BY <1>2, <1>3 DEF Remembered, Drawn
  <2> QED
    BY <1>1, <1>3, <2>1, <2>2 DEF Remembered
<1>4. CASE u # t
  BY <1>1, <1>4
<1> QED
  BY <1>3, <1>4

-----------------------------------------------------------------------------
(***************************************************************************)
(* The state of a scope, and what the methods make of it.                  *)
(***************************************************************************)
IsScope(s) == DOMAIN s = {"db", "quantities", "units", "mqs", "count", "broken", "id", "ok"}

ScopeInv(s) ==
  /\ IsScope(s) /\ DbInv(s.db)
  /\ Remembered(s.quantities, s.db.quantity, s.db.last["quantity"])
  /\ Remembered(s.units, s.db.unit, s.db.last["unit"])

\* The id that UpdateUnit or UpdateQuantity gives: none, or that of the name.
IdFits(id, rows, last, text) == id = 0 \/ (Drawn(id, last) /\ Names(id, rows, text))

\* The files and measurements that were there still are.
Kept(s, r) == \A t \in {"file", "meas"} : Ids(s.db[t]) \subseteq Ids(r.db[t])

LEMMA LeastElement ==
  ASSUME NEW T \in SUBSET Nat, T # {}
  PROVE  \E x \in T : \A y \in T : x <= y
<1> DEFINE Less == {p \in Nat \X Nat : p[1] < p[2]}
<1>1. IsWellFoundedOn(Less, Nat)
  <2>1. OpToRel(<, Nat) = Less
    BY DEF OpToRel
  <2> QED
    BY <2>1, NatLessThanWellFounded
<1>2. PICK x \in T : \A y \in T : ~ (<<y, x>> \in Less)
  BY <1>1, WFMin
<1>3. ASSUME NEW y \in T
      PROVE  x <= y
  <2>1. x \in Nat /\ y \in Nat
    OBVIOUS
  <2>2. ~ (y < x)
    BY <1>2, <2>1
  <2> QED
    BY <2>1, <2>2
<1> QED
  BY <1>3

LEMMA MinIsElement == ASSUME NEW T \in SUBSET Nat, T # {} PROVE Min(T) \in T
BY LeastElement DEF Min

LEMMA FoundFits ==
  ASSUME NEW list, NEW rows, NEW last, Remembered(list, rows, last), NEW name
  PROVE  IdFits(Found(list, name), rows, last, name)
<1> DEFINE same == {r \in list : r.name = Plain(name)}
<1>1. CASE same = {}
  BY <1>1 DEF Found, IdFits
<1>2. CASE same # {}
  <2>1. Ids(same) \in SUBSET Nat /\ Ids(same) # {}
    BY <1>2 DEF Ids, Remembered, Drawn
  <2>2. Min(Ids(same)) \in Ids(same)
    BY <2>1, MinIsElement
  <2>3. PICK e \in same : e.id = Min(Ids(same))
    BY <2>2 DEF Ids
  <2>4. Found(list, name) = e.id
    BY <1>2, <2>3 DEF Found
  <2>5. e \in list /\ e.name.text = name
    BY DEF Plain
  <2> QED
    BY <2>4, <2>5 DEF IdFits, Remembered
<1> QED
  BY <1>1, <1>2

LEMMA CountedFacts ==
  ASSUME NEW s, IsScope(s)
  PROVE  /\ IsScope(Counted(s)) /\ Counted(s).db = s.db /\ Counted(s).quantities = s.quantities
         /\ Counted(s).units = s.units /\ Counted(s).ok = s.ok /\ Counted(s).mqs = s.mqs
<1>1. PICK r : r = Counted(s)
  OBVIOUS
<1> QED
  BY <1>1 DEF Counted, IsScope

LEMMA InsertFacts ==
  ASSUME NEW s, ScopeInv(s), NEW t \in Tables, NEW row, RowFits(s.db, t, row)
  PROVE  /\ ScopeInv(Insert(s, t, row)) /\ Kept(s, Insert(s, t, row))
         /\ Insert(s, t, row).db = WithRow(s.db, t, row)
         /\ Insert(s, t, row).db[t] = s.db[t] \cup {row}
         /\ Insert(s, t, row).db.last[t] = s.db.last[t] + 1
         /\ \A u \in Tables : u # t => /\ Insert(s, t, row).db[u] = s.db[u]
                                       /\ Insert(s, t, row).db.last[u] = s.db.last[u]
         /\ Insert(s, t, row).ok = s.ok
         /\ Insert(s, t, row).quantities = s.quantities /\ Insert(s, t, row).units = s.units
<1>1. PICK r : r = Insert(s, t, row)
  OBVIOUS
<1>2. PICK c, d : c = Counted(s) /\ d = WithRow(s.db, t, row)
  OBVIOUS
<1>3. IsScope(c) /\ c.db = s.db /\ c.quantities = s.quantities /\ c.units = s.units /\ c.ok = s.ok
  BY <1>2, CountedFacts DEF ScopeInv
<1>4. r = [c EXCEPT !.db = d]
  BY <1>1, <1>2, <1>3 DEF Insert
<1>5. IsScope(r) /\ r.db = d /\ r.quantities = s.quantities /\ r.units = s.units /\ r.ok = s.ok
  BY <1>3, <1>4 DEF IsScope
<1>6. /\ d[t] = s.db[t] \cup {row} /\ d.last[t] = s.db.last[t] + 1
      /\ \A u \in Tables : u # t => d[u] = s.db[u] /\ d.last[u] = s.db.last[u]
  BY <1>2, WithRowFacts DEF ScopeInv, DbInv
<1>7. DbInv(d)
  BY <1>2, WithRowInv DEF ScopeInv
<1>8. /\ Remembered(s.quantities, d["quantity"], d.last["quantity"])
      /\ Remembered(s.units, d["unit"], d.last["unit"])
  <2>1. "quantity" \in Tables /\ "unit" \in Tables
    BY DEF Tables
  <2>2. /\ DbInv(s.db) /\ Remembered(s.quantities, s.db["quantity"], s.db.last["quantity"])
        /\ Remembered(s.units, s.db["unit"], s.db.last["unit"])
    BY DEF ScopeInv
  <2> QED
    BY <1>2, <2>1, <2>2, WithRowRemembered
<1>9. ScopeInv(r)
  BY <1>5, <1>7, <1>8 DEF ScopeInv
<1>10. Kept(s, r)
  <2>1. \A u \in Tables : s.db[u] \subseteq r.db[u]
    BY <1>5, <1>6
  <2> QED
    BY <2>1 DEF Kept, Ids, Tables
<1> QED
  BY <1>1, <1>2, <1>5, <1>6, <1>9, <1>10

\* Changing the id only, or the lists.
LEMMA WithIdFacts ==
  ASSUME NEW s, ScopeInv(s), NEW id
  PROVE  /\ ScopeInv([s EXCEPT !.id = id]) /\ [s EXCEPT !.id = id].id = id
         /\ [s EXCEPT !.id = id].db = s.db /\ [s EXCEPT !.id = id].ok = s.ok
<1>1. PICK r : r = [s EXCEPT !.id = id]
  OBVIOUS
<1>2. /\ IsScope(r) /\ r.id = id /\ r.db = s.db /\ r.ok = s.ok /\ r.quantities = s.quantities
      /\ r.units = s.units
  BY <1>1 DEF ScopeInv, IsScope
<1> QED
  BY <1>1, <1>2 DEF ScopeInv

LEMMA CountedInv ==
  ASSUME NEW s, ScopeInv(s)
  PROVE  ScopeInv(Counted(s)) /\ Counted(s).db = s.db /\ Counted(s).ok = s.ok
BY CountedFacts DEF ScopeInv

\* A new row with a name, and its entry in the list.
LEMMA NewEntry ==
  ASSUME NEW d, DbInv(d), NEW t \in Tables, NEW row, RowFits(d, t, row),
         NEW list, Remembered(list, d[t], d.last[t]), NEW text, row.name.text = text
  PROVE  LET w == WithRow(d, t, row)
             e == [name |-> Plain(text), id |-> row.id]
         IN  /\ Remembered(list \cup {e}, w[t], w.last[t])
             /\ IdFits(row.id, w[t], w.last[t], text)
<1> DEFINE w == WithRow(d, t, row)
           e == [name |-> Plain(text), id |-> row.id]
<1>1. w[t] = d[t] \cup {row} /\ w.last[t] = d.last[t] + 1
  BY WithRowFacts DEF DbInv
<1>2. d.last[t] \in Nat /\ row.id = d.last[t] + 1 /\ Keys(d[t], d.last[t])
  BY DEF DbInv, IsDb, KeysInv, RowFits
<1>3. Remembered(list, w[t], w.last[t])
  BY WithRowRemembered
<1>4. Drawn(row.id, w.last[t]) /\ Names(row.id, w[t], text)
  BY <1>1, <1>2 DEF Drawn, Keys, Names
<1>5. e.id = row.id /\ e.name.text = text
  BY DEF Plain
<1> HIDE DEF w, e
<1>6. Remembered(list \cup {e}, w[t], w.last[t])
  BY <1>3, <1>4, <1>5 DEF Remembered
<1> QED
  BY <1>4, <1>6 DEF IdFits, w, e

\* UpdateUnit changes the table and the list of the units only.
OnlyUnit(s, r) ==
  /\ \A t \in Tables : t # "unit" => r.db[t] = s.db[t] /\ r.db.last[t] = s.db.last[t]
  /\ r.ok = s.ok

LEMMA UnitFacts ==
  ASSUME NEW s, ScopeInv(s), NEW unit
  PROVE  LET r == UpdateUnit(s, unit)
         IN  /\ ScopeInv(r) /\ OnlyUnit(s, r)
             /\ IdFits(r.id, r.db.unit, r.db.last["unit"], unit)
<1>1. PICK r : r = UpdateUnit(s, unit)
  OBVIOUS
<1>2. CASE unit = "" \/ Found(s.units, unit) # 0
  <2>1. r = [s EXCEPT !.id = Found(s.units, unit)]
    BY <1>1, <1>2 DEF UpdateUnit
  <2>2. ScopeInv(r) /\ r.id = Found(s.units, unit) /\ r.db = s.db /\ r.ok = s.ok
    BY <2>1, WithIdFacts
  <2>3. IdFits(Found(s.units, unit), s.db.unit, s.db.last["unit"], unit)
    BY FoundFits DEF ScopeInv
  <2> QED
    BY <1>1, <2>2, <2>3 DEF OnlyUnit
<1>3. CASE /\ ~(unit = "" \/ Found(s.units, unit) # 0)
           /\ Breaks(s) \/ \E q \in s.db.unit : q.name = Bound(unit)
  <2>1. r = [Counted(s) EXCEPT !.id = 0]
    BY <1>1, <1>3 DEF UpdateUnit
  <2>2. ScopeInv(r) /\ r.id = 0 /\ r.db = s.db /\ r.ok = s.ok
    BY <2>1, CountedInv, WithIdFacts
  <2> QED
    BY <1>1, <2>2 DEF OnlyUnit, IdFits
<1>4. CASE /\ ~(unit = "" \/ Found(s.units, unit) # 0)
           /\ ~(Breaks(s) \/ \E q \in s.db.unit : q.name = Bound(unit))
  <2>1. PICK row : row = [id |-> NewId(s, "unit"), name |-> Bound(unit)]
    OBVIOUS
  <2>2. PICK i : i = Insert(s, "unit", row)
    OBVIOUS
  <2>3. r = [i EXCEPT !.id = NewId(s, "unit"),
               !.units = @ \cup {[name |-> Plain(unit), id |-> NewId(s, "unit")]}]
    BY <1>1, <1>4, <2>1, <2>2 DEF UpdateUnit
  <2>4. RowFits(s.db, "unit", row) /\ row.id = NewId(s, "unit") /\ row.name.text = unit
    BY <2>1 DEF RowFits, NewId, Bound
  <2>5. /\ ScopeInv(i) /\ i.db = WithRow(s.db, "unit", row) /\ i.ok = s.ok /\ i.units = s.units
        /\ \A t \in Tables : t # "unit" => i.db[t] = s.db[t] /\ i.db.last[t] = s.db.last[t]
    BY <2>2, <2>4, InsertFacts DEF Tables
  <2>6. /\ IsScope(r) /\ r.db = i.db /\ r.ok = s.ok /\ r.quantities = i.quantities
        /\ r.id = row.id
        /\ r.units = s.units \cup {[name |-> Plain(unit), id |-> row.id]}
    BY <2>3, <2>4, <2>5 DEF ScopeInv, IsScope
  <2>7. /\ Remembered(r.units, i.db.unit, i.db.last["unit"])
        /\ IdFits(row.id, i.db.unit, i.db.last["unit"], unit)
    <3>1. "unit" \in Tables /\ DbInv(s.db) /\ Remembered(s.units, s.db["unit"], s.db.last["unit"])
      BY DEF ScopeInv, Tables
    <3>2. /\ Remembered(s.units \cup {[name |-> Plain(unit), id |-> row.id]}, i.db["unit"], i.db.last["unit"])
          /\ IdFits(row.id, i.db["unit"], i.db.last["unit"], unit)
      BY <2>4, <2>5, <3>1, NewEntry
    <3> QED
      BY <2>6, <3>2
  <2> QED
    BY <1>1, <2>5, <2>6, <2>7 DEF ScopeInv, OnlyUnit
<1> QED
  BY <1>2, <1>3, <1>4

LEMMA InsertQuantityFacts ==
  ASSUME NEW u, ScopeInv(u), NEW name
  PROVE  LET r == InsertQuantity(u, name)
         IN  /\ ScopeInv(r) /\ Kept(u, r) /\ r.ok = u.ok
             /\ IdFits(r.id, r.db.quantity, r.db.last["quantity"], name)
<1>1. PICK r : r = InsertQuantity(u, name)
  OBVIOUS
<1>2. CASE Breaks(u) \/ ~RefersTo(u.id, u.db.unit)
  <2>1. r = [Counted(u) EXCEPT !.id = 0]
    BY <1>1, <1>2 DEF InsertQuantity
  <2>2. ScopeInv(r) /\ r.id = 0 /\ r.db = u.db /\ r.ok = u.ok
    BY <2>1, CountedInv, WithIdFacts
  <2> QED
    BY <1>1, <2>2 DEF Kept, IdFits
<1>3. CASE ~(Breaks(u) \/ ~RefersTo(u.id, u.db.unit))
  <2>1. PICK row : row = [id |-> NewId(u, "quantity"), name |-> Bound(name), unit |-> u.id]
    OBVIOUS
  <2>2. PICK i : i = Insert(u, "quantity", row)
    OBVIOUS
  <2>3. r = [i EXCEPT !.id = NewId(u, "quantity"),
               !.quantities = @ \cup {[name |-> Plain(name), id |-> NewId(u, "quantity")]}]
    BY <1>1, <1>3, <2>1, <2>2 DEF InsertQuantity
  <2>4. RowFits(u.db, "quantity", row) /\ row.id = NewId(u, "quantity") /\ row.name.text = name
    BY <1>3, <2>1 DEF RowFits, NewId, Bound
  <2>5. /\ ScopeInv(i) /\ i.db = WithRow(u.db, "quantity", row) /\ i.ok = u.ok
        /\ i.quantities = u.quantities /\ Kept(u, i)
    BY <2>2, <2>4, InsertFacts DEF Tables
  <2>6. /\ IsScope(r) /\ r.db = i.db /\ r.ok = u.ok /\ r.units = i.units
        /\ r.id = row.id
        /\ r.quantities = u.quantities \cup {[name |-> Plain(name), id |-> row.id]}
    BY <2>3, <2>4, <2>5 DEF ScopeInv, IsScope
  <2>7. /\ Remembered(r.quantities, i.db.quantity, i.db.last["quantity"])
        /\ IdFits(row.id, i.db.quantity, i.db.last["quantity"], name)
    <3>1. /\ "quantity" \in Tables /\ DbInv(u.db)
          /\ Remembered(u.quantities, u.db["quantity"], u.db.last["quantity"])
      BY DEF ScopeInv, Tables
    <3>2. /\ Remembered(u.quantities \cup {[name |-> Plain(name), id |-> row.id]}, i.db["quantity"], i.db.last["quantity"])
          /\ IdFits(row.id, i.db["quantity"], i.db.last["quantity"], name)
      BY <2>4, <2>5, <3>1, NewEntry
    <3> QED
      BY <2>6, <3>2
  <2> QED
    BY <1>1, <2>5, <2>6, <2>7 DEF ScopeInv, Kept
<1> QED
  BY <1>2, <1>3

LEMMA QuantityFacts ==
  ASSUME NEW s, ScopeInv(s), NEW channel
  PROVE  LET r == UpdateQuantity(s, channel)
         IN  /\ ScopeInv(r) /\ Kept(s, r) /\ r.ok = s.ok
             /\ IdFits(r.id, r.db.quantity, r.db.last["quantity"], channel.name)
<1>1. PICK r : r = UpdateQuantity(s, channel)
  OBVIOUS
<1>2. CASE Found(s.quantities, channel.name) # 0
  <2>1. r = [s EXCEPT !.id = Found(s.quantities, channel.name)]
    BY <1>1, <1>2 DEF UpdateQuantity
  <2>2. ScopeInv(r) /\ r.id = Found(s.quantities, channel.name) /\ r.db = s.db /\ r.ok = s.ok
    BY <2>1, WithIdFacts
  <2>3. IdFits(Found(s.quantities, channel.name), s.db.quantity, s.db.last["quantity"], channel.name)
    BY FoundFits DEF ScopeInv
  <2> QED
    BY <1>1, <2>2, <2>3 DEF Kept
<1>3. CASE ~(Found(s.quantities, channel.name) # 0)
  <2>1. PICK u : u = UpdateUnit(s, channel.unit)
    OBVIOUS
  <2>2. ScopeInv(u) /\ OnlyUnit(s, u)
    BY <2>1, UnitFacts
  <2>3. Kept(s, u)
    BY <2>2 DEF OnlyUnit, Kept, Tables
  <2>4. r = InsertQuantity(u, channel.name)
    BY <1>1, <1>3, <2>1 DEF UpdateQuantity
  <2>5. /\ ScopeInv(r) /\ Kept(u, r) /\ r.ok = u.ok
        /\ IdFits(r.id, r.db.quantity, r.db.last["quantity"], channel.name)
    BY <2>2, <2>4, InsertQuantityFacts
  <2> QED
    BY <1>1, <2>2, <2>3, <2>5 DEF OnlyUnit, Kept
<1> QED
  BY <1>2, <1>3

-----------------------------------------------------------------------------
(***************************************************************************)
(* A method that starts from the scope s leaves r.  There is no more to    *)
(* say of the methods from here on, but that an insert is done when it has *)
(* not failed.                                                             *)
(***************************************************************************)
Leads(s, r) == ScopeInv(r) /\ Kept(s, r)

LEMMA LeadsOn ==
  ASSUME NEW s, NEW u, NEW r, Leads(s, u), Leads(u, r)
  PROVE  Leads(s, r)
BY DEF Leads, Kept

LEMMA FailedFacts ==
  ASSUME NEW s, ScopeInv(s)
  PROVE  Leads(s, [Counted(s) EXCEPT !.ok = FALSE]) /\ ~[Counted(s) EXCEPT !.ok = FALSE].ok
<1>1. PICK c : c = Counted(s)
  OBVIOUS
<1>2. ScopeInv(c) /\ c.db = s.db
  BY <1>1, CountedInv
<1>3. PICK r : r = [c EXCEPT !.ok = FALSE]
  OBVIOUS
<1>4. IsScope(r) /\ r.db = c.db /\ r.quantities = c.quantities /\ r.units = c.units /\ ~r.ok
  BY <1>2, <1>3 DEF ScopeInv, IsScope
<1> QED
  BY <1>1, <1>2, <1>3, <1>4 DEF Leads, ScopeInv, Kept

\* More samples: the rows stay as they are otherwise.
MoreSamples(rows, id, channel) ==
  {IF r.id = id THEN [r EXCEPT !.samples = channel.samples] ELSE r : r \in rows}

LEMMA SamplesInv ==
  ASSUME NEW d, DbInv(d), NEW channel, NEW id
  PROVE  DbInv([d EXCEPT !.mq = MoreSamples(d.mq, id, channel)])
<1> DEFINE Put(r) == IF r.id = id THEN [r EXCEPT !.samples = channel.samples] ELSE r
<1>1. PICK mq : mq = {Put(r) : r \in d.mq}
  OBVIOUS
<1>2. PICK e : e = [d EXCEPT !.mq = mq]
  OBVIOUS
<1>3. /\ DOMAIN e = DOMAIN d /\ e.mq = mq /\ e.last = d.last
      /\ \A t \in Tables : t # "mq" => e[t] = d[t]
  BY <1>2 DEF DbInv, IsDb, Tables
<1>4. ASSUME NEW r \in d.mq
      PROVE  /\ DOMAIN Put(r) = DOMAIN r
             /\ Put(r).id = r.id /\ Put(r).name = r.name /\ Put(r).meas = r.meas
             /\ Put(r).quantity = r.quantity /\ Put(r).unit = r.unit /\ Put(r).of = r.of
  BY DEF DbInv, HasFields
<1>5. ASSUME NEW x \in mq
      PROVE  \E r \in d.mq : /\ x = Put(r) /\ DOMAIN x = DOMAIN r
                             /\ x.id = r.id /\ x.name = r.name /\ x.meas = r.meas
                             /\ x.quantity = r.quantity /\ x.unit = r.unit /\ x.of = r.of
  <2>1. PICK r \in d.mq : x = Put(r)
    BY <1>1
  <2> QED
    BY <1>4, <2>1
<1> HIDE DEF Put
<1>6. IsDb(e)
  BY <1>3 DEF DbInv, IsDb
<1>7. HasFields(e)
  BY <1>3, <1>5 DEF DbInv, HasFields, Tables
<1>8. KeysInv(e)
  <2>1. Keys(mq, d.last["mq"])
    BY <1>5 DEF DbInv, KeysInv, Keys, Tables
  <2> QED
    BY <1>3, <2>1 DEF DbInv, KeysInv
<1>9. RefsInv(e)
  BY <1>3, <1>5 DEF DbInv, RefsInv, Tables
<1>10. Own(e)
  BY <1>3, <1>5 DEF DbInv, Own, Tables
<1> QED
  BY <1>1, <1>2, <1>6, <1>7, <1>8, <1>9, <1>10 DEF DbInv, MoreSamples, Put

LEMMA SamplesFacts ==
  ASSUME NEW s, ScopeInv(s), NEW channel, NEW row
  PROVE  Leads(s, UpdateSamples(s, channel, row))
<1>1. PICK r : r = UpdateSamples(s, channel, row)
  OBVIOUS
<1>2. CASE ~Grown(channel, row)
  BY <1>1, <1>2 DEF UpdateSamples, Leads, Kept
<1>3. CASE Grown(channel, row) /\ Breaks(s)
  BY <1>3, FailedFacts DEF UpdateSamples
<1>4. CASE Grown(channel, row) /\ ~Breaks(s)
  <2>1. PICK c : c = Counted(s)
    OBVIOUS
  <2>2. ScopeInv(c) /\ c.db = s.db
    BY <2>1, CountedInv
  <2>3. PICK mq : mq = MoreSamples(c.db.mq, row.id, channel)
    OBVIOUS
  <2>4. PICK d : d = [c.db EXCEPT !.mq = mq]
    OBVIOUS
  <2>5. DbInv(d)
    BY <2>2, <2>3, <2>4, SamplesInv DEF ScopeInv
  <2>6. r = [c EXCEPT !.db = d]
    BY <1>1, <1>4, <2>1, <2>3, <2>4 DEF UpdateSamples, MoreSamples
  <2>7. IsScope(r) /\ r.db = d /\ r.quantities = c.quantities /\ r.units = c.units
    BY <2>2, <2>6 DEF ScopeInv, IsScope
  <2>8. d.last = c.db.last /\ \A t \in Tables : t # "mq" => d[t] = c.db[t]
    BY <2>2, <2>4 DEF ScopeInv, DbInv, IsDb, Tables
  <2> QED
    BY <1>1, <2>2, <2>5, <2>7, <2>8 DEF Leads, ScopeInv, Kept, Tables
<1> QED
  BY <1>2, <1>3, <1>4

LEMMA NoneFits ==
  ASSUME NEW d, DbInv(d), NEW t \in Tables, NEW id, NEW text, IdFits(id, d[t], d.last[t], text)
  PROVE  Names(id, d[t], text)
BY DEF IdFits, Names, DbInv, KeysInv, Keys, Drawn

LEMMA MqRowFacts ==
  ASSUME NEW s, ScopeInv(s), NEW row, row.id = NewId(s, "mq"),
         DOMAIN row = {"id", "name", "meas", "quantity", "unit", "samples", "of"},
         row.meas \in Ids(s.db.meas),
         Names(row.quantity, s.db.quantity, row.name.text), Names(row.unit, s.db.unit, row.of.unit)
  PROVE  Leads(s, InsertMqRow(s, row))
<1> DEFINE Bad == \/ Breaks(s)
                  \/ ~RefersTo(row.quantity, s.db.quantity) \/ ~RefersTo(row.unit, s.db.unit)
                  \/ \E r \in s.db.mq : r.meas = row.meas /\ r.name = row.name
<1>1. CASE Bad
  BY <1>1, FailedFacts DEF InsertMqRow
<1>2. CASE ~Bad
  <2>1. PICK i : i = Insert(s, "mq", row)
    OBVIOUS
  <2>2. RowFits(s.db, "mq", row)
    BY <1>2 DEF RowFits, NewId, RefersTo
  <2>3. ScopeInv(i) /\ Kept(s, i)
    BY <2>1, <2>2, InsertFacts DEF Tables
  <2>4. PICK r : r = InsertMqRow(s, row)
    OBVIOUS
  <2>5. r = [i EXCEPT !.mqs = @ \cup {[row EXCEPT !.name = Plain(row.of.name)]}]
    BY <1>2, <2>1, <2>4 DEF InsertMqRow
  <2>6. IsScope(r) /\ r.db = i.db /\ r.quantities = i.quantities /\ r.units = i.units
    BY <2>3, <2>5 DEF ScopeInv, IsScope
  <2> QED
    BY <2>3, <2>4, <2>6 DEF Leads, ScopeInv, Kept
<1> QED
  BY <1>1, <1>2

LEMMA InsertMqFacts ==
  ASSUME NEW s, ScopeInv(s), NEW channel, NEW meas, meas \in Ids(s.db.meas)
  PROVE  Leads(s, InsertMq(s, channel, meas))
<1>1. PICK q : q = UpdateQuantity(s, channel)
  OBVIOUS
<1>2. /\ ScopeInv(q) /\ Kept(s, q)
      /\ IdFits(q.id, q.db.quantity, q.db.last["quantity"], channel.name)
  BY <1>1, QuantityFacts
<1>3. PICK u : u = UpdateUnit(q, channel.unit)
  OBVIOUS
<1>4. /\ ScopeInv(u) /\ OnlyUnit(q, u)
      /\ IdFits(u.id, u.db.unit, u.db.last["unit"], channel.unit)
  BY <1>2, <1>3, UnitFacts
<1>5. PICK row : row = [id |-> NewId(u, "mq"), name |-> Bound(channel.name), meas |-> meas,
                        quantity |-> q.id, unit |-> u.id, samples |-> channel.samples,
                        of |-> [name |-> channel.name, unit |-> channel.unit]]
  OBVIOUS
<1>6. InsertMq(s, channel, meas) = InsertMqRow(u, row)
  BY <1>1, <1>3, <1>5 DEF InsertMq
<1>7. Kept(s, u) /\ row.meas \in Ids(u.db.meas)
  BY <1>2, <1>4, <1>5 DEF OnlyUnit, Kept, Tables
<1>8. IdFits(q.id, u.db.quantity, u.db.last["quantity"], channel.name)
  BY <1>2, <1>4 DEF OnlyUnit, Tables
<1>9. Names(q.id, u.db.quantity, channel.name) /\ Names(u.id, u.db.unit, channel.unit)
  <2>1. "quantity" \in Tables /\ "unit" \in Tables /\ DbInv(u.db)
    BY <1>4 DEF ScopeInv, Tables
  <2>2. /\ IdFits(q.id, u.db["quantity"], u.db.last["quantity"], channel.name)
        /\ IdFits(u.id, u.db["unit"], u.db.last["unit"], channel.unit)
    BY <1>4, <1>8
  <2> QED
    BY <2>1, <2>2, NoneFits
<1>10. /\ row.name.text = channel.name /\ row.of.unit = channel.unit
       /\ row.quantity = q.id /\ row.unit = u.id /\ row.id = NewId(u, "mq")
       /\ DOMAIN row = {"id", "name", "meas", "quantity", "unit", "samples", "of"}
  BY <1>5 DEF Bound
<1>11. Leads(u, InsertMqRow(u, row))
  BY <1>4, <1>7, <1>9, <1>10, MqRowFacts
<1> QED
  BY <1>4, <1>6, <1>7, <1>11 DEF Leads, Kept

LEMMA ChannelFacts ==
  ASSUME NEW s, ScopeInv(s), NEW channel, NEW meas, meas \in Ids(s.db.meas)
  PROVE  Leads(s, UpdateChannel(s, channel, meas))
<1> DEFINE id == Found(s.mqs, channel.name)
<1>1. CASE ~s.ok
  BY <1>1 DEF UpdateChannel, Leads, Kept
<1>2. CASE s.ok /\ id = 0
  BY <1>2, InsertMqFacts DEF UpdateChannel
<1>3. CASE s.ok /\ id # 0
  <2>1. PICK row : row = CHOOSE r \in s.mqs : r.id = id
    OBVIOUS
  <2>2. UpdateChannel(s, channel, meas) = UpdateSamples(s, channel, row)
    BY <1>3, <2>1 DEF UpdateChannel
  <2> QED
    BY <2>2, SamplesFacts
<1> QED
  BY <1>1, <1>2, <1>3

-----------------------------------------------------------------------------
(***************************************************************************)
(* UpdateMq, UpdateMeas and UpdateFiles are recursive functions on the     *)
(* number of elements done: that there is such a function and that every   *)
(* value of it follows from the scope that they start from are both shown  *)
(* by induction.                                                           *)
(***************************************************************************)
LEMMA UpTo ==
  ASSUME NEW N \in Nat, NEW T, 0 \in T, \A k \in 0 .. N : k + 1 \in 0 .. N /\ k \in T => k + 1 \in T
  PROVE  0 .. N \subseteq T
<1> DEFINE Missing == {k \in 0 .. N : k \notin T}
<1>1. SUFFICES ASSUME Missing # {} PROVE FALSE
  OBVIOUS
<1>2. PICK x \in Missing : \A y \in Missing : x <= y
  <2>1. Missing \in SUBSET Nat
    OBVIOUS
  <2> HIDE DEF Missing
  <2> QED
    BY <1>1, <2>1, LeastElement
<1>3. x \in 1 .. N
  BY <1>2
<1>4. x - 1 \in 0 .. N /\ x - 1 \in T
  BY <1>2, <1>3
<1>5. (x - 1) + 1 = x
  BY <1>3
<1> QED
  BY <1>2, <1>3, <1>4, <1>5

Fetched(s, meas) == [s EXCEPT !.mqs = {r \in s.db.mq : r.meas = meas}]

LEMMA MqSteps ==
  ASSUME NEW s, NEW group, Len(group) \in Nat, NEW meas
  PROVE  \E after :
           /\ after[0] = Fetched(s, meas) /\ after[Len(group)] = UpdateMq(s, group, meas)
           /\ \A n \in 1 .. Len(group) : after[n] = UpdateChannel(after[n - 1], group[n], meas)
<1> DEFINE N == Len(group)
<1>1. PICK first : first = Fetched(s, meas)
  OBVIOUS
<1> DEFINE G(f) == [n \in 0 .. N |-> IF n = 0 THEN first ELSE UpdateChannel(f[n - 1], group[n], meas)]
           after == CHOOSE f : f = G(f)
           Holds(f, k) == /\ f = [i \in 0 .. k |-> f[i]] /\ f[0] = first
                          /\ \A i \in 1 .. k : f[i] = UpdateChannel(f[i - 1], group[i], meas)
           T == {k \in 0 .. N : \E f : Holds(f, k)}
<1>2. UpdateMq(s, group, meas) = after[N]
  BY <1>1 DEF UpdateMq, Fetched
<1>3. N \in Nat
  OBVIOUS
<1> HIDE DEF N
<1>4. 0 \in T
  <2>1. PICK g : g = [i \in 0 .. 0 |-> first]
    OBVIOUS
  <2>2. Holds(g, 0)
    BY <2>1
  <2>3. 0 \in 0 .. N
    BY <1>3
  <2> HIDE DEF Holds
  <2> QED
    BY <2>2, <2>3
<1>5. ASSUME NEW k \in 0 .. N, k + 1 \in 0 .. N, k \in T
      PROVE  k + 1 \in T
  <2>1. PICK f : Holds(f, k)
    BY <1>5
  <2>2. PICK x : x = UpdateChannel(f[k], group[k + 1], meas)
    OBVIOUS
  <2>3. PICK g : g = [i \in 0 .. (k + 1) |-> IF i = k + 1 THEN x ELSE f[i]]
    OBVIOUS
  <2>4. k \in Nat
    BY <1>3
  <2>5. g = [i \in 0 .. (k + 1) |-> g[i]] /\ g[0] = first
    BY <2>1, <2>3, <2>4
  <2>6. ASSUME NEW i \in 1 .. (k + 1)
        PROVE  g[i] = UpdateChannel(g[i - 1], group[i], meas)
    <3>1. g[i - 1] = f[i - 1]
      BY <2>3, <2>4
    <3>2. CASE i = k + 1
      <4>1. i - 1 = k
        BY <2>4, <3>2
      <4>2. g[i] = x
        BY <2>3, <3>2
      <4> QED
        BY <2>2, <3>1, <3>2, <4>1, <4>2
    <3>3. CASE i # k + 1
      <4>1. i \in 1 .. k /\ g[i] = f[i]
        BY <2>3, <2>4, <3>3
      <4> QED
        BY <2>1, <3>1, <4>1
    <3> QED
      BY <3>2, <3>3
  <2>7. Holds(g, k + 1)
    BY <2>5, <2>6
  <2> QED
    BY <1>5, <2>7
<1>6. N \in T
  <2> HIDE DEF T
  <2>1. 0 .. N \subseteq T
    BY <1>3, <1>4, <1>5, UpTo
  <2> QED
    BY <1>3, <2>1
<1>7. PICK f : Holds(f, N)
  BY <1>6
<1>8. f = G(f)
  <2>1. DOMAIN f = DOMAIN G(f)
    BY <1>7
  <2>2. ASSUME NEW n \in 0 .. N
        PROVE  f[n] = G(f)[n]
    <3>1. CASE n = 0
      BY <1>7, <3>1
    <3>2. CASE n # 0
      <4>1. n \in 1 .. N
        BY <1>3, <3>2
      <4> QED
        BY <1>7, <3>2, <4>1
    <3> QED
      BY <3>1, <3>2
  <2>3. f = [n \in 0 .. N |-> f[n]]
    BY <1>7
  <2> QED
    BY <2>1, <2>2, <2>3
<1>9. after = G(after)
  BY <1>8
<1>10. /\ after[0] = first
       /\ \A n \in 0 .. N : n # 0 => after[n] = UpdateChannel(after[n - 1], group[n], meas)
  <2> HIDE DEF after
  <2> QED
    BY <1>3, <1>9
<1>11. /\ after[N] = UpdateMq(s, group, meas)
       /\ \A n \in 1 .. N : after[n] = UpdateChannel(after[n - 1], group[n], meas)
  <2> HIDE DEF after
  <2> QED
    BY <1>2, <1>3, <1>10
<1> HIDE DEF after
<1> QED
  BY <1>1, <1>10, <1>11 DEF N

LEMMA UpdateMqFacts ==
  ASSUME NEW s, ScopeInv(s), NEW group, Len(group) \in Nat, NEW meas, meas \in Ids(s.db.meas)
  PROVE  Leads(s, UpdateMq(s, group, meas))
<1> DEFINE N == Len(group)
<1>1. PICK after :
        /\ after[0] = Fetched(s, meas) /\ after[N] = UpdateMq(s, group, meas)
        /\ \A n \in 1 .. N : after[n] = UpdateChannel(after[n - 1], group[n], meas)
  BY MqSteps
<1>2. PICK first : first = Fetched(s, meas)
  OBVIOUS
<1>3. N \in Nat
  OBVIOUS
<1> HIDE DEF N
<1>11. Leads(s, first)
  <2>1. /\ IsScope(first) /\ first.db = s.db /\ first.quantities = s.quantities
        /\ first.units = s.units
    BY <1>2 DEF ScopeInv, IsScope, Fetched
  <2> QED
    BY <2>1 DEF Leads, ScopeInv, Kept
<1> DEFINE L == {k \in 0 .. N : Leads(s, after[k])}
<1>12. 0 .. N \subseteq L
  <2>1. 0 \in L
    BY <1>1, <1>2, <1>3, <1>11
  <2>2. ASSUME NEW k \in 0 .. N, k + 1 \in 0 .. N, k \in L
        PROVE  k + 1 \in L
    <3>1. Leads(s, after[k])
      BY <2>2
    <3>2. after[k + 1] = UpdateChannel(after[k], group[k + 1], meas)
      <4>1. k + 1 \in 1 .. N /\ (k + 1) - 1 = k
        BY <1>3, <2>2
      <4> QED
        BY <1>1, <4>1
    <3>3. ScopeInv(after[k]) /\ meas \in Ids(after[k].db.meas)
      BY <3>1 DEF Leads, Kept
    <3>4. Leads(after[k], after[k + 1])
      BY <3>2, <3>3, ChannelFacts
    <3> QED
      BY <2>2, <3>1, <3>4, LeadsOn
  <2> HIDE DEF L
  <2> QED
    BY <1>3, <2>1, <2>2, UpTo
<1> QED
  BY <1>1, <1>3, <1>12

-----------------------------------------------------------------------------
LEMMA GroupFacts ==
  ASSUME NEW s, ScopeInv(s), NEW group, Len(group) \in Nat, NEW nr, NEW file,
         file \in Ids(s.db.file), NEW had, Ids(had) \subseteq Ids(s.db.meas)
  PROVE  Leads(s, UpdateGroup(s, group, nr, file, had))
<1> DEFINE same == {r \in had : r.nr = nr}
<1>1. CASE s.ok /\ same # {}
  <2>1. Ids(same) \subseteq Ids(s.db.meas) /\ Ids(same) # {}
    <3>1. Ids(same) \subseteq Ids(had)
      BY DEF Ids
    <3>2. Ids(same) # {}
      BY <1>1 DEF Ids
    <3> QED
      BY <3>1, <3>2
  <2>2. Ids(s.db.meas) \subseteq Nat
    BY DEF ScopeInv, DbInv, KeysInv, Keys, Drawn, Ids, Tables
  <2>3. Min(Ids(same)) \in Ids(s.db.meas)
    BY <2>1, <2>2, MinIsElement
  <2>4. UpdateGroup(s, group, nr, file, had) = UpdateMq(s, group, Min(Ids(same)))
    BY <1>1 DEF UpdateGroup
  <2> QED
    BY <2>3, <2>4, UpdateMqFacts
<1>2. CASE ~s.ok
  <2>1. UpdateGroup(s, group, nr, file, had) = s
    BY <1>2 DEF UpdateGroup
  <2> QED
    BY <2>1 DEF Leads, Kept
<1>3. CASE s.ok /\ same = {}
  <2>1. PICK acc : acc = InsertMeas(s, file, nr)
    OBVIOUS
  <2>2. UpdateGroup(s, group, nr, file, had) = IF acc.ok THEN UpdateMq(acc, group, NewId(s, "meas")) ELSE acc
    BY <1>3, <2>1 DEF UpdateGroup
  <2>3. CASE Breaks(s)
    <3>1. Leads(s, acc) /\ ~acc.ok
      BY <2>1, <2>3, FailedFacts DEF InsertMeas
    <3> QED
      BY <2>2, <3>1
  <2>4. CASE ~Breaks(s)
    <3>1. PICK row : row = [id |-> NewId(s, "meas"), file |-> file, nr |-> nr]
      OBVIOUS
    <3>2. RowFits(s.db, "meas", row) /\ row.id = NewId(s, "meas")
      BY <3>1 DEF RowFits, NewId, RefersTo
    <3>3. acc = Insert(s, "meas", row)
      BY <2>1, <2>4, <3>1 DEF InsertMeas
    <3>4. Leads(s, acc) /\ acc.ok /\ acc.db.meas = s.db.meas \cup {row}
      BY <1>3, <3>2, <3>3, InsertFacts DEF Leads, Tables
    <3>5. row.id \in Ids(acc.db.meas)
      BY <3>4 DEF Ids
    <3>6. Leads(acc, UpdateMq(acc, group, NewId(s, "meas")))
      BY <3>2, <3>4, <3>5, UpdateMqFacts DEF Leads
    <3> QED
      BY <2>2, <3>4, <3>6, LeadsOn
  <2> QED
    BY <2>3, <2>4
<1> QED
  BY <1>1, <1>2, <1>3

\* The measurements that UpdateMeas finds.
Had(s, file) == {r \in s.db.meas : r.file = file}

LEMMA MeasSteps ==
  ASSUME NEW s, NEW content, Len(content) \in Nat, NEW file
  PROVE  \E after :
           /\ after[0] = s /\ after[Len(content)] = UpdateMeas(s, content, file)
           /\ \A n \in 1 .. Len(content) :
                after[n] = UpdateGroup(after[n - 1], content[n], GroupNr(n), file, Had(s, file))
<1> DEFINE N == Len(content)
<1>1. PICK had : had = Had(s, file)
  OBVIOUS
<1> DEFINE G(f) == [n \in 0 .. N |-> IF n = 0 THEN s ELSE UpdateGroup(f[n - 1], content[n], GroupNr(n), file, had)]
           after == CHOOSE f : f = G(f)
           Holds(f, k) == /\ f = [i \in 0 .. k |-> f[i]] /\ f[0] = s
                          /\ \A i \in 1 .. k : f[i] = UpdateGroup(f[i - 1], content[i], GroupNr(i), file, had)
           T == {k \in 0 .. N : \E f : Holds(f, k)}
<1>2. UpdateMeas(s, content, file) = after[N]
  BY <1>1 DEF UpdateMeas, Had
<1>3. N \in Nat
  OBVIOUS
<1> HIDE DEF N
<1>4. 0 \in T
  <2>1. PICK g : g = [i \in 0 .. 0 |-> s]
    OBVIOUS
  <2>2. Holds(g, 0)
    BY <2>1
  <2>3. 0 \in 0 .. N
    BY <1>3
  <2> HIDE DEF Holds
  <2> QED
    BY <2>2, <2>3
<1>5. ASSUME NEW k \in 0 .. N, k + 1 \in 0 .. N, k \in T
      PROVE  k + 1 \in T
  <2>1. PICK f : Holds(f, k)
    BY <1>5
  <2>2. PICK x : x = UpdateGroup(f[k], content[k + 1], GroupNr(k + 1), file, had)
    OBVIOUS
  <2>3. PICK g : g = [i \in 0 .. (k + 1) |-> IF i = k + 1 THEN x ELSE f[i]]
    OBVIOUS
  <2>4. k \in Nat
    BY <1>3
  <2>5. g = [i \in 0 .. (k + 1) |-> g[i]] /\ g[0] = s
    BY <2>1, <2>3, <2>4
  <2>6. ASSUME NEW i \in 1 .. (k + 1)
        PROVE  g[i] = UpdateGroup(g[i - 1], content[i], GroupNr(i), file, had)
    <3>1. g[i - 1] = f[i - 1]
      BY <2>3, <2>4
    <3>2. CASE i = k + 1
      <4>1. i - 1 = k
        BY <2>4, <3>2
      <4>2. g[i] = x
        BY <2>3, <3>2
      <4> QED
        BY <2>2, <3>1, <3>2, <4>1, <4>2
    <3>3. CASE i # k + 1
      <4>1. i \in 1 .. k /\ g[i] = f[i]
        BY <2>3, <2>4, <3>3
      <4> QED
        BY <2>1, <3>1, <4>1
    <3> QED
      BY <3>2, <3>3
  <2>7. Holds(g, k + 1)
    BY <2>5, <2>6
  <2> QED
    BY <1>5, <2>7
<1>6. N \in T
  <2> HIDE DEF T
  <2>1. 0 .. N \subseteq T
    BY <1>3, <1>4, <1>5, UpTo
  <2> QED
    BY <1>3, <2>1
<1>7. PICK f : Holds(f, N)
  BY <1>6
<1>8. f = G(f)
  <2>1. DOMAIN f = DOMAIN G(f)
    BY <1>7
  <2>2. ASSUME NEW n \in 0 .. N
        PROVE  f[n] = G(f)[n]
    <3>1. CASE n = 0
      BY <1>7, <3>1
    <3>2. CASE n # 0
      <4>1. n \in 1 .. N
        BY <1>3, <3>2
      <4> QED
        BY <1>7, <3>2, <4>1
    <3> QED
      BY <3>1, <3>2
  <2>3. f = [n \in 0 .. N |-> f[n]]
    BY <1>7
  <2> QED
    BY <2>1, <2>2, <2>3
<1>9. after = G(after)
  BY <1>8
<1>10. /\ after[0] = s
       /\ \A n \in 0 .. N : n # 0 => after[n] = UpdateGroup(after[n - 1], content[n], GroupNr(n), file, had)
  <2> HIDE DEF after
  <2> QED
    BY <1>3, <1>9
<1>11. /\ after[N] = UpdateMeas(s, content, file)
       /\ \A n \in 1 .. N :
            after[n] = UpdateGroup(after[n - 1], content[n], GroupNr(n), file, Had(s, file))
  <2> HIDE DEF after
  <2> QED
    BY <1>1, <1>2, <1>3, <1>10
<1> HIDE DEF after
<1> QED
  BY <1>10, <1>11 DEF N

LEMMA UpdateMeasFacts ==
  ASSUME NEW s, ScopeInv(s), NEW content, Len(content) \in Nat,
         \A n \in 1 .. Len(content) : Len(content[n]) \in Nat,
         NEW file, file \in Ids(s.db.file)
  PROVE  Leads(s, UpdateMeas(s, content, file))
<1> DEFINE N == Len(content)
<1>2. PICK had : had = Had(s, file)
  OBVIOUS
<1>1. PICK after :
        /\ after[0] = s /\ after[N] = UpdateMeas(s, content, file)
        /\ \A n \in 1 .. N :
             after[n] = UpdateGroup(after[n - 1], content[n], GroupNr(n), file, had)
  <2>1. \E after :
           /\ after[0] = s /\ after[Len(content)] = UpdateMeas(s, content, file)
           /\ \A n \in 1 .. Len(content) :
                after[n] = UpdateGroup(after[n - 1], content[n], GroupNr(n), file, Had(s, file))
    BY MeasSteps
  <2> QED
    BY <1>2, <2>1
<1>0. Ids(had) \subseteq Ids(s.db.meas) /\ \A n \in 1 .. N : Len(content[n]) \in Nat
  BY <1>2 DEF Ids, Had
<1>3. N \in Nat
  OBVIOUS
<1> HIDE DEF N
<1>11. Leads(s, s)
  BY DEF Leads, Kept
<1> DEFINE L == {k \in 0 .. N : Leads(s, after[k])}
<1>12. 0 .. N \subseteq L
  <2>1. 0 \in L
    BY <1>1, <1>3, <1>11
  <2>2. ASSUME NEW k \in 0 .. N, k + 1 \in 0 .. N, k \in L
        PROVE  k + 1 \in L
    <3>1. Leads(s, after[k])
      BY <2>2
    <3>2. after[k + 1] = UpdateGroup(after[k], content[k + 1], GroupNr(k + 1), file, had)
      <4>1. k + 1 \in 1 .. N /\ (k + 1) - 1 = k
        BY <1>3, <2>2
      <4> QED
        BY <1>1, <4>1
    <3>3. /\ ScopeInv(after[k]) /\ file \in Ids(after[k].db.file)
          /\ Ids(had) \subseteq Ids(after[k].db.meas)
      BY <1>0, <3>1 DEF Leads, Kept
    <3>5. Len(content[k + 1]) \in Nat
      BY <1>0, <1>3, <2>2
    <3>4. Leads(after[k], after[k + 1])
      BY <3>2, <3>3, <3>5, GroupFacts
    <3> QED
      BY <2>2, <3>1, <3>4, LeadsOn
  <2> HIDE DEF L
  <2> QED
    BY <1>3, <2>1, <2>2, UpTo
<1> QED
  BY <1>1, <1>3, <1>12

-----------------------------------------------------------------------------
DiskInv == disk \in [ToSet(Files) -> Contents \cup {NoMdf}]

LEMMA FileFacts ==
  ASSUME DiskInv, NEW f \in ToSet(Files), NEW s, ScopeInv(s)
  PROVE  Leads(s, UpdateFile(s, f))
<1> DEFINE same == {r \in s.db.file : r.name = Plain(f)}
<1>0. disk[f] # NoMdf =>
        Len(disk[f]) \in Nat /\ \A n \in 1 .. Len(disk[f]) : Len(disk[f][n]) \in Nat
  <2>1. disk[f] # NoMdf => disk[f] \in Seq(Seq([name : STRING, unit : STRING, samples : Nat]))
    BY MeasAssumption DEF DiskInv
  <2> QED
    BY <2>1
<1>1. CASE disk[f] = NoMdf \/ ~s.ok
  <2>1. UpdateFile(s, f) = s
    BY <1>1 DEF UpdateFile
  <2> QED
    BY <2>1 DEF Leads, Kept
<1>2. CASE disk[f] # NoMdf /\ s.ok /\ same # {}
  <2>1. Ids(same) \subseteq Ids(s.db.file) /\ Ids(same) # {}
    BY <1>2 DEF Ids
  <2>2. Ids(s.db.file) \subseteq Nat
    BY DEF ScopeInv, DbInv, KeysInv, Keys, Drawn, Ids, Tables
  <2>3. Min(Ids(same)) \in Ids(s.db.file)
    BY <2>1, <2>2, MinIsElement
  <2>4. UpdateFile(s, f) = UpdateMeas(s, disk[f], Min(Ids(same)))
    BY <1>2 DEF UpdateFile
  <2> QED
    BY <1>0, <1>2, <2>3, <2>4, UpdateMeasFacts
<1>3. CASE disk[f] # NoMdf /\ s.ok /\ same = {}
  <2>1. PICK acc : acc = InsertFile(s, f)
    OBVIOUS
  <2>2. UpdateFile(s, f) = IF acc.ok THEN UpdateMeas(acc, disk[f], NewId(s, "file")) ELSE acc
    BY <1>3, <2>1 DEF UpdateFile
  <2>3. CASE Breaks(s) \/ \E r \in s.db.file : r.name = Bound(f)
    <3>1. Leads(s, acc) /\ ~acc.ok
      BY <2>1, <2>3, FailedFacts DEF InsertFile
    <3> QED
      BY <2>2, <3>1
  <2>4. CASE ~(Breaks(s) \/ \E r \in s.db.file : r.name = Bound(f))
    <3>1. PICK row : row = [id |-> NewId(s, "file"), name |-> Bound(f)]
      OBVIOUS
    <3>2. RowFits(s.db, "file", row) /\ row.id = NewId(s, "file")
      BY <3>1 DEF RowFits, NewId
    <3>3. acc = Insert(s, "file", row)
      BY <2>1, <2>4, <3>1 DEF InsertFile
    <3>4. Leads(s, acc) /\ acc.ok /\ acc.db.file = s.db.file \cup {row}
      BY <1>3, <3>2, <3>3, InsertFacts DEF Leads, Tables
    <3>5. row.id \in Ids(acc.db.file)
      BY <3>4 DEF Ids
    <3>6. Leads(acc, UpdateMeas(acc, disk[f], NewId(s, "file")))
      BY <1>0, <1>3, <3>2, <3>4, <3>5, UpdateMeasFacts DEF Leads
    <3> QED
      BY <2>2, <3>4, <3>6, LeadsOn
  <2> QED
    BY <2>3, <2>4
<1> QED
  BY <1>1, <1>2, <1>3

\* One turn of the loop of UpdateMeasFile.
OneFile(acc, n, files) == IF Files[n] \in files THEN UpdateFile(acc, Files[n]) ELSE acc

LEMMA FilesSteps ==
  ASSUME NEW s, NEW files
  PROVE  \E after :
           /\ after[0] = s /\ after[Len(Files)] = UpdateFiles(s, files)
           /\ \A n \in 1 .. Len(Files) : after[n] = OneFile(after[n - 1], n, files)
<1> DEFINE N == Len(Files)
           One(acc, n) == OneFile(acc, n, files)
<1> DEFINE G(f) == [n \in 0 .. N |-> IF n = 0 THEN s ELSE One(f[n - 1], n)]
           after == CHOOSE f : f = G(f)
           Holds(f, k) == /\ f = [i \in 0 .. k |-> f[i]] /\ f[0] = s
                          /\ \A i \in 1 .. k : f[i] = One(f[i - 1], i)
           T == {k \in 0 .. N : \E f : Holds(f, k)}
<1>2. UpdateFiles(s, files) = after[N]
  BY DEF UpdateFiles, OneFile
<1>3. N \in Nat
  BY MeasAssumption
<1> HIDE DEF N, One
<1>4. 0 \in T
  <2>1. PICK g : g = [i \in 0 .. 0 |-> s]
    OBVIOUS
  <2>2. Holds(g, 0)
    BY <2>1
  <2>3. 0 \in 0 .. N
    BY <1>3
  <2> HIDE DEF Holds
  <2> QED
    BY <2>2, <2>3
<1>5. ASSUME NEW k \in 0 .. N, k + 1 \in 0 .. N, k \in T
      PROVE  k + 1 \in T
  <2>1. PICK f : Holds(f, k)
    BY <1>5
  <2>2. PICK x : x = One(f[k], k + 1)
    OBVIOUS
  <2>3. PICK g : g = [i \in 0 .. (k + 1) |-> IF i = k + 1 THEN x ELSE f[i]]
    OBVIOUS
  <2>4. k \in Nat
    BY <1>3
  <2>5. g = [i \in 0 .. (k + 1) |-> g[i]] /\ g[0] = s
    BY <2>1, <2>3, <2>4
  <2>6. ASSUME NEW i \in 1 .. (k + 1)
        PROVE  g[i] = One(g[i - 1], i)
    <3>1. g[i - 1] = f[i - 1]
      BY <2>3, <2>4
    <3>2. CASE i = k + 1
      <4>1. i - 1 = k
        BY <2>4, <3>2
      <4>2. g[i] = x
        BY <2>3, <3>2
      <4> QED
        BY <2>2, <3>1, <3>2, <4>1, <4>2
    <3>3. CASE i # k + 1
      <4>1. i \in 1 .. k /\ g[i] = f[i]
        BY <2>3, <2>4, <3>3
      <4> QED
        BY <2>1, <3>1, <4>1
    <3> QED
      BY <3>2, <3>3
  <2>7. Holds(g, k + 1)
    BY <2>5, <2>6
  <2> QED
    BY <1>5, <2>7
<1>6. N \in T
  <2> HIDE DEF T
  <2>1. 0 .. N \subseteq T
    BY <1>3, <1>4, <1>5, UpTo
  <2> QED
    BY <1>3, <2>1
<1>7. PICK f : Holds(f, N)
  BY <1>6
<1>8. f = G(f)
  <2>1. DOMAIN f = DOMAIN G(f)
    BY <1>7
  <2>2. ASSUME NEW n \in 0 .. N
        PROVE  f[n] = G(f)[n]
    <3>1. CASE n = 0
      BY <1>7, <3>1
    <3>2. CASE n # 0
      <4>1. n \in 1 .. N
        BY <1>3, <3>2
      <4> QED
        BY <1>7, <3>2, <4>1
    <3> QED
      BY <3>1, <3>2
  <2>3. f = [n \in 0 .. N |-> f[n]]
    BY <1>7
  <2> QED
    BY <2>1, <2>2, <2>3
<1>9. after = G(after)
  BY <1>8
<1>10. /\ after[0] = s
       /\ \A n \in 0 .. N : n # 0 => after[n] = One(after[n - 1], n)
  <2> HIDE DEF after
  <2> QED
    BY <1>3, <1>9
<1>11. /\ after[N] = UpdateFiles(s, files)
       /\ \A n \in 1 .. N : after[n] = One(after[n - 1], n)
  <2> HIDE DEF after
  <2> QED
    BY <1>2, <1>3, <1>10
<1> HIDE DEF after
<1> QED
  BY <1>10, <1>11 DEF N, One

LEMMA UpdateFilesFacts ==
  ASSUME DiskInv, NEW s, ScopeInv(s), NEW files
  PROVE  Leads(s, UpdateFiles(s, files))
<1> DEFINE N == Len(Files)
<1>1. PICK after :
        /\ after[0] = s /\ after[N] = UpdateFiles(s, files)
        /\ \A n \in 1 .. N : after[n] = OneFile(after[n - 1], n, files)
  BY FilesSteps
<1>3. N \in Nat /\ \A n \in 1 .. N : Files[n] \in ToSet(Files)
  BY MeasAssumption DEF ToSet
<1>13. ASSUME NEW acc, ScopeInv(acc), NEW n \in 1 .. N
       PROVE  Leads(acc, OneFile(acc, n, files))
  <2>1. CASE Files[n] \in files
    <3>1. OneFile(acc, n, files) = UpdateFile(acc, Files[n])
      BY <2>1 DEF OneFile
    <3> QED
      BY <1>3, <1>13, <3>1, FileFacts
  <2>2. CASE Files[n] \notin files
    <3>1. OneFile(acc, n, files) = acc
      BY <2>2 DEF OneFile
    <3> QED
      BY <1>13, <3>1 DEF Leads, Kept
  <2> QED
    BY <2>1, <2>2
<1> HIDE DEF N
<1>11. Leads(s, s)
  BY DEF Leads, Kept
<1> DEFINE L == {k \in 0 .. N : Leads(s, after[k])}
<1>12. 0 .. N \subseteq L
  <2>1. 0 \in L
    BY <1>1, <1>3, <1>11
  <2>2. ASSUME NEW k \in 0 .. N, k + 1 \in 0 .. N, k \in L
        PROVE  k + 1 \in L
    <3>1. Leads(s, after[k])
      BY <2>2
    <3>2. after[k + 1] = OneFile(after[k], k + 1, files)
      <4>1. k + 1 \in 1 .. N /\ (k + 1) - 1 = k
        BY <1>3, <2>2
      <4> QED
        BY <1>1, <4>1
    <3>3. ScopeInv(after[k]) /\ k + 1 \in 1 .. N
      BY <1>3, <2>2, <3>1 DEF Leads
    <3>4. Leads(after[k], after[k + 1])
      BY <1>13, <3>2, <3>3
    <3> QED
      BY <2>2, <3>1, <3>4, LeadsOn
  <2> HIDE DEF L
  <2> QED
    BY <1>3, <2>1, <2>2, UpTo
<1> QED
  BY <1>1, <1>3, <1>12

-----------------------------------------------------------------------------
(***************************************************************************)
(* Deleting rows.                                                          *)
(***************************************************************************)
\* x is the row r, but without the reference if it was to one of ids.
IsNulled(x, r, column, ids) ==
  /\ DOMAIN x = DOMAIN r
  /\ \A f \in DOMAIN r : f # column => x[f] = r[f]
  /\ \/ r[column] \in ids /\ x[column] = 0
     \/ r[column] \notin ids /\ x[column] = r[column]

LEMMA NulledFacts ==
  ASSUME NEW rows, NEW column, NEW ids,
         \A r \in rows : column \in DOMAIN r /\ "id" \in DOMAIN r, column # "id"
  PROVE  /\ \A x \in Nulled(rows, column, ids) : \E r \in rows : IsNulled(x, r, column, ids)
         /\ Ids(Nulled(rows, column, ids)) = Ids(rows)
         /\ \A last : Keys(rows, last) => Keys(Nulled(rows, column, ids), last)
<1> DEFINE Put(r) == IF r[column] \in ids THEN [r EXCEPT ![column] = 0] ELSE r
<1>1. PICK new : new = Nulled(rows, column, ids)
  OBVIOUS
<1>2. new = {Put(r) : r \in rows}
  BY <1>1 DEF Nulled
<1>3. ASSUME NEW r \in rows
      PROVE  IsNulled(Put(r), r, column, ids) /\ Put(r).id = r.id
  <2>1. PICK x : x = Put(r)
    OBVIOUS
  <2>2. CASE r[column] \in ids
    <3>1. x = [r EXCEPT ![column] = 0]
      BY <2>1, <2>2
    <3>2. /\ DOMAIN x = DOMAIN r /\ x[column] = 0
          /\ \A f \in DOMAIN r : f # column => x[f] = r[f]
      BY <3>1
    <3> QED
      BY <2>1, <2>2, <3>2 DEF IsNulled
  <2>3. CASE r[column] \notin ids
    <3>1. x = r
      BY <2>1, <2>3
    <3> QED
      BY <2>1, <2>3, <3>1 DEF IsNulled
  <2> QED
    BY <2>2, <2>3
<1> HIDE DEF Put
<1>4. \A x \in new : \E r \in rows : x = Put(r)
  BY <1>2
<1>5. \A r \in rows : Put(r) \in new
  BY <1>2
<1>6. Ids(new) = Ids(rows)
  <2>1. ASSUME NEW i \in Ids(new) PROVE i \in Ids(rows)
    BY <1>3, <1>4 DEF Ids
  <2>2. ASSUME NEW i \in Ids(rows) PROVE i \in Ids(new)
    <3>1. PICK r \in rows : i = r.id
      BY DEF Ids
    <3> QED
      BY <1>3, <1>5, <3>1 DEF Ids
  <2> QED
    BY <2>1, <2>2
<1>7. ASSUME NEW last, Keys(rows, last)
      PROVE  Keys(new, last)
  <2>1. ASSUME NEW x \in new PROVE Drawn(x.id, last)
    BY <1>3, <1>4, <1>7 DEF Keys
  <2>2. ASSUME NEW x \in new, NEW y \in new, x.id = y.id PROVE x = y
    <3>1. PICK r \in rows, q \in rows : x = Put(r) /\ y = Put(q)
      BY <1>4
    <3>2. r.id = q.id
      BY <1>3, <2>2, <3>1
    <3> QED
      BY <1>7, <3>1, <3>2 DEF Keys
  <2> QED
    BY <2>1, <2>2 DEF Keys
<1> QED
  BY <1>1, <1>3, <1>4, <1>6, <1>7

LEMMA FewerRows ==
  ASSUME NEW rows, NEW last, Keys(rows, last), NEW gone
  PROVE  /\ Keys(rows \ gone, last)
         /\ \A id, text : Names(id, rows, text) => Names(id, rows \ gone, text)
         /\ \A id, text : id = 0 => Names(id, rows, text)
         /\ \A id : RefersTo(id, rows) /\ id \notin Ids(gone) => RefersTo(id, rows \ gone)
         /\ \A id : id = 0 => RefersTo(id, rows)
<1>1. Keys(rows \ gone, last) /\ \A id, text : id = 0 => Names(id, rows, text)
  BY DEF Keys, Drawn, Names
<1>2. \A id, text : Names(id, rows, text) => Names(id, rows \ gone, text)
  BY DEF Names
<1>3. ASSUME NEW id, RefersTo(id, rows), id \notin Ids(gone)
      PROVE  RefersTo(id, rows \ gone)
  <2>1. CASE id = 0
    BY <2>1 DEF RefersTo
  <2>2. CASE id # 0
    <3>1. PICK r \in rows : r.id = id
      BY <1>3, <2>2 DEF RefersTo, Ids
    <3>2. r \notin gone
      BY <1>3, <3>1 DEF Ids
    <3> QED
      BY <3>1, <3>2 DEF RefersTo, Ids
  <2> QED
    BY <2>1, <2>2
<1> QED
  BY <1>1, <1>2, <1>3 DEF RefersTo

\* What a delete leaves, with what is remembered of the tables.
Lessened(d, e) ==
  /\ DbInv(e)
  /\ \A list : Remembered(list, d.quantity, d.last["quantity"])
                 => Remembered(list, e.quantity, e.last["quantity"])
  /\ \A list : Remembered(list, d.unit, d.last["unit"])
                 => Remembered(list, e.unit, e.last["unit"])

LEMMA WithoutFilesInv ==
  ASSUME NEW d, DbInv(d), NEW gone
  PROVE  Lessened(d, WithoutFiles(d, gone))
<1>1. PICK meas : meas = Nulled(d.meas, "file", Ids(gone))
  OBVIOUS
<1>2. PICK e : e = [d EXCEPT !.file = @ \ gone, !.meas = meas]
  OBVIOUS
<1>3. e = WithoutFiles(d, gone)
  BY <1>1, <1>2 DEF WithoutFiles
<1>4. /\ DOMAIN e = DOMAIN d /\ e.last = d.last /\ e.file = d.file \ gone /\ e.meas = meas
      /\ e.mq = d.mq /\ e.quantity = d.quantity /\ e.unit = d.unit
  BY <1>2 DEF DbInv, IsDb, Tables
<1>5. \A r \in d.meas : "file" \in DOMAIN r /\ "id" \in DOMAIN r
  BY DEF DbInv, HasFields
<1>6. /\ \A x \in meas : \E r \in d.meas : IsNulled(x, r, "file", Ids(gone))
      /\ Ids(meas) = Ids(d.meas)
      /\ \A last : Keys(d.meas, last) => Keys(meas, last)
  BY <1>1, <1>5, NulledFacts
<1>7. \A t \in Tables : Keys(d[t], d.last[t])
  BY DEF DbInv, KeysInv
<1>14. Keys(d.file, d.last["file"])
  BY <1>7 DEF Tables
<1>20. /\ Keys(d.file \ gone, d.last["file"])
       /\ \A id, text : Names(id, d.file, text) => Names(id, d.file \ gone, text)
       /\ \A id, text : id = 0 => Names(id, d.file, text)
       /\ \A id : RefersTo(id, d.file) /\ id \notin Ids(gone) => RefersTo(id, d.file \ gone)
       /\ \A id : id = 0 => RefersTo(id, d.file)
  BY <1>14, FewerRows
<1>8. IsDb(e)
  BY <1>4 DEF DbInv, IsDb
<1>9. HasFields(e)
  BY <1>4, <1>6 DEF DbInv, HasFields, IsNulled
<1>10. KeysInv(e)
  <2>1. Keys(e.file, e.last["file"]) /\ Keys(e.meas, e.last["meas"])
    BY <1>4, <1>6, <1>7, <1>20 DEF Tables
  <2> QED
    BY <1>4, <1>7, <2>1 DEF KeysInv, Tables
<1>11. RefsInv(e)
  <2>1. \A r \in e.mq : RefersTo(r.meas, e.meas)
    BY <1>4, <1>6 DEF DbInv, RefsInv, RefersTo
  <2>2. ASSUME NEW x \in e.meas PROVE RefersTo(x.file, e.file)
    <3>1. PICK r \in d.meas : IsNulled(x, r, "file", Ids(gone))
      BY <1>4, <1>6
    <3>2. CASE r.file \in Ids(gone)
      BY <3>1, <3>2 DEF IsNulled, RefersTo
    <3>3. CASE r.file \notin Ids(gone)
      <4>1. x.file = r.file /\ RefersTo(r.file, d.file)
        BY <3>1, <3>3 DEF IsNulled, DbInv, RefsInv
      <4> QED
        BY <1>4, <3>3, <4>1, <1>20
    <3> QED
      BY <3>2, <3>3
  <2> QED
    BY <1>4, <2>1, <2>2 DEF DbInv, RefsInv
<1>12. Own(e)
  BY <1>4 DEF DbInv, Own
<1>13. DbInv(e)
  BY <1>8, <1>9, <1>10, <1>11, <1>12 DEF DbInv
<1> QED
  BY <1>3, <1>4, <1>13 DEF Lessened

LEMMA WithoutQuantitiesInv ==
  ASSUME NEW d, DbInv(d), NEW gone
  PROVE  Lessened(d, WithoutQuantities(d, gone))
<1>1. PICK mq : mq = Nulled(d.mq, "quantity", Ids(gone))
  OBVIOUS
<1>2. PICK e : e = [d EXCEPT !.quantity = @ \ gone, !.mq = mq]
  OBVIOUS
<1>3. e = WithoutQuantities(d, gone)
  BY <1>1, <1>2 DEF WithoutQuantities
<1>4. /\ DOMAIN e = DOMAIN d /\ e.last = d.last /\ e.quantity = d.quantity \ gone /\ e.mq = mq
      /\ e.file = d.file /\ e.meas = d.meas /\ e.unit = d.unit
  BY <1>2 DEF DbInv, IsDb, Tables
<1>5. \A r \in d.mq : "quantity" \in DOMAIN r /\ "id" \in DOMAIN r
  BY DEF DbInv, HasFields
<1>6. /\ \A x \in mq : \E r \in d.mq : IsNulled(x, r, "quantity", Ids(gone))
      /\ \A last : Keys(d.mq, last) => Keys(mq, last)
  BY <1>1, <1>5, NulledFacts
<1>7. \A t \in Tables : Keys(d[t], d.last[t])
  BY DEF DbInv, KeysInv
<1>14. Keys(d.quantity, d.last["quantity"])
  BY <1>7 DEF Tables
<1>20. /\ Keys(d.quantity \ gone, d.last["quantity"])
       /\ \A id, text : Names(id, d.quantity, text) => Names(id, d.quantity \ gone, text)
       /\ \A id, text : id = 0 => Names(id, d.quantity, text)
       /\ \A id : RefersTo(id, d.quantity) /\ id \notin Ids(gone) => RefersTo(id, d.quantity \ gone)
       /\ \A id : id = 0 => RefersTo(id, d.quantity)
  BY <1>14, FewerRows
<1>8. IsDb(e)
  BY <1>4 DEF DbInv, IsDb
<1>9. HasFields(e)
  BY <1>4, <1>6 DEF DbInv, HasFields, IsNulled
<1>10. KeysInv(e)
  <2>1. Keys(e.quantity, e.last["quantity"]) /\ Keys(e.mq, e.last["mq"])
    BY <1>4, <1>6, <1>7, <1>20 DEF Tables
  <2> QED
    BY <1>4, <1>7, <2>1 DEF KeysInv, Tables
<1>15. ASSUME NEW x \in e.mq
       PROVE  /\ RefersTo(x.meas, e.meas) /\ RefersTo(x.quantity, e.quantity) /\ RefersTo(x.unit, e.unit)
              /\ Names(x.quantity, e.quantity, x.name.text) /\ Names(x.unit, e.unit, x.of.unit)
  <2>1. PICK r \in d.mq : IsNulled(x, r, "quantity", Ids(gone))
    BY <1>4, <1>6
  <2>2. x.meas = r.meas /\ x.unit = r.unit /\ x.name = r.name /\ x.of = r.of
    BY <2>1 DEF IsNulled, DbInv, HasFields
  <2>3. /\ RefersTo(r.meas, d.meas) /\ RefersTo(r.quantity, d.quantity) /\ RefersTo(r.unit, d.unit)
        /\ Names(r.quantity, d.quantity, r.name.text) /\ Names(r.unit, d.unit, r.of.unit)
    BY DEF DbInv, RefsInv, Own
  <2>4. CASE r.quantity \in Ids(gone)
    <3>1. x.quantity = 0
      BY <2>1, <2>4 DEF IsNulled
    <3>2. RefersTo(x.quantity, e.quantity) /\ Names(x.quantity, e.quantity, x.name.text)
      BY <1>4, <3>1, <1>20 DEF RefersTo
    <3> QED
      BY <1>4, <2>2, <2>3, <3>2
  <2>5. CASE r.quantity \notin Ids(gone)
    <3>1. x.quantity = r.quantity
      BY <2>1, <2>5 DEF IsNulled
    <3>2. RefersTo(x.quantity, e.quantity) /\ Names(x.quantity, e.quantity, x.name.text)
      BY <1>4, <1>20, <2>2, <2>3, <2>5, <3>1
    <3> QED
      BY <1>4, <2>2, <2>3, <3>2
  <2> QED
    BY <2>4, <2>5
<1>11. RefsInv(e)
  BY <1>4, <1>15 DEF DbInv, RefsInv
<1>12. Own(e)
  BY <1>15 DEF Own
<1>13. DbInv(e)
  BY <1>8, <1>9, <1>10, <1>11, <1>12 DEF DbInv
<1> QED
  BY <1>3, <1>4, <1>13, <1>20 DEF Lessened, Remembered

LEMMA WithoutUnitsInv ==
  ASSUME NEW d, DbInv(d), NEW gone
  PROVE  Lessened(d, WithoutUnits(d, gone))
<1>1. PICK mq, quantity : /\ mq = Nulled(d.mq, "unit", Ids(gone))
                          /\ quantity = Nulled(d.quantity, "unit", Ids(gone))
  OBVIOUS
<1>2. PICK e : e = [d EXCEPT !.unit = @ \ gone, !.mq = mq, !.quantity = quantity]
  OBVIOUS
<1>3. e = WithoutUnits(d, gone)
  BY <1>1, <1>2 DEF WithoutUnits
<1>4. /\ DOMAIN e = DOMAIN d /\ e.last = d.last /\ e.unit = d.unit \ gone /\ e.mq = mq
      /\ e.quantity = quantity /\ e.file = d.file /\ e.meas = d.meas
  BY <1>2 DEF DbInv, IsDb, Tables
<1>5. /\ \A r \in d.mq : "unit" \in DOMAIN r /\ "id" \in DOMAIN r
      /\ \A r \in d.quantity : "unit" \in DOMAIN r /\ "id" \in DOMAIN r
  BY DEF DbInv, HasFields
<1>6. /\ \A x \in mq : \E r \in d.mq : IsNulled(x, r, "unit", Ids(gone))
      /\ \A last : Keys(d.mq, last) => Keys(mq, last)
  BY <1>1, <1>5, NulledFacts
<1>16. /\ \A x \in quantity : \E r \in d.quantity : IsNulled(x, r, "unit", Ids(gone))
       /\ Ids(quantity) = Ids(d.quantity)
       /\ \A last : Keys(d.quantity, last) => Keys(quantity, last)
  BY <1>1, <1>5, NulledFacts
<1>7. \A t \in Tables : Keys(d[t], d.last[t])
  BY DEF DbInv, KeysInv
<1>14. Keys(d.unit, d.last["unit"])
  BY <1>7 DEF Tables
<1>20. /\ Keys(d.unit \ gone, d.last["unit"])
       /\ \A id, text : Names(id, d.unit, text) => Names(id, d.unit \ gone, text)
       /\ \A id, text : id = 0 => Names(id, d.unit, text)
       /\ \A id : RefersTo(id, d.unit) /\ id \notin Ids(gone) => RefersTo(id, d.unit \ gone)
       /\ \A id : id = 0 => RefersTo(id, d.unit)
  BY <1>14, FewerRows
<1>17. \A x \in quantity : \E r \in d.quantity : x.id = r.id /\ x.name = r.name
  BY <1>16 DEF IsNulled, DbInv, HasFields
<1>18. \A id, text : Names(id, d.quantity, text) => Names(id, e.quantity, text)
  BY <1>4, <1>17 DEF Names
<1>8. IsDb(e)
  BY <1>4 DEF DbInv, IsDb
<1>9. HasFields(e)
  BY <1>4, <1>6, <1>16 DEF DbInv, HasFields, IsNulled
<1>10. KeysInv(e)
  <2>1. /\ Keys(e.quantity, e.last["quantity"]) /\ Keys(e.mq, e.last["mq"])
        /\ Keys(e.unit, e.last["unit"])
    BY <1>4, <1>6, <1>7, <1>16, <1>20 DEF Tables
  <2> QED
    BY <1>4, <1>7, <2>1 DEF KeysInv, Tables
<1>19. ASSUME NEW x, NEW r, IsNulled(x, r, "unit", Ids(gone)), RefersTo(r.unit, d.unit)
       PROVE  /\ RefersTo(x.unit, e.unit)
              /\ \A text : Names(r.unit, d.unit, text) => Names(x.unit, e.unit, text)
  <2>1. CASE r.unit \in Ids(gone)
    <3>1. x.unit = 0
      BY <1>19, <2>1 DEF IsNulled
    <3> QED
      BY <1>4, <1>14, <3>1, <1>20 DEF RefersTo
  <2>2. CASE r.unit \notin Ids(gone)
    <3>1. x.unit = r.unit
      BY <1>19, <2>2 DEF IsNulled
    <3> QED
      BY <1>4, <1>19, <2>2, <3>1, <1>20
  <2> QED
    BY <2>1, <2>2
<1>15. ASSUME NEW x \in e.mq
       PROVE  /\ RefersTo(x.meas, e.meas) /\ RefersTo(x.quantity, e.quantity) /\ RefersTo(x.unit, e.unit)
              /\ Names(x.quantity, e.quantity, x.name.text) /\ Names(x.unit, e.unit, x.of.unit)
  <2>1. PICK r \in d.mq : IsNulled(x, r, "unit", Ids(gone))
    BY <1>4, <1>6
  <2>2. x.meas = r.meas /\ x.quantity = r.quantity /\ x.name = r.name /\ x.of = r.of
    BY <2>1 DEF IsNulled, DbInv, HasFields
  <2>3. /\ RefersTo(r.meas, d.meas) /\ RefersTo(r.quantity, d.quantity) /\ RefersTo(r.unit, d.unit)
        /\ Names(r.quantity, d.quantity, r.name.text) /\ Names(r.unit, d.unit, r.of.unit)
    BY DEF DbInv, RefsInv, Own
  <2>4. RefersTo(x.quantity, e.quantity)
    BY <1>4, <1>16, <2>2, <2>3 DEF RefersTo
  <2>5. RefersTo(x.unit, e.unit) /\ Names(x.unit, e.unit, x.of.unit)
    BY <1>19, <2>1, <2>2, <2>3
  <2> QED
    BY <1>4, <1>18, <2>2, <2>3, <2>4, <2>5
<1>11. RefsInv(e)
  <2>1. ASSUME NEW x \in e.quantity PROVE RefersTo(x.unit, e.unit)
    BY <1>4, <1>16, <1>19 DEF DbInv, RefsInv
  <2> QED
    BY <1>4, <1>15, <2>1 DEF DbInv, RefsInv
<1>12. Own(e)
  BY <1>15 DEF Own
<1>13. DbInv(e)
  BY <1>8, <1>9, <1>10, <1>11, <1>12 DEF DbInv
<1> QED
  BY <1>3, <1>4, <1>13, <1>14, <1>18, <1>20 DEF Lessened, Remembered

-----------------------------------------------------------------------------
(***************************************************************************)
(* The whole scope, and the tables before it.                              *)
(***************************************************************************)
LEMMA DeleteFacts ==
  ASSUME NEW s, ScopeInv(s), NEW had, NEW files
  PROVE  DbInv(DeleteUnlisted(s, had, files).db)
<1>1. PICK gone : gone = {r \in had : r.name \notin {Plain(f) : f \in files}}
  OBVIOUS
<1>2. PICK count : count = s.count + Cardinality(gone)
  OBVIOUS
<1>3. PICK r : r = DeleteUnlisted(s, had, files)
  OBVIOUS
<1>4. CASE ~s.ok
  <2>1. r = s
    BY <1>3, <1>4 DEF DeleteUnlisted
  <2> QED
    BY <1>3, <2>1 DEF ScopeInv
<1>5. CASE s.ok /\ s.broken \in (s.count + 1) .. count
  <2>1. r = [s EXCEPT !.count = count, !.ok = FALSE]
    BY <1>1, <1>2, <1>3, <1>5 DEF DeleteUnlisted
  <2>2. r.db = s.db
    BY <2>1 DEF ScopeInv, IsScope
  <2> QED
    BY <1>3, <2>2 DEF ScopeInv
<1>6. CASE s.ok /\ s.broken \notin (s.count + 1) .. count
  <2>1. PICK d : d = WithoutFiles(s.db, gone)
    OBVIOUS
  <2>2. r = [s EXCEPT !.count = count, !.db = d]
    BY <1>1, <1>2, <1>3, <1>6, <2>1 DEF DeleteUnlisted
  <2>3. r.db = d
    BY <2>2 DEF ScopeInv, IsScope
  <2>4. DbInv(d)
    BY <2>1, WithoutFilesInv DEF ScopeInv, Lessened
  <2> QED
    BY <1>3, <2>3, <2>4
<1> QED
  BY <1>4, <1>5, <1>6

ListsFit(d, quantities, units) ==
  /\ Remembered(quantities, d.quantity, d.last["quantity"])
  /\ Remembered(units, d.unit, d.last["unit"])

LEMMA ImportFacts ==
  ASSUME DiskInv, NEW tables, DbInv(tables), NEW quantities, NEW units,
         ListsFit(tables, quantities, units), NEW files, NEW broken
  PROVE  DbInv(Import(tables, quantities, units, files, broken).db)
<1>1. PICK s : s = Begun(tables, quantities, units, broken)
  OBVIOUS
<1>2. ScopeInv(s)
  BY <1>1 DEF Begun, ScopeInv, IsScope, ListsFit
<1>3. PICK r : r = UpdateFiles(s, files)
  OBVIOUS
<1>4. ScopeInv(r)
  BY <1>2, <1>3, UpdateFilesFacts DEF Leads
<1>5. DbInv(DeleteUnlisted(r, tables.file, files).db)
  BY <1>4, DeleteFacts
<1> QED
  BY <1>1, <1>3, <1>5 DEF Import

LEMMA NewDbInv == DbInv(NewDb) /\ ListsFit(NewDb, {}, {})
<1>1. PICK last : last = [t \in Tables |-> 0]
  OBVIOUS
<1>2. PICK d : d = [file |-> {}, meas |-> {}, mq |-> {}, quantity |-> {}, unit |-> {}, last |-> last]
  OBVIOUS
<1>3. d = NewDb
  BY <1>1, <1>2 DEF NewDb
<1>4. /\ DOMAIN d = Tables \cup {"last"} /\ d.last = last /\ last \in [Tables -> Nat]
      /\ \A t \in Tables : d[t] = {}
  BY <1>1, <1>2 DEF Tables
<1>5. d.file = {} /\ d.meas = {} /\ d.mq = {} /\ d.quantity = {} /\ d.unit = {}
  BY <1>2
<1>6. IsDb(d) /\ HasFields(d) /\ KeysInv(d) /\ RefsInv(d) /\ Own(d)
  BY <1>4, <1>5 DEF IsDb, HasFields, KeysInv, Keys, RefsInv, Own
<1> QED
  BY <1>3, <1>6 DEF DbInv, ListsFit, Remembered

\* The row of another program has the name without quotes.
IsUnquoted(x, r) ==
  /\ DOMAIN x = DOMAIN r /\ x.name.text = r.name.text
  /\ \A f \in DOMAIN r : f # "name" => x[f] = r[f]

LEMMA UnquotedFacts ==
  ASSUME NEW rows, \A r \in rows : "name" \in DOMAIN r /\ "id" \in DOMAIN r
  PROVE  /\ \A x \in Unquoted(rows) : \E r \in rows : IsUnquoted(x, r)
         /\ Ids(Unquoted(rows)) = Ids(rows)
         /\ \A last : Keys(rows, last) => Keys(Unquoted(rows), last)
<1> DEFINE Put(r) == [r EXCEPT !.name = Plain(@.text)]
<1>1. PICK new : new = Unquoted(rows)
  OBVIOUS
<1>2. new = {Put(r) : r \in rows}
  BY <1>1 DEF Unquoted
<1>3. ASSUME NEW r \in rows
      PROVE  IsUnquoted(Put(r), r) /\ Put(r).id = r.id
  <2>1. PICK x : x = Put(r)
    OBVIOUS
  <2>2. /\ DOMAIN x = DOMAIN r /\ x.name = Plain(r.name.text)
        /\ \A f \in DOMAIN r : f # "name" => x[f] = r[f]
    BY <2>1
  <2> HIDE DEF Put
  <2> QED
    BY <2>1, <2>2 DEF IsUnquoted, Plain
<1> HIDE DEF Put
<1>4. \A x \in new : \E r \in rows : x = Put(r)
  BY <1>2
<1>5. \A r \in rows : Put(r) \in new
  BY <1>2
<1>6. Ids(new) = Ids(rows)
  <2>1. ASSUME NEW i \in Ids(new) PROVE i \in Ids(rows)
    BY <1>3, <1>4 DEF Ids
  <2>2. ASSUME NEW i \in Ids(rows) PROVE i \in Ids(new)
    <3>1. PICK r \in rows : i = r.id
      BY DEF Ids
    <3> QED
      BY <1>3, <1>5, <3>1 DEF Ids
  <2> QED
    BY <2>1, <2>2
<1>7. ASSUME NEW last, Keys(rows, last)
      PROVE  Keys(new, last)
  <2>1. ASSUME NEW x \in new PROVE Drawn(x.id, last)
    BY <1>3, <1>4, <1>7 DEF Keys
  <2>2. ASSUME NEW x \in new, NEW y \in new, x.id = y.id PROVE x = y
    <3>1. PICK r \in rows, q \in rows : x = Put(r) /\ y = Put(q)
      BY <1>4
    <3>2. r.id = q.id
      BY <1>3, <2>2, <3>1
    <3> QED
      BY <1>7, <3>1, <3>2 DEF Keys
  <2> QED
    BY <2>1, <2>2 DEF Keys
<1> QED
  BY <1>1, <1>3, <1>4, <1>6, <1>7

LEMMA PlainDbInv ==
  ASSUME NEW d, DbInv(d)
  PROVE  DbInv(PlainDb(d))
<1>1. PICK file, mq, quantity, unit :
        /\ file = Unquoted(d.file) /\ mq = Unquoted(d.mq)
        /\ quantity = Unquoted(d.quantity) /\ unit = Unquoted(d.unit)
  OBVIOUS
<1>2. PICK e : e = [d EXCEPT !.file = file, !.mq = mq, !.quantity = quantity, !.unit = unit]
  OBVIOUS
<1>3. e = PlainDb(d)
  BY <1>1, <1>2 DEF PlainDb
<1>4. /\ DOMAIN e = DOMAIN d /\ e.last = d.last /\ e.meas = d.meas
      /\ e.file = file /\ e.mq = mq /\ e.quantity = quantity /\ e.unit = unit
  BY <1>2 DEF DbInv, IsDb, Tables
<1>5. /\ \A r \in d.file : "name" \in DOMAIN r /\ "id" \in DOMAIN r
      /\ \A r \in d.mq : "name" \in DOMAIN r /\ "id" \in DOMAIN r
      /\ \A r \in d.quantity : "name" \in DOMAIN r /\ "id" \in DOMAIN r
      /\ \A r \in d.unit : "name" \in DOMAIN r /\ "id" \in DOMAIN r
  BY DEF DbInv, HasFields
<1>6. /\ \A x \in file : \E r \in d.file : IsUnquoted(x, r)
      /\ Ids(file) = Ids(d.file) /\ \A last : Keys(d.file, last) => Keys(file, last)
  BY <1>1, <1>5, UnquotedFacts
<1>7. /\ \A x \in mq : \E r \in d.mq : IsUnquoted(x, r)
      /\ \A last : Keys(d.mq, last) => Keys(mq, last)
  BY <1>1, <1>5, UnquotedFacts
<1>8. /\ \A x \in quantity : \E r \in d.quantity : IsUnquoted(x, r)
      /\ Ids(quantity) = Ids(d.quantity)
      /\ \A last : Keys(d.quantity, last) => Keys(quantity, last)
  BY <1>1, <1>5, UnquotedFacts
<1>9. /\ \A x \in unit : \E r \in d.unit : IsUnquoted(x, r)
      /\ Ids(unit) = Ids(d.unit) /\ \A last : Keys(d.unit, last) => Keys(unit, last)
  BY <1>1, <1>5, UnquotedFacts
<1>10. IsDb(e)
  BY <1>4 DEF DbInv, IsDb
<1>11. HasFields(e)
  BY <1>4, <1>6, <1>7, <1>8, <1>9 DEF DbInv, HasFields, IsUnquoted
<1>12. KeysInv(e)
  BY <1>4, <1>6, <1>7, <1>8, <1>9 DEF DbInv, KeysInv, Tables
<1>13. ASSUME NEW x \in mq
       PROVE  \E r \in d.mq : /\ x.meas = r.meas /\ x.quantity = r.quantity /\ x.unit = r.unit
                              /\ x.of = r.of /\ x.name.text = r.name.text
  BY <1>7 DEF IsUnquoted, DbInv, HasFields
<1>14. \A x \in quantity : \E r \in d.quantity : x.id = r.id /\ x.unit = r.unit /\ x.name.text = r.name.text
  BY <1>8 DEF IsUnquoted, DbInv, HasFields
<1>15. \A x \in unit : \E r \in d.unit : x.id = r.id /\ x.name.text = r.name.text
  BY <1>9 DEF IsUnquoted, DbInv, HasFields
<1>16. /\ \A id : RefersTo(id, d.file) => RefersTo(id, e.file)
       /\ \A id : RefersTo(id, d.quantity) => RefersTo(id, e.quantity)
       /\ \A id : RefersTo(id, d.unit) => RefersTo(id, e.unit)
  BY <1>4, <1>6, <1>8, <1>9 DEF RefersTo
<1>17. RefsInv(e)
  BY <1>4, <1>13, <1>14, <1>16 DEF DbInv, RefsInv
<1>18. /\ \A id, text : Names(id, d.quantity, text) => Names(id, e.quantity, text)
       /\ \A id, text : Names(id, d.unit, text) => Names(id, e.unit, text)
  BY <1>4, <1>14, <1>15 DEF Names
<1>19. Own(e)
  BY <1>4, <1>13, <1>18 DEF DbInv, Own
<1> QED
  BY <1>3, <1>10, <1>11, <1>12, <1>17, <1>19 DEF DbInv

-----------------------------------------------------------------------------
(***************************************************************************)
(* The inductive invariant.                                                *)
(***************************************************************************)
Rest ==
  /\ pc \in {"idle", "update"} /\ told \in {"none", "stored", "failed", "lost"}
  /\ cycles \in 0 .. MaxCycles /\ left \in 0 .. MaxTrouble

Inv == DiskInv /\ DbInv(db) /\ ListsFit(db, quantity_list, unit_list) /\ Rest

LEMMA EmptyLists == \A d : ListsFit(d, {}, {})
BY DEF ListsFit, Remembered

LEMMA InitInv == Init => Inv
<1> SUFFICES ASSUME Init PROVE Inv
  OBVIOUS
<1>1. DiskInv /\ Rest
  BY MeasAssumption DEF Init, DiskInv, Rest
<1>2. PICK files : db = PlainDb(Import(NewDb, {}, {}, files, 0).db)
  BY DEF Init
<1>3. DbInv(Import(NewDb, {}, {}, files, 0).db)
  BY <1>1, NewDbInv, ImportFacts
<1>4. DbInv(db)
  BY <1>2, <1>3, PlainDbInv
<1> QED
  BY <1>1, <1>4, EmptyLists DEF Init, Inv

LEMMA OtherProgramInv ==
  ASSUME Inv, OtherProgram
  PROVE  DbInv(db') /\ ListsFit(db', quantity_list, unit_list)
<1>1. DbInv(db) /\ ListsFit(db, quantity_list, unit_list)
  BY DEF Inv
<1>2. ASSUME NEW t \in Tables, NEW row, RowFits(db, t, row), db' = WithRow(db, t, row)
      PROVE  DbInv(db') /\ ListsFit(db', quantity_list, unit_list)
  <2>1. DbInv(db')
    BY <1>1, <1>2, WithRowInv
  <2>2. "quantity" \in Tables /\ "unit" \in Tables
    BY DEF Tables
  <2>3. /\ Remembered(quantity_list, db["quantity"], db.last["quantity"])
        /\ Remembered(unit_list, db["unit"], db.last["unit"])
    BY <1>1 DEF ListsFit
  <2>4. /\ Remembered(quantity_list, db'["quantity"], db'.last["quantity"])
        /\ Remembered(unit_list, db'["unit"], db'.last["unit"])
    BY <1>1, <1>2, <2>2, <2>3, WithRowRemembered
  <2> QED
    BY <2>1, <2>4 DEF ListsFit
<1>3. ASSUME Lessened(db, db')
      PROVE  DbInv(db') /\ ListsFit(db', quantity_list, unit_list)
  BY <1>1, <1>3 DEF Lessened, ListsFit
<1>4. CASE \E n \in Others :
             db' = WithRow(db, "unit", [id |-> db.last["unit"] + 1, name |-> Plain(n)])
  <2>1. PICK n \in Others :
               db' = WithRow(db, "unit", [id |-> db.last["unit"] + 1, name |-> Plain(n)])
    BY <1>4
  <2>2. PICK row : row = [id |-> db.last["unit"] + 1, name |-> Plain(n)]
    OBVIOUS
  <2>3. RowFits(db, "unit", row) /\ "unit" \in Tables
    BY <2>2 DEF RowFits, Tables
  <2> QED
    BY <1>2, <2>1, <2>2, <2>3
<1>5. CASE \E n \in Others :
             db' = WithRow(db, "quantity",
                           [id |-> db.last["quantity"] + 1, name |-> Plain(n), unit |-> 0])
  <2>1. PICK n \in Others :
               db' = WithRow(db, "quantity",
                             [id |-> db.last["quantity"] + 1, name |-> Plain(n), unit |-> 0])
    BY <1>5
  <2>2. PICK row : row = [id |-> db.last["quantity"] + 1, name |-> Plain(n), unit |-> 0]
    OBVIOUS
  <2>3. RowFits(db, "quantity", row) /\ "quantity" \in Tables
    BY <2>2 DEF RowFits, RefersTo, Tables
  <2> QED
    BY <1>2, <2>1, <2>2, <2>3
<1>6. CASE \E r \in db.quantity : db' = WithoutQuantities(db, {r})
  BY <1>1, <1>3, <1>6, WithoutQuantitiesInv
<1>7. CASE \E r \in db.unit : db' = WithoutUnits(db, {r})
  BY <1>1, <1>3, <1>7, WithoutUnitsInv
<1>8. CASE \E r \in db.file : db' = WithoutFiles(db, {r})
  BY <1>1, <1>3, <1>8, WithoutFilesInv
<1> QED
  BY <1>4, <1>5, <1>6, <1>7, <1>8 DEF OtherProgram

LEMMA UpdateMeasFileInv ==
  ASSUME Inv, UpdateMeasFile
  PROVE  DbInv(db') /\ quantity_list' = {} /\ unit_list' = {} /\ Rest'
<1> DEFINE Scope(files, n) == Import(db, quantity_list, unit_list, files, n)
           End(r) == /\ EndCycle(IF r.ok THEN "stored" ELSE "failed")
                     /\ db' = IF r.ok THEN r.db ELSE db
<1>1. DbInv(db) /\ \A files, n : DbInv(Scope(files, n).db)
  BY ImportFacts DEF Inv
<1>2. PICK files \in SUBSET ToSet(Files) : \E whole \in {Scope(files, 0)} :
        \/ End(whole) /\ UNCHANGED left
        \/ whole.ok /\ Fails("commit") /\ EndCycle("lost") /\ UNCHANGED db
        \/ Fails("statement") /\ EndCycle("failed") /\ UNCHANGED db
        \/ Fails("statement") /\ \E r \in {Scope(files, n) : n \in 1 .. whole.count} : End(r)
  BY DEF UpdateMeasFile
<1> HIDE DEF Scope
<1>3. \E answer \in {"stored", "failed", "lost"} : EndCycle(answer)
  BY <1>2
<1>4. DbInv(db')
  <2>1. ASSUME NEW n, End(Scope(files, n)) PROVE DbInv(db')
    BY <1>1, <2>1
  <2> HIDE DEF End
  <2>2. CASE End(Scope(files, 0))
    BY <2>1, <2>2
  <2>3. CASE UNCHANGED db
    BY <1>1, <2>3
  <2>4. CASE \E n : End(Scope(files, n))
    BY <2>1, <2>4
  <2> QED
    BY <1>2, <2>2, <2>3, <2>4
<1>5. UNCHANGED left \/ Trouble
  BY <1>2 DEF Fails
<1>6. left' \in 0 .. MaxTrouble
  BY <1>5, MeasAssumption DEF Trouble, Inv, Rest
<1>7. cycles' \in 0 .. MaxCycles
  BY DEF UpdateMeasFile, Inv, Rest
<1> QED
  BY <1>3, <1>4, <1>6, <1>7 DEF EndCycle, Rest

LEMMA FetchedLists == ASSUME NEW d, DbInv(d) PROVE ListsFit(d, d.quantity, d.unit)
<1>1. Keys(d.quantity, d.last["quantity"]) /\ Keys(d.unit, d.last["unit"])
  BY DEF DbInv, KeysInv, Tables
<1> QED
  BY <1>1 DEF ListsFit, Remembered, Keys, Names

LEMMA NextInv == Inv /\ [Next]_vars => Inv'
<1> SUFFICES ASSUME Inv, [Next]_vars PROVE Inv'
  OBVIOUS
<1>1. CASE WriteFile
  <2>1. PICK f \in ToSet(Files), c \in Contents \cup {NoMdf} : disk' = [disk EXCEPT ![f] = c]
    BY <1>1 DEF WriteFile
  <2>2. DiskInv'
    BY <2>1 DEF Inv, DiskInv
  <2>3. Rest'
    BY <1>1, MeasAssumption DEF WriteFile, Trouble, Inv, Rest
  <2> QED
    BY <1>1, <2>2, <2>3 DEF WriteFile, lists, Inv
<1>2. CASE OtherProgram
  <2>1. UNCHANGED <<disk, lists, pc, updated, told, cycles>> /\ Trouble
    BY <1>2 DEF OtherProgram
  <2>2. DiskInv' /\ Rest'
    BY <2>1, MeasAssumption DEF Trouble, Inv, Rest, DiskInv
  <2> QED
    BY <1>2, <2>1, <2>2, OtherProgramInv DEF lists, Inv
<1>3. CASE FetchFromDb
  <2>1. Rest' /\ DiskInv'
    BY <1>3, MeasAssumption DEF FetchFromDb, Inv, Rest, DiskInv
  <2> QED
    BY <1>3, <2>1, FetchedLists DEF FetchFromDb, Inv
<1>4. CASE UpdateMeasFile
  <2>1. DiskInv'
    BY <1>4 DEF UpdateMeasFile, Inv, DiskInv
  <2> QED
    BY <1>4, <2>1, UpdateMeasFileInv, EmptyLists DEF Inv
<1>5. CASE Crash
  <2>1. Rest' /\ DiskInv'
    BY <1>5, MeasAssumption DEF Crash, EndCycle, Fails, Trouble, Inv, Rest, DiskInv
  <2> QED
    BY <1>5, <2>1, EmptyLists DEF Crash, EndCycle, Inv
<1>6. CASE UNCHANGED vars
  BY <1>6 DEF vars, lists, Inv, Rest, DiskInv
<1> QED
  BY <1>1, <1>2, <1>3, <1>4, <1>5, <1>6 DEF Next

LEMMA InvariantHolds == Spec => []Inv
BY InitInv, NextInv, PTL DEF Spec

\* The tables keep their keys and references in every state: no id is given
\* to two rows, and no reference leads to a row that is not there.
THEOREM TypeCorrect == Spec => []TypeOK
<1>1. Inv => TypeOK
  <2> SUFFICES ASSUME Inv PROVE TypeOK
    OBVIOUS
  <2>1. IsDb(db) /\ KeysInv(db) /\ RefsInv(db) /\ Rest
    BY DEF Inv, DbInv
  <2>2. ASSUME NEW t \in Tables
        PROVE  /\ Ids(db[t]) \subseteq 1 .. db.last[t]
               /\ \A r, q \in db[t] : r.id = q.id => r = q
    <3>1. Keys(db[t], db.last[t]) /\ db.last[t] \in Nat
      BY <2>1 DEF KeysInv, IsDb
    <3> QED
      BY <3>1 DEF Keys, Drawn, Ids
  <2> QED
    BY <2>1, <2>2 DEF TypeOK, RefsInv, Rest
<1> QED
  BY <1>1, InvariantHolds, PTL

\* A measurement quantity refers to the quantity and the unit of its own
\* channel or to none, for any files, other programs and faults.
THEOREM EachRefersToItsOwn == Spec => []RefersToItsOwn
<1>1. Inv => RefersToItsOwn
  BY DEF Inv, DbInv, Own, Names, RefersToItsOwn
<1> QED
  BY <1>1, InvariantHolds, PTL

-----------------------------------------------------------------------------
(***************************************************************************)
(* An import that says so is complete.                                     *)
(***************************************************************************)
Channel == [name : STRING, unit : STRING, samples : Nat]

(***************************************************************************)
(* No measurement of a file has its number twice, and no MQ of a           *)
(* measurement its name, with the quotes or without.  Only the second half *)
(* is kept by UNIQUE, and only for names that are quoted alike.            *)
(***************************************************************************)
OnceMeas(rows) == \A m, n \in rows : m.file # 0 /\ m.file = n.file /\ m.nr = n.nr => m = n

OnceMq(rows) ==
  /\ \A q \in rows : q.name \in {Plain(q.name.text), Bound(q.name.text)} /\ q.samples \in Nat
  /\ \A q, p \in rows : q.meas = p.meas /\ q.name.text = p.name.text => q = p

Once(d) == OnceMeas(d.meas) /\ OnceMq(d.mq)

-----------------------------------------------------------------------------
(***************************************************************************)
(* What leaves the files, the measurements and the MQs alone.              *)
(***************************************************************************)
SameRows(s, r) ==
  /\ r.db.file = s.db.file /\ r.db.meas = s.db.meas /\ r.db.mq = s.db.mq
  /\ r.mqs = s.mqs /\ r.ok = s.ok

LEMMA WithIdSame ==
  ASSUME NEW s, IsScope(s), NEW id
  PROVE  SameRows(s, [s EXCEPT !.id = id])
<1>1. PICK r : r = [s EXCEPT !.id = id]
  OBVIOUS
<1>2. r.db = s.db /\ r.mqs = s.mqs /\ r.ok = s.ok
  BY <1>1 DEF IsScope
<1> QED
  BY <1>1, <1>2 DEF SameRows

LEMMA NoIdSame ==
  ASSUME NEW s, IsScope(s)
  PROVE  SameRows(s, [Counted(s) EXCEPT !.id = 0])
<1>1. PICK c : c = Counted(s)
  OBVIOUS
<1>2. IsScope(c) /\ SameRows(s, c)
  BY <1>1, CountedFacts DEF SameRows
<1>3. SameRows(c, [c EXCEPT !.id = 0])
  BY <1>2, WithIdSame
<1> QED
  BY <1>1, <1>2, <1>3 DEF SameRows

LEMMA FailedSame ==
  ASSUME NEW s, IsScope(s)
  PROVE  LET r == [Counted(s) EXCEPT !.ok = FALSE]
         IN  r.db = s.db /\ r.mqs = s.mqs /\ r.ok = FALSE
<1>1. PICK c : c = Counted(s)
  OBVIOUS
<1>2. IsScope(c) /\ c.db = s.db /\ c.mqs = s.mqs
  BY <1>1, CountedFacts
<1>3. PICK r : r = [c EXCEPT !.ok = FALSE]
  OBVIOUS
<1>4. r.db = c.db /\ r.mqs = c.mqs /\ r.ok = FALSE
  BY <1>2, <1>3 DEF IsScope
<1> QED
  BY <1>1, <1>2, <1>3, <1>4

LEMMA InsertAlike ==
  ASSUME NEW s, IsScope(s), IsDb(s.db), NEW t \in Tables, NEW row
  PROVE  LET i == Insert(s, t, row)
         IN  /\ IsScope(i) /\ i.mqs = s.mqs /\ i.ok = s.ok
             /\ i.db[t] = s.db[t] \cup {row}
             /\ \A u \in Tables : u # t => i.db[u] = s.db[u]
<1>1. PICK c, d : c = Counted(s) /\ d = WithRow(s.db, t, row)
  OBVIOUS
<1>2. IsScope(c) /\ c.db = s.db /\ c.mqs = s.mqs /\ c.ok = s.ok
  BY <1>1, CountedFacts
<1>3. PICK i : i = Insert(s, t, row)
  OBVIOUS
<1>4. i = [c EXCEPT !.db = d]
  BY <1>1, <1>2, <1>3 DEF Insert
<1>5. IsScope(i) /\ i.db = d /\ i.mqs = c.mqs /\ i.ok = c.ok
  BY <1>2, <1>4 DEF IsScope
<1>6. d[t] = s.db[t] \cup {row} /\ \A u \in Tables : u # t => d[u] = s.db[u]
  BY <1>1, WithRowFacts
<1> QED
  BY <1>2, <1>3, <1>5, <1>6

LEMMA UnitSame ==
  ASSUME NEW s, ScopeInv(s), NEW unit
  PROVE  SameRows(s, UpdateUnit(s, unit))
<1>1. IsScope(s) /\ IsDb(s.db)
  BY DEF ScopeInv, DbInv
<1>2. CASE unit = "" \/ Found(s.units, unit) # 0
  BY <1>1, <1>2, WithIdSame DEF UpdateUnit
<1>3. CASE /\ ~(unit = "" \/ Found(s.units, unit) # 0)
           /\ Breaks(s) \/ \E q \in s.db.unit : q.name = Bound(unit)
  BY <1>1, <1>3, NoIdSame DEF UpdateUnit
<1>4. CASE /\ ~(unit = "" \/ Found(s.units, unit) # 0)
           /\ ~(Breaks(s) \/ \E q \in s.db.unit : q.name = Bound(unit))
  <2>1. PICK row : row = [id |-> NewId(s, "unit"), name |-> Bound(unit)]
    OBVIOUS
  <2>2. PICK i : i = Insert(s, "unit", row)
    OBVIOUS
  <2>3. PICK r : r = UpdateUnit(s, unit)
    OBVIOUS
  <2>4. r = [i EXCEPT !.id = NewId(s, "unit"),
               !.units = @ \cup {[name |-> Plain(unit), id |-> NewId(s, "unit")]}]
    BY <1>4, <2>1, <2>2, <2>3 DEF UpdateUnit
  <2>5. /\ IsScope(i) /\ i.mqs = s.mqs /\ i.ok = s.ok
        /\ \A u \in Tables : u # "unit" => i.db[u] = s.db[u]
    BY <1>1, <2>2, InsertAlike DEF Tables
  <2>6. r.db = i.db /\ r.mqs = i.mqs /\ r.ok = i.ok
    BY <2>4, <2>5 DEF IsScope
  <2> QED
    BY <2>3, <2>5, <2>6 DEF SameRows, Tables
<1> QED
  BY <1>2, <1>3, <1>4

LEMMA InsertQuantitySame ==
  ASSUME NEW u, ScopeInv(u), NEW name
  PROVE  SameRows(u, InsertQuantity(u, name))
<1>1. IsScope(u) /\ IsDb(u.db)
  BY DEF ScopeInv, DbInv
<1>2. CASE Breaks(u) \/ ~RefersTo(u.id, u.db.unit)
  BY <1>1, <1>2, NoIdSame DEF InsertQuantity
<1>3. CASE ~(Breaks(u) \/ ~RefersTo(u.id, u.db.unit))
  <2>1. PICK row : row = [id |-> NewId(u, "quantity"), name |-> Bound(name), unit |-> u.id]
    OBVIOUS
  <2>2. PICK i : i = Insert(u, "quantity", row)
    OBVIOUS
  <2>3. PICK r : r = InsertQuantity(u, name)
    OBVIOUS
  <2>4. r = [i EXCEPT !.id = NewId(u, "quantity"),
               !.quantities = @ \cup {[name |-> Plain(name), id |-> NewId(u, "quantity")]}]
    BY <1>3, <2>1, <2>2, <2>3 DEF InsertQuantity
  <2>5. /\ IsScope(i) /\ i.mqs = u.mqs /\ i.ok = u.ok
        /\ \A t \in Tables : t # "quantity" => i.db[t] = u.db[t]
    BY <1>1, <2>2, InsertAlike DEF Tables
  <2>6. r.db = i.db /\ r.mqs = i.mqs /\ r.ok = i.ok
    BY <2>4, <2>5 DEF IsScope
  <2> QED
    BY <2>3, <2>5, <2>6 DEF SameRows, Tables
<1> QED
  BY <1>2, <1>3

LEMMA QuantitySame ==
  ASSUME NEW s, ScopeInv(s), NEW channel
  PROVE  SameRows(s, UpdateQuantity(s, channel))
<1>1. CASE Found(s.quantities, channel.name) # 0
  BY <1>1, WithIdSame DEF UpdateQuantity, ScopeInv
<1>2. CASE ~(Found(s.quantities, channel.name) # 0)
  <2>1. PICK u : u = UpdateUnit(s, channel.unit)
    OBVIOUS
  <2>2. ScopeInv(u) /\ SameRows(s, u)
    BY <2>1, UnitFacts, UnitSame
  <2>3. UpdateQuantity(s, channel) = InsertQuantity(u, channel.name)
    BY <1>2, <2>1 DEF UpdateQuantity
  <2>4. SameRows(u, InsertQuantity(u, channel.name))
    BY <2>2, InsertQuantitySame
  <2> QED
    BY <2>2, <2>3, <2>4 DEF SameRows
<1> QED
  BY <1>1, <1>2

-----------------------------------------------------------------------------
(***************************************************************************)
(* UpdateMq.  Its list has an entry for every MQ that it could find again, *)
(* and an MQ never has fewer samples than its entry.                       *)
(***************************************************************************)
Listed(mqs, rows, meas) ==
  /\ \A e \in mqs : \E q \in rows : /\ q.id = e.id /\ q.meas = meas /\ q.name.text = e.name.text
                                    /\ e.samples \in Nat /\ e.samples <= q.samples
  /\ \A e, f \in mqs : e.id = f.id => e = f
  /\ \A q \in rows : q.meas = meas /\ q.name = Plain(q.name.text) =>
                       \E e \in mqs : e.name = Plain(q.name.text)

MqInv(s, meas) ==
  /\ ScopeInv(s) /\ OnceMq(s.db.mq) /\ Listed(s.mqs, s.db.mq, meas)
  /\ meas \in Ids(s.db.meas)

\* From s to r, only MQs of the measurement have changed.
OnlyMeas(s, r, meas) ==
  /\ r.db.file = s.db.file /\ r.db.meas = s.db.meas /\ s.mqs \subseteq r.mqs
  /\ \A q : q.meas # meas => (q \in s.db.mq <=> q \in r.db.mq)
  /\ r.ok => s.ok

Named(rows, meas, name) == {q \in rows : q.meas = meas /\ q.name.text = name}

Enough(rows, meas, channel) ==
  \E q \in rows : Named(rows, meas, channel.name) = {q} /\ q.samples >= channel.samples

ChannelDone(s, r, meas, channel) ==
  /\ \A name : name # channel.name => Named(r.db.mq, meas, name) = Named(s.db.mq, meas, name)
  /\ r.ok => Enough(r.db.mq, meas, channel)

\* What a channel makes of the list and of the MQs.
Does(s, r, meas, channel) ==
  /\ OnceMq(r.db.mq) /\ Listed(r.mqs, r.db.mq, meas)
  /\ OnlyMeas(s, r, meas) /\ ChannelDone(s, r, meas, channel)

LEMMA FoundEntry ==
  ASSUME NEW list, \A e \in list : e.id \in Nat \ {0}, NEW name
  PROVE  IF Found(list, name) = 0 THEN \A e \in list : e.name # Plain(name)
         ELSE \E e \in list : e.id = Found(list, name) /\ e.name = Plain(name)
<1> DEFINE same == {r \in list : r.name = Plain(name)}
<1>1. CASE same = {}
  BY <1>1 DEF Found
<1>2. CASE same # {}
  <2>1. Ids(same) \in SUBSET Nat /\ Ids(same) # {}
    BY <1>2 DEF Ids
  <2>2. Min(Ids(same)) \in Ids(same)
    BY <2>1, MinIsElement
  <2>3. PICK e \in same : e.id = Min(Ids(same))
    BY <2>2 DEF Ids
  <2>4. Found(list, name) = e.id /\ e \in list /\ e.name = Plain(name)
    BY <1>2, <2>3 DEF Found
  <2> QED
    BY <2>4
<1> QED
  BY <1>1, <1>2

LEMMA FailedDoes ==
  ASSUME NEW s, NEW meas, MqInv(s, meas), NEW channel, NEW r,
         r.db = s.db, r.mqs = s.mqs, r.ok = FALSE
  PROVE  Does(s, r, meas, channel)
BY DEF Does, MqInv, OnlyMeas, ChannelDone

\* A new MQ: neither the table nor the list has had one of the name.
LEMMA RowDoes ==
  ASSUME NEW s, NEW meas, MqInv(s, meas), NEW channel \in Channel, NEW row,
         row.id = NewId(s, "mq"), row.meas = meas, row.name = Bound(channel.name),
         row.of.name = channel.name, row.samples = channel.samples,
         DOMAIN row = {"id", "name", "meas", "quantity", "unit", "samples", "of"},
         \A e \in s.mqs : e.name # Plain(channel.name)
  PROVE  Does(s, InsertMqRow(s, row), meas, channel)
<1> DEFINE Bad == \/ Breaks(s)
                  \/ ~RefersTo(row.quantity, s.db.quantity) \/ ~RefersTo(row.unit, s.db.unit)
                  \/ \E r \in s.db.mq : r.meas = row.meas /\ r.name = row.name
           name == channel.name
<1>1. IsScope(s) /\ IsDb(s.db)
  BY DEF MqInv, ScopeInv, DbInv
<1>2. CASE Bad
  BY <1>1, <1>2, FailedSame, FailedDoes DEF InsertMqRow
<1>3. CASE ~Bad
  <2>1. PICK i : i = Insert(s, "mq", row)
    OBVIOUS
  <2>2. PICK r : r = InsertMqRow(s, row)
    OBVIOUS
  <2>3. PICK e : e = [row EXCEPT !.name = Plain(name)]
    OBVIOUS
  <2>4. r = [i EXCEPT !.mqs = @ \cup {e}]
    BY <1>3, <2>1, <2>2, <2>3 DEF InsertMqRow
  <2>5. /\ IsScope(i) /\ i.mqs = s.mqs /\ i.ok = s.ok
        /\ i.db["mq"] = s.db["mq"] \cup {row}
        /\ \A u \in Tables : u # "mq" => i.db[u] = s.db[u]
    BY <1>1, <2>1, InsertAlike DEF Tables
  <2>6. r.db = i.db /\ r.ok = i.ok /\ r.mqs = s.mqs \cup {e}
    BY <2>4, <2>5 DEF IsScope
  <2>7. e.id = row.id /\ e.name = Plain(name) /\ e.samples = row.samples
    BY <2>3
  <2>8. /\ r.db.mq = s.db.mq \cup {row} /\ r.db.file = s.db.file /\ r.db.meas = s.db.meas
        /\ r.ok = s.ok
    BY <2>5, <2>6 DEF Tables
  <2>9. \A q \in s.db.mq : q.id # row.id
    BY DEF MqInv, ScopeInv, DbInv, IsDb, KeysInv, Keys, Drawn, NewId, Tables
  <2>10. ASSUME NEW q \in s.db.mq, q.meas = meas
         PROVE  q.name.text # name
    <3>1. q.name = Plain(q.name.text) \/ q.name = Bound(q.name.text)
      BY DEF MqInv, OnceMq
    <3>2. q.name # Bound(name)
      BY <1>3, <2>10
    <3>3. q.name # Plain(q.name.text) \/ q.name.text # name
      BY <2>10 DEF MqInv, Listed
    <3> QED
      BY <3>1, <3>2, <3>3
  <2>11. row.name.text = name /\ row.name # Plain(name) /\ channel.samples \in Nat
    BY DEF Bound, Plain, Channel
  <2>12. OnceMq(r.db.mq)
    BY <2>8, <2>10, <2>11 DEF MqInv, OnceMq
  <2>13. Listed(r.mqs, r.db.mq, meas)
    <3>1. e.name.text = name
      BY <2>7 DEF Plain
    <3>2. ASSUME NEW x \in r.mqs
          PROVE  \E q \in r.db.mq : /\ q.id = x.id /\ q.meas = meas /\ q.name.text = x.name.text
                                    /\ x.samples \in Nat /\ x.samples <= q.samples
      <4>1. CASE x = e
        BY <2>7, <2>8, <2>11, <3>1, <4>1
      <4>2. CASE x \in s.mqs
        BY <2>8, <4>2 DEF MqInv, Listed
      <4> QED
        BY <2>6, <4>1, <4>2
    <3>3. \A x \in s.mqs : x.id # e.id
      BY <2>7, <2>9 DEF MqInv, Listed
    <3>4. \A x, f \in r.mqs : x.id = f.id => x = f
      BY <2>6, <3>3 DEF MqInv, Listed
    <3>5. ASSUME NEW q \in r.db.mq, q.meas = meas, q.name = Plain(q.name.text)
          PROVE  \E x \in r.mqs : x.name = Plain(q.name.text)
      <4>1. q \in s.db.mq
        BY <2>8, <2>11, <3>5
      <4> QED
        BY <2>6, <3>5, <4>1 DEF MqInv, Listed
    <3> QED
      BY <3>2, <3>4, <3>5 DEF Listed
  <2>14. OnlyMeas(s, r, meas)
    BY <2>6, <2>8 DEF OnlyMeas
  <2>15. ChannelDone(s, r, meas, channel)
    <3>1. \A x : x # name => Named(r.db.mq, meas, x) = Named(s.db.mq, meas, x)
      BY <2>8, <2>11 DEF Named
    <3>2. Named(r.db.mq, meas, name) = {row}
      BY <2>8, <2>10, <2>11 DEF Named
    <3>3. row.samples >= channel.samples
      BY <2>11
    <3> QED
      BY <2>8, <3>1, <3>2, <3>3 DEF ChannelDone, Enough
  <2> QED
    BY <2>2, <2>12, <2>13, <2>14, <2>15 DEF Does
<1> QED
  BY <1>2, <1>3

LEMMA InsertMqDoes ==
  ASSUME NEW s, NEW meas, MqInv(s, meas), NEW channel \in Channel,
         \A e \in s.mqs : e.name # Plain(channel.name)
  PROVE  Does(s, InsertMq(s, channel, meas), meas, channel)
<1>1. PICK q : q = UpdateQuantity(s, channel)
  OBVIOUS
<1>2. ScopeInv(q) /\ SameRows(s, q)
  BY <1>1, QuantityFacts, QuantitySame DEF MqInv
<1>3. PICK u : u = UpdateUnit(q, channel.unit)
  OBVIOUS
<1>4. ScopeInv(u) /\ SameRows(q, u)
  BY <1>2, <1>3, UnitFacts, UnitSame
<1>5. PICK row : row = [id |-> NewId(u, "mq"), name |-> Bound(channel.name), meas |-> meas,
                        quantity |-> q.id, unit |-> u.id, samples |-> channel.samples,
                        of |-> [name |-> channel.name, unit |-> channel.unit]]
  OBVIOUS
<1>6. InsertMq(s, channel, meas) = InsertMqRow(u, row)
  BY <1>1, <1>3, <1>5 DEF InsertMq
<1>7. /\ u.db.file = s.db.file /\ u.db.meas = s.db.meas /\ u.db.mq = s.db.mq
      /\ u.mqs = s.mqs /\ u.ok = s.ok
  BY <1>2, <1>4 DEF SameRows
<1>8. MqInv(u, meas)
  BY <1>4, <1>7 DEF MqInv
<1>9. /\ row.id = NewId(u, "mq") /\ row.meas = meas /\ row.name = Bound(channel.name)
      /\ row.of.name = channel.name /\ row.samples = channel.samples
      /\ DOMAIN row = {"id", "name", "meas", "quantity", "unit", "samples", "of"}
  BY <1>5
<1>10. Does(u, InsertMqRow(u, row), meas, channel)
  BY <1>7, <1>8, <1>9, RowDoes
<1> QED
  BY <1>6, <1>7, <1>10 DEF Does, OnlyMeas, ChannelDone

\* More samples for an MQ of the list.
LEMMA MoreSamplesFacts ==
  ASSUME NEW rows, \A r \in rows : {"id", "name", "meas", "samples"} \subseteq DOMAIN r,
         NEW id, NEW channel
  PROVE  LET new == MoreSamples(rows, id, channel)
         IN  /\ \A x \in new : \E r \in rows :
                  /\ x.id = r.id /\ x.name = r.name /\ x.meas = r.meas
                  /\ IF r.id = id THEN x.samples = channel.samples ELSE x = r
             /\ \A r \in rows : \E x \in new :
                  /\ x.id = r.id /\ x.name = r.name /\ x.meas = r.meas
                  /\ IF r.id = id THEN x.samples = channel.samples ELSE x = r
<1> DEFINE Put(r) == IF r.id = id THEN [r EXCEPT !.samples = channel.samples] ELSE r
<1>1. PICK new : new = MoreSamples(rows, id, channel)
  OBVIOUS
<1>2. new = {Put(r) : r \in rows}
  BY <1>1 DEF MoreSamples
<1>3. ASSUME NEW r \in rows
      PROVE  /\ Put(r).id = r.id /\ Put(r).name = r.name /\ Put(r).meas = r.meas
             /\ IF r.id = id THEN Put(r).samples = channel.samples ELSE Put(r) = r
  OBVIOUS
<1> HIDE DEF Put
<1>4. /\ \A x \in new : \E r \in rows : x = Put(r)
      /\ \A r \in rows : Put(r) \in new
  BY <1>2
<1> QED
  BY <1>1, <1>3, <1>4

LEMMA SamplesDoes ==
  ASSUME NEW s, NEW meas, MqInv(s, meas), s.ok, NEW channel \in Channel,
         NEW e \in s.mqs, e.name = Plain(channel.name)
  PROVE  Does(s, UpdateSamples(s, channel, e), meas, channel)
<1> DEFINE name == channel.name
<1>0. channel.samples \in Nat /\ e.name.text = name
  BY DEF Channel, Plain
<1>1. IsScope(s) /\ IsDb(s.db) /\ HasFields(s.db)
  BY DEF MqInv, ScopeInv, DbInv
<1>2. PICK q \in s.db.mq : /\ q.id = e.id /\ q.meas = meas /\ q.name.text = name
                           /\ e.samples \in Nat /\ e.samples <= q.samples
  BY <1>0 DEF MqInv, Listed
<1>3. \A x, y \in s.db.mq : x.meas = y.meas /\ x.name.text = y.name.text => x = y
  BY DEF MqInv, OnceMq
<1>4. \A x \in s.db.mq : x.samples \in Nat
  BY DEF MqInv, OnceMq
<1>5. CASE ~Grown(channel, e)
  <2>1. UpdateSamples(s, channel, e) = s
    BY <1>5 DEF UpdateSamples
  <2>2. Named(s.db.mq, meas, name) = {q}
    BY <1>2, <1>3 DEF Named
  <2>3. q.samples >= channel.samples
    BY <1>0, <1>2, <1>4, <1>5 DEF Grown
  <2> QED
    BY <2>1, <2>2, <2>3 DEF Does, MqInv, OnlyMeas, ChannelDone, Enough
<1>6. CASE Grown(channel, e) /\ Breaks(s)
  BY <1>1, <1>6, FailedSame, FailedDoes DEF UpdateSamples
<1>7. CASE Grown(channel, e) /\ ~Breaks(s)
  <2>1. PICK c : c = Counted(s)
    OBVIOUS
  <2>2. IsScope(c) /\ c.db = s.db /\ c.mqs = s.mqs /\ c.ok = s.ok
    BY <1>1, <2>1, CountedFacts
  <2>3. PICK mq : mq = MoreSamples(s.db.mq, e.id, channel)
    OBVIOUS
  <2>4. PICK d : d = [s.db EXCEPT !.mq = mq]
    OBVIOUS
  <2>5. PICK r : r = UpdateSamples(s, channel, e)
    OBVIOUS
  <2>6. r = [c EXCEPT !.db = d]
    BY <1>7, <2>1, <2>2, <2>3, <2>4, <2>5 DEF UpdateSamples, MoreSamples
  <2>7. r.db = d /\ r.mqs = s.mqs /\ r.ok = s.ok
    BY <2>2, <2>6 DEF IsScope
  <2>8. r.db.mq = mq /\ r.db.file = s.db.file /\ r.db.meas = s.db.meas
    BY <1>1, <2>4, <2>7 DEF IsDb, Tables
  <2>9. \A x \in s.db.mq : {"id", "name", "meas", "samples"} \subseteq DOMAIN x
    BY <1>1 DEF HasFields
  <2>10. /\ \A x \in mq : \E y \in s.db.mq :
              /\ x.id = y.id /\ x.name = y.name /\ x.meas = y.meas
              /\ IF y.id = e.id THEN x.samples = channel.samples ELSE x = y
         /\ \A y \in s.db.mq : \E x \in mq :
              /\ x.id = y.id /\ x.name = y.name /\ x.meas = y.meas
              /\ IF y.id = e.id THEN x.samples = channel.samples ELSE x = y
    BY <2>3, <2>9, MoreSamplesFacts
  <2>11. \A x, y \in s.db.mq : x.id = y.id => x = y
    BY DEF MqInv, ScopeInv, DbInv, KeysInv, Keys, Tables
  <2>12. ASSUME NEW x \in mq, NEW y \in mq, x.meas = y.meas, x.name.text = y.name.text
         PROVE  x = y
    <3>1. PICK v \in s.db.mq : /\ x.id = v.id /\ x.name = v.name /\ x.meas = v.meas
                               /\ IF v.id = e.id THEN x.samples = channel.samples ELSE x = v
      BY <2>10
    <3>2. PICK w \in s.db.mq : /\ y.id = w.id /\ y.name = w.name /\ y.meas = w.meas
                               /\ IF w.id = e.id THEN y.samples = channel.samples ELSE y = w
      BY <2>10
    <3>3. v = w
      <4>1. v.meas = w.meas /\ v.name.text = w.name.text
        BY <2>12, <3>1, <3>2
      <4> QED
        BY <1>3, <4>1
    <3>4. CASE v.id # e.id
      BY <3>1, <3>2, <3>3, <3>4
    <3>5. CASE v.id = e.id
      <4>1. \A z \in mq : z.id = e.id => z = [q EXCEPT !.samples = channel.samples]
        <5>1. \A z \in mq : \E a \in s.db.mq :
                z = IF a.id = e.id THEN [a EXCEPT !.samples = channel.samples] ELSE a
          BY <2>3 DEF MoreSamples
        <5>2. ASSUME NEW z \in mq, z.id = e.id
              PROVE  z = [q EXCEPT !.samples = channel.samples]
          <6>1. PICK a \in s.db.mq :
                  z = IF a.id = e.id THEN [a EXCEPT !.samples = channel.samples] ELSE a
            BY <5>1
          <6>2. a.id = e.id
            BY <5>2, <6>1
          <6>3. a = q
            BY <1>2, <2>11, <6>2
          <6> QED
            BY <6>1, <6>2, <6>3
        <5> QED
          BY <5>2
      <4> QED
        BY <3>1, <3>2, <3>3, <3>5, <4>1
    <3> QED
      BY <3>4, <3>5
  <2>13. OnceMq(r.db.mq)
    <3>1. ASSUME NEW x \in mq
          PROVE  x.name \in {Plain(x.name.text), Bound(x.name.text)} /\ x.samples \in Nat
      BY <1>0, <1>4, <2>10 DEF MqInv, OnceMq
    <3> QED
      BY <2>8, <2>12, <3>1 DEF OnceMq
  <2>14. Listed(r.mqs, r.db.mq, meas)
    <3>1. ASSUME NEW f \in s.mqs
          PROVE  \E x \in mq : /\ x.id = f.id /\ x.meas = meas /\ x.name.text = f.name.text
                               /\ f.samples \in Nat /\ f.samples <= x.samples
      <4>1. PICK y \in s.db.mq : /\ y.id = f.id /\ y.meas = meas /\ y.name.text = f.name.text
                                 /\ f.samples \in Nat /\ f.samples <= y.samples
        BY DEF MqInv, Listed
      <4>2. PICK x \in mq : /\ x.id = y.id /\ x.name = y.name /\ x.meas = y.meas
                            /\ IF y.id = e.id THEN x.samples = channel.samples ELSE x = y
        BY <2>10
      <4>3. f.samples <= x.samples
        <5>1. CASE f.id = e.id
          <6>1. f = e
            BY <5>1 DEF MqInv, Listed
          <6> QED
            BY <1>0, <1>2, <1>7, <4>1, <4>2, <5>1, <6>1 DEF Grown
        <5>2. CASE f.id # e.id
          BY <4>1, <4>2, <5>2
        <5> QED
          BY <5>1, <5>2
      <4> QED
        BY <4>1, <4>2, <4>3
    <3>2. \A f, g \in s.mqs : f.id = g.id => f = g
      BY DEF MqInv, Listed
    <3>3. ASSUME NEW x \in mq, x.meas = meas, x.name = Plain(x.name.text)
          PROVE  \E f \in s.mqs : f.name = Plain(x.name.text)
      <4>1. PICK y \in s.db.mq : x.name = y.name /\ x.meas = y.meas
        BY <2>10
      <4> QED
        BY <3>3, <4>1 DEF MqInv, Listed
    <3> QED
      BY <2>7, <2>8, <3>1, <3>2, <3>3 DEF Listed
  <2>15. ASSUME NEW x, x.id # e.id
         PROVE  x \in s.db.mq <=> x \in mq
    BY <2>10, <2>15
  <2>16. \A x : x \in s.db.mq \/ x \in mq => (x.id = e.id => x.meas = meas /\ x.name.text = name)
    BY <1>2, <2>10, <2>11
  <2>17. OnlyMeas(s, r, meas)
    BY <2>7, <2>8, <2>15, <2>16 DEF OnlyMeas
  <2>18. \A x : x # name => Named(mq, meas, x) = Named(s.db.mq, meas, x)
    BY <2>15, <2>16 DEF Named
  <2>19. PICK p \in mq : p.name = q.name /\ p.meas = q.meas /\ p.samples = channel.samples
    BY <1>2, <2>10
  <2>20. Named(mq, meas, name) = {p}
    BY <1>2, <2>12, <2>19 DEF Named
  <2>21. ChannelDone(s, r, meas, channel)
    BY <1>0, <2>8, <2>18, <2>19, <2>20 DEF ChannelDone, Enough
  <2> QED
    BY <2>5, <2>13, <2>14, <2>17, <2>21 DEF Does
<1> QED
  BY <1>5, <1>6, <1>7

LEMMA ChannelDoes ==
  ASSUME NEW s, NEW meas, MqInv(s, meas), NEW channel \in Channel
  PROVE  LET r == UpdateChannel(s, channel, meas)
         IN  MqInv(r, meas) /\ Does(s, r, meas, channel)
<1> DEFINE id == Found(s.mqs, channel.name)
           r == UpdateChannel(s, channel, meas)
<1>1. \A e \in s.mqs : e.id \in Nat \ {0}
  BY DEF MqInv, Listed, ScopeInv, DbInv, KeysInv, Keys, Drawn, Tables
<1>2. Does(s, r, meas, channel)
  <2>1. CASE ~s.ok
    <3>1. r = s
      BY <2>1 DEF UpdateChannel
    <3> QED
      BY <2>1, <3>1 DEF Does, MqInv, OnlyMeas, ChannelDone
  <2>2. CASE s.ok /\ id = 0
    <3>1. r = InsertMq(s, channel, meas)
      BY <2>2 DEF UpdateChannel
    <3>2. \A e \in s.mqs : e.name # Plain(channel.name)
      BY <1>1, <2>2, FoundEntry
    <3> HIDE DEF r
    <3> QED
      BY <3>1, <3>2, InsertMqDoes
  <2>3. CASE s.ok /\ id # 0
    <3>1. PICK e \in s.mqs : e.id = id /\ e.name = Plain(channel.name)
      BY <1>1, <2>3, FoundEntry
    <3>2. PICK f : f = CHOOSE x \in s.mqs : x.id = id
      OBVIOUS
    <3>3. f \in s.mqs /\ f.id = id
      BY <3>1, <3>2
    <3>4. f = e
      BY <3>1, <3>3 DEF MqInv, Listed
    <3>5. r = UpdateSamples(s, channel, f)
      BY <2>3, <3>2 DEF UpdateChannel
    <3> HIDE DEF r
    <3> QED
      BY <2>3, <3>1, <3>4, <3>5, SamplesDoes
  <2> QED
    BY <2>1, <2>2, <2>3
<1>3. Leads(s, r)
  BY ChannelFacts DEF MqInv
<1> HIDE DEF r
<1>4. MqInv(r, meas)
  BY <1>2, <1>3 DEF MqInv, Leads, Kept, Does, OnlyMeas
<1> QED
  BY <1>2, <1>4 DEF r

\* The last channel of a name.
LEMMA MaxIsGreatest ==
  ASSUME NEW N \in Nat, NEW T \in SUBSET (1 .. N), T # {}
  PROVE  Max(T) \in T /\ \A y \in T : y <= Max(T)
<1> DEFINE U == {N - x : x \in T}
<1>1. U \in SUBSET Nat /\ U # {}
  <2>1. \A x \in T : N - x \in Nat
    OBVIOUS
  <2> QED
    BY <2>1
<1>2. PICK u \in U : \A v \in U : u <= v
  <2> HIDE DEF U
  <2> QED
    BY <1>1, LeastElement
<1>3. PICK x \in T : u = N - x
  BY <1>2
<1>4. ASSUME NEW y \in T
      PROVE  x >= y
  <2>1. N - y \in U /\ x \in 1 .. N /\ y \in 1 .. N
    OBVIOUS
  <2>2. N - x <= N - y
    BY <1>2, <1>3, <2>1
  <2> QED
    BY <2>1, <2>2
<1>5. \E m \in T : \A y \in T : m >= y
  BY <1>4
<1>6. Max(T) \in T /\ \A y \in T : Max(T) >= y
  BY <1>5 DEF Max
<1> QED
  BY <1>6

LEMMA FetchedInv ==
  ASSUME NEW s, ScopeInv(s), OnceMq(s.db.mq), NEW meas, meas \in Ids(s.db.meas)
  PROVE  LET first == Fetched(s, meas)
         IN  /\ MqInv(first, meas) /\ first.db = s.db /\ first.ok = s.ok
             /\ first.mqs = {q \in s.db.mq : q.meas = meas}
<1>1. PICK first : first = Fetched(s, meas)
  OBVIOUS
<1>2. /\ IsScope(first) /\ first.db = s.db /\ first.quantities = s.quantities
      /\ first.units = s.units /\ first.ok = s.ok
      /\ first.mqs = {q \in s.db.mq : q.meas = meas}
  BY <1>1 DEF ScopeInv, IsScope, Fetched
<1>3. ScopeInv(first)
  BY <1>2 DEF ScopeInv
<1>4. \A e, f \in s.db.mq : e.id = f.id => e = f
  BY DEF ScopeInv, DbInv, KeysInv, Keys, Tables
<1>5. Listed(first.mqs, s.db.mq, meas)
  BY <1>2, <1>4 DEF Listed, OnceMq
<1> QED
  BY <1>1, <1>2, <1>3, <1>5 DEF MqInv

\* The channels up to the k-th, when each name is asked for its last one.
DoneUpTo(k, rows, meas, group) ==
  \A i \in 1 .. k :
    (\A j \in (i + 1) .. k : group[j].name # group[i].name) => Enough(rows, meas, group[i])

LEMMA OneChannelMore ==
  ASSUME NEW k \in Nat, NEW s, NEW meas, MqInv(s, meas), NEW group, group[k + 1] \in Channel,
         s.ok => DoneUpTo(k, s.db.mq, meas, group)
  PROVE  LET r == UpdateChannel(s, group[k + 1], meas)
         IN  /\ MqInv(r, meas) /\ OnlyMeas(s, r, meas)
             /\ r.ok => DoneUpTo(k + 1, r.db.mq, meas, group)
<1>1. PICK r : r = UpdateChannel(s, group[k + 1], meas)
  OBVIOUS
<1>2. MqInv(r, meas) /\ OnlyMeas(s, r, meas) /\ ChannelDone(s, r, meas, group[k + 1])
  BY <1>1, ChannelDoes DEF Does
<1>3. ASSUME r.ok, NEW i \in 1 .. (k + 1), \A j \in (i + 1) .. (k + 1) : group[j].name # group[i].name
      PROVE  Enough(r.db.mq, meas, group[i])
  <2>1. CASE i = k + 1
    BY <1>2, <1>3, <2>1 DEF ChannelDone
  <2>2. CASE i # k + 1
    <3>1. i \in 1 .. k /\ k + 1 \in (i + 1) .. (k + 1) /\ \A j \in (i + 1) .. k : j \in (i + 1) .. (k + 1)
      BY <2>2
    <3>2. Enough(s.db.mq, meas, group[i])
      <4>1. s.ok
        BY <1>2, <1>3 DEF OnlyMeas
      <4> QED
        BY <1>3, <3>1, <4>1 DEF DoneUpTo
    <3>3. PICK q : Named(s.db.mq, meas, group[i].name) = {q} /\ q.samples >= group[i].samples
      BY <3>2 DEF Enough
    <3>4. group[i].name # group[k + 1].name
      BY <1>3, <3>1
    <3>5. Named(r.db.mq, meas, group[i].name) = {q}
      BY <1>2, <3>3, <3>4 DEF ChannelDone
    <3>6. q \in r.db.mq
      BY <3>5 DEF Named
    <3> QED
      BY <3>3, <3>5, <3>6 DEF Enough
  <2> QED
    BY <2>1, <2>2
<1>4. r.ok => DoneUpTo(k + 1, r.db.mq, meas, group)
  BY <1>3 DEF DoneUpTo
<1> QED
  BY <1>1, <1>2, <1>4

NamesDone(rows, meas, group) ==
  \A k \in DOMAIN group : \E q \in rows :
    /\ Named(rows, meas, group[k].name) = {q}
    /\ q.samples >= group[Max(ChannelsOf(group, group[k].name))].samples

LEMMA LastOfEach ==
  ASSUME NEW rows, NEW meas, NEW group \in Seq(Channel), DoneUpTo(Len(group), rows, meas, group)
  PROVE  NamesDone(rows, meas, group)
<1> DEFINE N == Len(group)
<1>1. N \in Nat /\ DOMAIN group = 1 .. N
  OBVIOUS
<1>2. ASSUME NEW k \in 1 .. N
      PROVE  \E q \in rows : /\ Named(rows, meas, group[k].name) = {q}
                             /\ q.samples >= group[Max(ChannelsOf(group, group[k].name))].samples
  <2>1. PICK T : T = ChannelsOf(group, group[k].name)
    OBVIOUS
  <2>2. T = {j \in 1 .. N : group[j].name = group[k].name} /\ k \in T
    BY <1>1, <1>2, <2>1 DEF ChannelsOf
  <2>3. PICK i : i = Max(T)
    OBVIOUS
  <2> HIDE DEF N
  <2>4. i \in T /\ \A y \in T : y <= i
    BY <1>1, <2>2, <2>3, MaxIsGreatest
  <2>5. i \in 1 .. N /\ group[i].name = group[k].name
    BY <2>2, <2>4
  <2>6. \A j \in (i + 1) .. N : group[j].name # group[i].name
    <3>1. ASSUME NEW j \in (i + 1) .. N, group[j].name = group[i].name
          PROVE  FALSE
      <4>1. j \in 1 .. N /\ ~ (j <= i)
        BY <1>1, <2>5, <3>1
      <4> QED
        BY <2>2, <2>4, <2>5, <3>1, <4>1
    <3> QED
      BY <3>1
  <2>7. Enough(rows, meas, group[i])
    BY <2>5, <2>6 DEF DoneUpTo, N
  <2> QED
    BY <2>1, <2>3, <2>5, <2>7 DEF Enough
<1> QED
  BY <1>1, <1>2 DEF NamesDone

\* What UpdateMq makes of the tables.
LEMMA UpdateMqDoes ==
  ASSUME NEW s, ScopeInv(s), OnceMq(s.db.mq), NEW group \in Seq(Channel),
         NEW meas, meas \in Ids(s.db.meas)
  PROVE  LET r == UpdateMq(s, group, meas)
         IN  /\ OnceMq(r.db.mq) /\ NoneLost(s.db, r.db)
             /\ r.db.file = s.db.file /\ r.db.meas = s.db.meas
             /\ \A q : q.meas # meas => (q \in s.db.mq <=> q \in r.db.mq)
             /\ r.ok => s.ok /\ NamesDone(r.db.mq, meas, group)
<1> DEFINE N == Len(group)
<1>0. Len(group) \in Nat
  OBVIOUS
<1>1. PICK after :
        /\ after[0] = Fetched(s, meas) /\ after[N] = UpdateMq(s, group, meas)
        /\ \A n \in 1 .. N : after[n] = UpdateChannel(after[n - 1], group[n], meas)
  BY <1>0, MqSteps
<1>2. PICK first : first = Fetched(s, meas)
  OBVIOUS
<1>3. N \in Nat /\ \A n \in 1 .. N : group[n] \in Channel
  OBVIOUS
<1>4. /\ MqInv(first, meas) /\ first.db = s.db /\ first.ok = s.ok
      /\ first.mqs = {q \in s.db.mq : q.meas = meas}
  BY <1>2, FetchedInv
<1> HIDE DEF N
<1> DEFINE Good(a, k) == /\ MqInv(a, meas) /\ OnlyMeas(first, a, meas)
                         /\ a.ok => DoneUpTo(k, a.db.mq, meas, group)
           L == {k \in 0 .. N : Good(after[k], k)}
<1>5. 0 .. N \subseteq L
  <2>1. 0 \in L
    <3>1. OnlyMeas(first, first, meas) /\ DoneUpTo(0, first.db.mq, meas, group)
      BY DEF OnlyMeas, DoneUpTo
    <3> QED
      BY <1>1, <1>2, <1>3, <1>4, <3>1
  <2>2. ASSUME NEW k \in 0 .. N, k + 1 \in 0 .. N, k \in L
        PROVE  k + 1 \in L
    <3>1. Good(after[k], k) /\ k \in Nat
      BY <1>3, <2>2
    <3>2. after[k + 1] = UpdateChannel(after[k], group[k + 1], meas) /\ group[k + 1] \in Channel
      <4>1. k + 1 \in 1 .. N /\ (k + 1) - 1 = k
        BY <1>3, <2>2
      <4> QED
        BY <1>1, <1>3, <4>1
    <3>3. /\ MqInv(after[k + 1], meas) /\ OnlyMeas(after[k], after[k + 1], meas)
          /\ after[k + 1].ok => DoneUpTo(k + 1, after[k + 1].db.mq, meas, group)
      BY <3>1, <3>2, OneChannelMore
    <3>4. OnlyMeas(first, after[k + 1], meas)
      BY <3>1, <3>3 DEF OnlyMeas
    <3> QED
      BY <2>2, <3>3, <3>4
  <2> HIDE DEF L
  <2> QED
    BY <1>3, <2>1, <2>2, UpTo
<1>6. PICK r : r = UpdateMq(s, group, meas)
  OBVIOUS
<1>7. Good(r, N)
  BY <1>1, <1>3, <1>5, <1>6
<1>8. ASSUME NEW q \in s.db.mq
      PROVE  \E p \in r.db.mq : p.id = q.id /\ p.samples >= q.samples
  <2>1. q.samples \in Nat
    BY DEF OnceMq
  <2>2. CASE q.meas # meas
    BY <1>4, <1>7, <2>1, <2>2 DEF OnlyMeas
  <2>3. CASE q.meas = meas
    <3>1. q \in r.mqs
      BY <1>4, <1>7, <2>3 DEF OnlyMeas
    <3>2. PICK p \in r.db.mq : p.id = q.id /\ q.samples <= p.samples
      BY <1>7, <3>1 DEF MqInv, Listed
    <3>3. p.samples \in Nat
      BY <1>7 DEF MqInv, OnceMq
    <3> QED
      BY <2>1, <3>2, <3>3
  <2> QED
    BY <2>2, <2>3
<1>9. r.ok => NamesDone(r.db.mq, meas, group)
  BY <1>7, LastOfEach DEF N
<1> QED
  BY <1>4, <1>6, <1>7, <1>8, <1>9 DEF MqInv, OnlyMeas, NoneLost

-----------------------------------------------------------------------------
(***************************************************************************)
(* From the tables d to e, only what is below the measurements with a file *)
(* and number of P has changed, and no row is lost.                        *)
(***************************************************************************)
Touches(d, e, P) ==
  /\ d.file \subseteq e.file /\ d.meas \subseteq e.meas
  /\ \A m \in e.meas : <<m.file, m.nr>> \notin P => m \in d.meas
  /\ \A m \in d.meas : <<m.file, m.nr>> \notin P =>
                         \A q : q.meas = m.id => (q \in d.mq <=> q \in e.mq)
  /\ NoneLost(d, e)

LEMMA TouchesNothing ==
  ASSUME NEW d, NEW e, OnceMq(d.mq), d.file \subseteq e.file, e.meas = d.meas, e.mq = d.mq, NEW P
  PROVE  Touches(d, e, P)
BY DEF Touches, NoneLost, OnceMq

LEMMA NoneLostOn ==
  ASSUME NEW d, NEW e, NEW g, OnceMq(d.mq), OnceMq(e.mq), OnceMq(g.mq),
         NoneLost(d, e), NoneLost(e, g)
  PROVE  NoneLost(d, g)
<1>1. ASSUME NEW q \in d.mq
      PROVE  \E p \in g.mq : p.id = q.id /\ p.samples >= q.samples
  <2>1. PICK x \in e.mq : x.id = q.id /\ x.samples >= q.samples
    BY DEF NoneLost
  <2>2. PICK p \in g.mq : p.id = x.id /\ p.samples >= x.samples
    BY DEF NoneLost
  <2>3. q.samples \in Nat /\ x.samples \in Nat /\ p.samples \in Nat
    BY DEF OnceMq
  <2> QED
    BY <2>1, <2>2, <2>3
<1> QED
  BY <1>1 DEF NoneLost

LEMMA TouchesOn ==
  ASSUME NEW d, NEW e, NEW g, OnceMq(d.mq), OnceMq(e.mq), OnceMq(g.mq),
         NEW P, Touches(d, e, P), Touches(e, g, P)
  PROVE  Touches(d, g, P)
<1>1. NoneLost(d, g)
  BY NoneLostOn DEF Touches
<1> QED
  BY <1>1 DEF Touches

LEMMA TouchesMore ==
  ASSUME NEW d, NEW e, NEW P, NEW Q, Touches(d, e, P), P \subseteq Q
  PROVE  Touches(d, e, Q)
BY DEF Touches

LEMMA HasGroupKept ==
  ASSUME NEW d, NEW e, NEW P, Touches(d, e, P), NEW file, NEW nr, <<file, nr>> \notin P,
         NEW group, HasGroup(d, file, nr, group)
  PROVE  HasGroup(e, file, nr, group)
<1>1. PICK m \in d.meas :
        /\ {r \in d.meas : r.file = file /\ r.nr = nr} = {m}
        /\ \A k \in DOMAIN group : HasChannel(d, m.id, group, group[k].name)
  BY DEF HasGroup
<1>2. m.file = file /\ m.nr = nr /\ m \in e.meas
  BY <1>1 DEF Touches
<1>3. {r \in e.meas : r.file = file /\ r.nr = nr} = {m}
  BY <1>1, <1>2 DEF Touches
<1>4. \A q : q.meas = m.id => (q \in d.mq <=> q \in e.mq)
  BY <1>2 DEF Touches
<1>5. ASSUME NEW k \in DOMAIN group
      PROVE  HasChannel(e, m.id, group, group[k].name)
  <2>1. PICK q \in d.mq :
          /\ {r \in d.mq : r.meas = m.id /\ r.name.text = group[k].name} = {q}
          /\ q.samples >= group[Max(ChannelsOf(group, group[k].name))].samples
    BY <1>1 DEF HasChannel
  <2>2. {r \in e.mq : r.meas = m.id /\ r.name.text = group[k].name} = {q} /\ q \in e.mq
    BY <1>4, <2>1
  <2> QED
    BY <2>1, <2>2 DEF HasChannel
<1> QED
  BY <1>2, <1>3, <1>5 DEF HasGroup

\* UpdateMq for a measurement with this file and number.
LEMMA MqTouches ==
  ASSUME NEW s, ScopeInv(s), Once(s.db), NEW group \in Seq(Channel), NEW m \in s.db.meas,
         m.file # 0
  PROVE  LET r == UpdateMq(s, group, m.id)
         IN  /\ Once(r.db) /\ r.db.file = s.db.file
             /\ Touches(s.db, r.db, {<<m.file, m.nr>>})
             /\ r.ok => s.ok /\ HasGroup(r.db, m.file, m.nr, group)
<1>1. PICK r : r = UpdateMq(s, group, m.id)
  OBVIOUS
<1>2. m.id \in Ids(s.db.meas)
  BY DEF Ids
<1>3. /\ OnceMq(r.db.mq) /\ NoneLost(s.db, r.db)
      /\ r.db.file = s.db.file /\ r.db.meas = s.db.meas
      /\ \A q : q.meas # m.id => (q \in s.db.mq <=> q \in r.db.mq)
      /\ r.ok => s.ok /\ NamesDone(r.db.mq, m.id, group)
  BY <1>1, <1>2, UpdateMqDoes DEF Once
<1>4. \A x \in s.db.meas : x.id = m.id => x = m
  BY DEF ScopeInv, DbInv, KeysInv, Keys, Tables
<1>5. Touches(s.db, r.db, {<<m.file, m.nr>>})
  BY <1>3, <1>4 DEF Touches
<1>6. {x \in r.db.meas : x.file = m.file /\ x.nr = m.nr} = {m}
  BY <1>3 DEF Once, OnceMeas
<1>7. r.ok => HasGroup(r.db, m.file, m.nr, group)
  <2>1. ASSUME r.ok, NEW k \in DOMAIN group
        PROVE  HasChannel(r.db, m.id, group, group[k].name)
    BY <1>3, <2>1 DEF NamesDone, Named, HasChannel
  <2> QED
    BY <1>3, <1>6, <2>1 DEF HasGroup
<1> QED
  BY <1>1, <1>3, <1>5, <1>7 DEF Once

\* UpdateGroup, when had has every measurement of the file with the number.
LEMMA GroupDoes ==
  ASSUME NEW s, ScopeInv(s), Once(s.db), NEW group \in Seq(Channel), NEW nr, NEW file, file \in Ids(s.db.file),
         NEW had, had \subseteq s.db.meas, \A m \in had : m.file = file,
         \A m \in s.db.meas : m.file = file /\ m.nr = nr => m \in had
  PROVE  LET r == UpdateGroup(s, group, nr, file, had)
         IN  /\ Once(r.db) /\ r.db.file = s.db.file /\ Touches(s.db, r.db, {<<file, nr>>})
             /\ r.ok => s.ok /\ HasGroup(r.db, file, nr, group)
<1> DEFINE same == {m \in had : m.nr = nr}
<1>0. file # 0
  BY DEF ScopeInv, DbInv, KeysInv, Keys, Drawn, Ids, Tables
<1>1. PICK r : r = UpdateGroup(s, group, nr, file, had)
  OBVIOUS
<1>2. CASE ~s.ok
  <2>1. r = s
    BY <1>1, <1>2 DEF UpdateGroup
  <2>2. Touches(s.db, r.db, {<<file, nr>>})
    BY <2>1, TouchesNothing DEF Once
  <2> QED
    BY <1>1, <1>2, <2>1, <2>2
<1>3. CASE s.ok /\ same # {}
  <2>1. Ids(same) \in SUBSET Nat /\ Ids(same) # {}
    <3>1. \A m \in s.db.meas : m.id \in Nat
      BY DEF ScopeInv, DbInv, KeysInv, Keys, Drawn, Tables
    <3> QED
      BY <1>3, <3>1 DEF Ids
  <2>2. Min(Ids(same)) \in Ids(same)
    BY <2>1, MinIsElement
  <2>3. PICK m \in same : m.id = Min(Ids(same))
    BY <2>2 DEF Ids
  <2>4. m \in s.db.meas /\ m.file = file /\ m.nr = nr
    OBVIOUS
  <2>5. r = UpdateMq(s, group, m.id)
    BY <1>1, <1>3, <2>3 DEF UpdateGroup
  <2>6. /\ Once(r.db) /\ r.db.file = s.db.file /\ Touches(s.db, r.db, {<<m.file, m.nr>>})
        /\ r.ok => s.ok /\ HasGroup(r.db, m.file, m.nr, group)
    BY <1>0, <2>4, <2>5, MqTouches
  <2> QED
    BY <1>1, <2>4, <2>6
<1>4. CASE s.ok /\ same = {}
  <2>1. PICK acc : acc = InsertMeas(s, file, nr)
    OBVIOUS
  <2>2. r = IF acc.ok THEN UpdateMq(acc, group, NewId(s, "meas")) ELSE acc
    BY <1>1, <1>4, <2>1 DEF UpdateGroup
  <2>3. IsScope(s) /\ IsDb(s.db)
    BY DEF ScopeInv, DbInv
  <2>4. CASE Breaks(s)
    <3>1. acc.db = s.db /\ acc.ok = FALSE
      BY <2>1, <2>3, <2>4, FailedSame DEF InsertMeas
    <3>2. Touches(s.db, acc.db, {<<file, nr>>})
      BY <3>1, TouchesNothing DEF Once
    <3> QED
      BY <1>1, <2>2, <3>1, <3>2
  <2>5. CASE ~Breaks(s)
    <3>1. PICK row : row = [id |-> NewId(s, "meas"), file |-> file, nr |-> nr]
      OBVIOUS
    <3>2. row.id = NewId(s, "meas") /\ row.file = file /\ row.nr = nr
      BY <3>1
    <3>3. acc = Insert(s, "meas", row)
      BY <2>1, <2>5, <3>1 DEF InsertMeas
    <3>4. /\ acc.ok = s.ok /\ acc.db.meas = s.db.meas \cup {row}
          /\ acc.db.file = s.db.file /\ acc.db.mq = s.db.mq
      BY <2>3, <3>3, InsertAlike DEF Tables
    <3>5. \A m \in s.db.meas : ~ (m.file = file /\ m.nr = nr)
      BY <1>4
    <3>6. Once(acc.db)
      BY <3>2, <3>4, <3>5 DEF Once, OnceMeas
    <3>7. Touches(s.db, acc.db, {<<file, nr>>})
      BY <3>2, <3>4 DEF Touches, NoneLost, Once, OnceMq
    <3>8. RowFits(s.db, "meas", row)
      BY <3>1 DEF RowFits, NewId, RefersTo
    <3>9. ScopeInv(acc)
      BY <3>3, <3>8, InsertFacts DEF Tables
    <3>10. r = UpdateMq(acc, group, row.id) /\ row \in acc.db.meas
      BY <1>4, <2>2, <3>2, <3>4
    <3>11. /\ Once(r.db) /\ r.db.file = acc.db.file
           /\ Touches(acc.db, r.db, {<<file, nr>>})
           /\ r.ok => acc.ok /\ HasGroup(r.db, file, nr, group)
      BY <1>0, <3>2, <3>6, <3>9, <3>10, MqTouches
    <3>12. Touches(s.db, r.db, {<<file, nr>>})
      BY <3>6, <3>7, <3>11, TouchesOn DEF Once
    <3> QED
      BY <1>1, <3>4, <3>11, <3>12
  <2> QED
    BY <2>4, <2>5
<1> QED
  BY <1>2, <1>3, <1>4

\* UpdateMeas: one turn for each data group of the file.
LEMMA MeasDoes ==
  ASSUME NEW s, ScopeInv(s), Once(s.db), NEW content \in Seq(Seq(Channel)),
         NEW file, file \in Ids(s.db.file)
  PROVE  LET r == UpdateMeas(s, content, file)
         IN  /\ Once(r.db) /\ r.db.file = s.db.file /\ Touches(s.db, r.db, {file} \X Nat)
             /\ r.ok => /\ s.ok
                        /\ \A n \in DOMAIN content : HasGroup(r.db, file, n - 1, content[n])
<1> DEFINE N == Len(content)
<1>0. Len(content) \in Nat
  OBVIOUS
<1>2. PICK had : had = Had(s, file)
  OBVIOUS
<1>1. PICK after :
        /\ after[0] = s /\ after[N] = UpdateMeas(s, content, file)
        /\ \A n \in 1 .. N :
             after[n] = UpdateGroup(after[n - 1], content[n], GroupNr(n), file, had)
  <2>1. \E after :
           /\ after[0] = s /\ after[Len(content)] = UpdateMeas(s, content, file)
           /\ \A n \in 1 .. Len(content) :
                after[n] = UpdateGroup(after[n - 1], content[n], GroupNr(n), file, Had(s, file))
    BY <1>0, MeasSteps
  <2> QED
    BY <1>2, <2>1
<1>3. N \in Nat /\ \A n \in 1 .. N : content[n] \in Seq(Channel)
  OBVIOUS
<1>4. DOMAIN content = 1 .. N
  OBVIOUS
<1> HIDE DEF N
<1> DEFINE P(k) == {<<file, GroupNr(i)>> : i \in 1 .. k}
           Good(a, k) == /\ ScopeInv(a) /\ Once(a.db) /\ a.db.file = s.db.file
                         /\ Touches(s.db, a.db, P(k))
                         /\ a.ok => /\ s.ok
                                    /\ \A i \in 1 .. k : HasGroup(a.db, file, GroupNr(i), content[i])
           L == {k \in 0 .. N : Good(after[k], k)}
<1>5. ASSUME NEW k \in Nat, NEW a, Good(a, k), NEW group \in Seq(Channel), group = content[k + 1]
      PROVE  Good(UpdateGroup(a, group, GroupNr(k + 1), file, had), k + 1)
  <2>1. PICK nr, r : nr = GroupNr(k + 1) /\ r = UpdateGroup(a, group, nr, file, had)
    OBVIOUS
  <2>2. nr = k /\ \A i \in 1 .. k : GroupNr(i) # nr
    BY <2>1 DEF GroupNr
  <2>3. <<file, nr>> \notin P(k)
    BY <2>2
  <2>4. P(k) \subseteq P(k + 1) /\ {<<file, nr>>} \subseteq P(k + 1)
    BY <2>1
  <2> HIDE DEF P
  <2>5. had \subseteq a.db.meas /\ \A m \in had : m.file = file
    BY <1>2, <1>5 DEF Had, Touches
  <2>6. \A m \in a.db.meas : m.file = file /\ m.nr = nr => m \in had
    BY <1>2, <1>5, <2>3 DEF Had, Touches
  <2>7. ScopeInv(a) /\ Once(a.db) /\ file \in Ids(a.db.file)
    BY <1>5
  <2>8. /\ Once(r.db) /\ r.db.file = a.db.file /\ Touches(a.db, r.db, {<<file, nr>>})
        /\ r.ok => a.ok /\ HasGroup(r.db, file, nr, group)
    BY <1>5, <2>1, <2>5, <2>6, <2>7, GroupDoes
  <2>9. ScopeInv(r)
    <3>1. Len(group) \in Nat /\ Ids(had) \subseteq Ids(a.db.meas)
      BY <2>5 DEF Ids
    <3> QED
      BY <2>1, <2>7, <3>1, GroupFacts DEF Leads
  <2>10. Touches(s.db, r.db, P(k + 1))
    <3>1. Touches(s.db, a.db, P(k + 1)) /\ Touches(a.db, r.db, P(k + 1))
      BY <1>5, <2>4, <2>8, TouchesMore
    <3> QED
      BY <2>7, <2>8, <3>1, TouchesOn DEF Once
  <2>11. ASSUME r.ok, NEW i \in 1 .. (k + 1)
         PROVE  HasGroup(r.db, file, GroupNr(i), content[i])
    <3>1. CASE i = k + 1
      BY <1>5, <2>1, <2>8, <2>11, <3>1
    <3>2. CASE i # k + 1
      <4>1. i \in 1 .. k
        BY <3>2
      <4>2. HasGroup(a.db, file, GroupNr(i), content[i])
        BY <1>5, <2>8, <2>11, <4>1
      <4>3. <<file, GroupNr(i)>> \notin {<<file, nr>>}
        BY <2>2, <4>1
      <4> QED
        BY <2>8, <4>2, <4>3, HasGroupKept
    <3> QED
      BY <3>1, <3>2
  <2> QED
    BY <1>5, <2>1, <2>8, <2>9, <2>10, <2>11
<1>6. 0 .. N \subseteq L
  <2>1. 0 \in L
    <3>1. Touches(s.db, s.db, P(0))
      BY TouchesNothing DEF Once
    <3> HIDE DEF P
    <3> QED
      BY <1>1, <1>3, <3>1
  <2>2. ASSUME NEW k \in 0 .. N, k + 1 \in 0 .. N, k \in L
        PROVE  k + 1 \in L
    <3>1. Good(after[k], k) /\ k \in Nat
      BY <1>3, <2>2
    <3>2. /\ after[k + 1] = UpdateGroup(after[k], content[k + 1], GroupNr(k + 1), file, had)
          /\ content[k + 1] \in Seq(Channel)
      <4>1. k + 1 \in 1 .. N /\ (k + 1) - 1 = k
        BY <1>3, <2>2
      <4> QED
        BY <1>1, <1>3, <4>1
    <3> HIDE DEF Good
    <3>3. Good(after[k + 1], k + 1)
      BY <1>5, <3>1, <3>2
    <3> QED
      BY <2>2, <3>3
  <2> HIDE DEF L
  <2> QED
    BY <1>3, <2>1, <2>2, UpTo
<1>7. PICK r : r = UpdateMeas(s, content, file)
  OBVIOUS
<1>8. Good(r, N)
  <2> HIDE DEF Good
  <2> QED
    BY <1>1, <1>3, <1>6, <1>7
<1>9. P(N) \subseteq {file} \X Nat
  BY <1>3 DEF GroupNr
<1> HIDE DEF P
<1>10. Touches(s.db, r.db, {file} \X Nat)
  BY <1>8, <1>9, TouchesMore
<1> QED
  BY <1>4, <1>7, <1>8, <1>10 DEF GroupNr

-----------------------------------------------------------------------------
\* A file that has been read; had: the rows of the files before.
FileDone(d, f, had) ==
  \E row \in d.file :
    /\ row.name.text = f /\ (row.name = Plain(f) \/ row \notin had)
    /\ \A n \in DOMAIN disk[f] : HasGroup(d, row.id, n - 1, disk[f][n])

LEMMA FileDoneKept ==
  ASSUME NEW d, NEW e, NEW id, Touches(d, e, {id} \X Nat), NEW f, NEW had,
         \A row \in e.file : row.id = id => row.name.text # f,
         DOMAIN disk[f] \subseteq Nat, FileDone(d, f, had)
  PROVE  FileDone(e, f, had)
<1>1. PICK row \in d.file :
        /\ row.name.text = f /\ (row.name = Plain(f) \/ row \notin had)
        /\ \A n \in DOMAIN disk[f] : HasGroup(d, row.id, n - 1, disk[f][n])
  BY DEF FileDone
<1>2. row \in e.file
  BY <1>1 DEF Touches
<1>3. ASSUME NEW n \in DOMAIN disk[f]
      PROVE  HasGroup(e, row.id, n - 1, disk[f][n])
  <2>1. <<row.id, n - 1>> \notin {id} \X Nat
    BY <1>1, <1>2
  <2>2. HasGroup(d, row.id, n - 1, disk[f][n])
    BY <1>1
  <2> QED
    BY <2>1, <2>2, HasGroupKept
<1> QED
  BY <1>1, <1>2, <1>3 DEF FileDone

\* What UpdateFile makes of the tables: it changes what is below one file.
OneFileDone(s, r, f, had) ==
  /\ Once(r.db)
  /\ \E id : /\ Touches(s.db, r.db, {id} \X Nat)
             /\ \A row \in r.db.file : row.id = id => row.name.text = f
  /\ r.ok => s.ok /\ (disk[f] # NoMdf => FileDone(r.db, f, had))

LEMMA Readable ==
  ASSUME DiskInv, NEW f \in ToSet(Files), disk[f] # NoMdf
  PROVE  disk[f] \in Seq(Seq(Channel))
BY MeasAssumption DEF DiskInv, Channel

LEMMA FileDoes ==
  ASSUME DiskInv, NEW f \in ToSet(Files), NEW s, ScopeInv(s), Once(s.db),
         NEW had, had \subseteq s.db.file
  PROVE  OneFileDone(s, UpdateFile(s, f), f, had)
<1> DEFINE same == {x \in s.db.file : x.name = Plain(f)}
<1>1. PICK r : r = UpdateFile(s, f)
  OBVIOUS
<1>2. \A x, y \in s.db.file : x.id \in Nat \ {0} /\ (x.id = y.id => x = y)
  BY DEF ScopeInv, DbInv, KeysInv, Keys, Drawn, Tables
<1>3. ASSUME r.db = s.db, disk[f] = NoMdf \/ ~r.ok, r.ok => s.ok
      PROVE  OneFileDone(s, r, f, had)
  <2>1. Touches(s.db, r.db, {0} \X Nat) /\ \A x \in r.db.file : x.id # 0
    BY <1>2, <1>3, TouchesNothing DEF Once
  <2> QED
    BY <1>3, <2>1 DEF OneFileDone
<1>4. CASE disk[f] = NoMdf \/ ~s.ok
  <2>1. r = s
    BY <1>1, <1>4 DEF UpdateFile
  <2> QED
    BY <1>1, <1>3, <1>4, <2>1
<1>5. ASSUME disk[f] # NoMdf, NEW a, ScopeInv(a), Once(a.db), a.ok => s.ok,
             Touches(s.db, a.db, {}), NEW row \in a.db.file,
             row.name.text = f, row.name = Plain(f) \/ row \notin had,
             r = UpdateMeas(a, disk[f], row.id)
      PROVE  OneFileDone(s, r, f, had)
  <2>1. row.id \in Ids(a.db.file) /\ disk[f] \in Seq(Seq(Channel))
    BY <1>5, Readable DEF Ids
  <2>2. /\ Once(r.db) /\ r.db.file = a.db.file /\ Touches(a.db, r.db, {row.id} \X Nat)
        /\ r.ok => /\ a.ok
                   /\ \A n \in DOMAIN disk[f] : HasGroup(r.db, row.id, n - 1, disk[f][n])
    BY <1>5, <2>1, MeasDoes
  <2>3. Touches(s.db, r.db, {row.id} \X Nat)
    <3>1. Touches(s.db, a.db, {row.id} \X Nat)
      BY <1>5, TouchesMore
    <3> QED
      BY <1>5, <2>2, <3>1, TouchesOn DEF Once
  <2>4. \A x \in r.db.file : x.id = row.id => x.name.text = f
    BY <1>5, <2>2 DEF ScopeInv, DbInv, KeysInv, Keys, Tables
  <2>5. \E id : /\ Touches(s.db, r.db, {id} \X Nat)
                /\ \A x \in r.db.file : x.id = id => x.name.text = f
    BY <2>3, <2>4
  <2>6. r.ok => s.ok /\ FileDone(r.db, f, had)
    BY <1>5, <2>2 DEF FileDone
  <2> QED
    BY <2>2, <2>5, <2>6 DEF OneFileDone
<1>6. CASE disk[f] # NoMdf /\ s.ok /\ same # {}
  <2>1. Ids(same) \in SUBSET Nat /\ Ids(same) # {}
    BY <1>2, <1>6 DEF Ids
  <2>2. Min(Ids(same)) \in Ids(same)
    BY <2>1, MinIsElement
  <2>3. PICK row \in same : row.id = Min(Ids(same))
    BY <2>2 DEF Ids
  <2>4. r = UpdateMeas(s, disk[f], row.id)
    BY <1>1, <1>6, <2>3 DEF UpdateFile
  <2>5. Touches(s.db, s.db, {})
    BY TouchesNothing DEF Once
  <2>6. row \in s.db.file /\ row.name = Plain(f) /\ row.name.text = f
    BY DEF Plain
  <2> QED
    BY <1>1, <1>5, <1>6, <2>4, <2>5, <2>6
<1>7. CASE disk[f] # NoMdf /\ s.ok /\ same = {}
  <2>1. PICK acc : acc = InsertFile(s, f)
    OBVIOUS
  <2>2. r = IF acc.ok THEN UpdateMeas(acc, disk[f], NewId(s, "file")) ELSE acc
    BY <1>1, <1>7, <2>1 DEF UpdateFile
  <2>3. IsScope(s) /\ IsDb(s.db)
    BY DEF ScopeInv, DbInv
  <2>4. CASE Breaks(s) \/ \E x \in s.db.file : x.name = Bound(f)
    <3>1. acc.db = s.db /\ acc.ok = FALSE
      BY <2>1, <2>3, <2>4, FailedSame DEF InsertFile
    <3>2. r = acc
      BY <2>2, <3>1
    <3> QED
      BY <1>1, <1>3, <3>1, <3>2
  <2>5. CASE ~(Breaks(s) \/ \E x \in s.db.file : x.name = Bound(f))
    <3>1. PICK row : row = [id |-> NewId(s, "file"), name |-> Bound(f)]
      OBVIOUS
    <3>2. row.id = NewId(s, "file") /\ row.name.text = f /\ RowFits(s.db, "file", row)
      BY <3>1 DEF Bound, RowFits, NewId
    <3>3. acc = Insert(s, "file", row)
      BY <2>1, <2>5, <3>1 DEF InsertFile
    <3>4. /\ acc.ok = s.ok /\ acc.db.file = s.db.file \cup {row}
          /\ acc.db.meas = s.db.meas /\ acc.db.mq = s.db.mq
      BY <2>3, <3>3, InsertAlike DEF Tables
    <3>5. ScopeInv(acc)
      BY <3>2, <3>3, InsertFacts DEF Tables
    <3>6. row \notin had
      <4>1. \A x \in s.db.file : x.id # row.id
        BY <3>2 DEF ScopeInv, DbInv, IsDb, KeysInv, Keys, Drawn, NewId, Tables
      <4> QED
        BY <4>1
    <3>7. Once(acc.db) /\ Touches(s.db, acc.db, {})
      BY <3>4, TouchesNothing DEF Once
    <3>8. r = UpdateMeas(acc, disk[f], row.id) /\ row \in acc.db.file
      BY <1>7, <2>2, <3>2, <3>4
    <3> QED
      BY <1>1, <1>5, <1>7, <3>2, <3>4, <3>5, <3>6, <3>7, <3>8
  <2> QED
    BY <2>4, <2>5
<1> QED
  BY <1>1, <1>4, <1>6, <1>7

\* UpdateMeasFile up to the deletes.
FilesDone(s, r, files) ==
  /\ Once(r.db) /\ s.db.file \subseteq r.db.file /\ NoneLost(s.db, r.db)
  /\ r.ok => \A f \in files \cap ToSet(Files) : disk[f] # NoMdf => FileDone(r.db, f, s.db.file)

LEMMA FilesDoes ==
  ASSUME DiskInv, NEW s, ScopeInv(s), Once(s.db), NEW files
  PROVE  FilesDone(s, UpdateFiles(s, files), files)
<1> DEFINE N == Len(Files)
<1>1. PICK after :
        /\ after[0] = s /\ after[N] = UpdateFiles(s, files)
        /\ \A n \in 1 .. N : after[n] = OneFile(after[n - 1], n, files)
  BY FilesSteps
<1>2. N \in Nat /\ \A n \in 1 .. N : Files[n] \in ToSet(Files)
  BY MeasAssumption DEF ToSet
<1>3. \A f \in ToSet(Files) : \E n \in 1 .. N : f = Files[n]
  BY MeasAssumption DEF ToSet
<1>4. PICK had : had = s.db.file
  OBVIOUS
<1> HIDE DEF N
<1> DEFINE Read(a, i) == Files[i] \in files /\ disk[Files[i]] # NoMdf => FileDone(a.db, Files[i], had)
           Good(a, k) == /\ ScopeInv(a) /\ Once(a.db) /\ had \subseteq a.db.file
                         /\ NoneLost(s.db, a.db)
                         /\ a.ok => \A i \in 1 .. k : Read(a, i)
           L == {k \in 0 .. N : Good(after[k], k)}
<1>5. ASSUME NEW k \in Nat, k + 1 \in 1 .. N, NEW a, Good(a, k)
      PROVE  Good(OneFile(a, k + 1, files), k + 1)
  <2>1. PICK f, r : f = Files[k + 1] /\ r = OneFile(a, k + 1, files)
    OBVIOUS
  <2>2. CASE f \notin files
    <3>1. r = a
      BY <2>1, <2>2 DEF OneFile
    <3>2. ASSUME r.ok, NEW i \in 1 .. (k + 1)
          PROVE  Read(r, i)
      <4>1. i \in 1 .. k \/ i = k + 1
        BY <1>5
      <4> QED
        BY <1>5, <2>1, <2>2, <3>1, <3>2, <4>1
    <3> QED
      BY <1>5, <2>1, <3>1, <3>2
  <2>3. CASE f \in files
    <3>1. r = UpdateFile(a, f) /\ f \in ToSet(Files)
      BY <1>2, <1>5, <2>1, <2>3 DEF OneFile
    <3>2. OneFileDone(a, r, f, had)
      BY <1>5, <3>1, FileDoes
    <3>3. PICK id : /\ Touches(a.db, r.db, {id} \X Nat)
                    /\ \A row \in r.db.file : row.id = id => row.name.text = f
      BY <3>2 DEF OneFileDone
    <3>4. ScopeInv(r)
      BY <1>5, <3>1, FileFacts DEF Leads
    <3>5. NoneLost(s.db, r.db)
      BY <1>5, <3>2, <3>3, NoneLostOn DEF OneFileDone, Touches, Once
    <3>6. ASSUME r.ok, NEW i \in 1 .. (k + 1)
          PROVE  Read(r, i)
      <4>1. CASE Files[i] = f
        BY <3>2, <3>6, <4>1 DEF OneFileDone
      <4>2. CASE Files[i] # f
        <5>1. i \in 1 .. k /\ i \in 1 .. N
          BY <1>2, <1>5, <2>1, <4>2
        <5>2. a.ok
          BY <3>2, <3>6 DEF OneFileDone
        <5>3. Read(a, i)
          BY <1>5, <5>1, <5>2
        <5>4. ASSUME Files[i] \in files, disk[Files[i]] # NoMdf
              PROVE  FileDone(r.db, Files[i], had)
          <6>1. DOMAIN disk[Files[i]] \subseteq Nat
            <7>1. disk[Files[i]] \in Seq(Seq(Channel))
              BY <1>2, <5>1, <5>4, Readable
            <7> QED
              BY <7>1
          <6>2. FileDone(a.db, Files[i], had)
            BY <5>3, <5>4
          <6>3. \A row \in r.db.file : row.id = id => row.name.text # Files[i]
            BY <3>3, <4>2
          <6> QED
            BY <3>3, <6>1, <6>2, <6>3, FileDoneKept
        <5> QED
          BY <5>4
      <4> QED
        BY <4>1, <4>2
    <3> HIDE DEF Read
    <3> QED
      BY <1>5, <2>1, <3>2, <3>3, <3>4, <3>5, <3>6 DEF OneFileDone, Touches
  <2> QED
    BY <2>2, <2>3
<1>6. 0 .. N \subseteq L
  <2>1. 0 \in L
    <3>1. NoneLost(s.db, s.db)
      BY DEF NoneLost, Once, OnceMq
    <3> HIDE DEF Read
    <3> QED
      BY <1>1, <1>2, <1>4, <3>1
  <2>2. ASSUME NEW k \in 0 .. N, k + 1 \in 0 .. N, k \in L
        PROVE  k + 1 \in L
    <3>1. Good(after[k], k) /\ k \in Nat /\ k + 1 \in 1 .. N
      BY <1>2, <2>2
    <3>2. after[k + 1] = OneFile(after[k], k + 1, files)
      <4>1. k + 1 \in 1 .. N /\ (k + 1) - 1 = k
        BY <1>2, <2>2
      <4> QED
        BY <1>1, <4>1
    <3> HIDE DEF Good
    <3>3. Good(after[k + 1], k + 1)
      BY <1>5, <3>1, <3>2
    <3> QED
      BY <2>2, <3>3
  <2> HIDE DEF L
  <2> QED
    BY <1>2, <2>1, <2>2, UpTo
<1>7. PICK r : r = UpdateFiles(s, files)
  OBVIOUS
<1>8. Good(r, N)
  <2> HIDE DEF Good
  <2> QED
    BY <1>1, <1>2, <1>6, <1>7
<1>9. ASSUME r.ok, NEW f \in files \cap ToSet(Files), disk[f] # NoMdf
      PROVE  FileDone(r.db, f, had)
  <2>1. PICK n \in 1 .. N : f = Files[n]
    BY <1>3
  <2>2. Read(r, n)
    BY <1>8, <1>9, <2>1
  <2> QED
    BY <1>9, <2>1, <2>2
<1> HIDE DEF Read
<1> QED
  BY <1>4, <1>7, <1>8, <1>9 DEF FilesDone

-----------------------------------------------------------------------------
(***************************************************************************)
(* Deleting rows, and the tables that another program has stored.          *)
(***************************************************************************)
LEMMA NulledRows ==
  ASSUME NEW rows, NEW column, NEW ids, \A r \in rows : column \in DOMAIN r
  PROVE  /\ \A x \in Nulled(rows, column, ids) : x[column] # 0 => x \in rows
         /\ \A r \in rows : r[column] \notin ids => r \in Nulled(rows, column, ids)
<1> DEFINE Put(r) == IF r[column] \in ids THEN [r EXCEPT ![column] = 0] ELSE r
<1>1. PICK new : new = Nulled(rows, column, ids)
  OBVIOUS
<1>2. new = {Put(r) : r \in rows}
  BY <1>1 DEF Nulled
<1>3. ASSUME NEW r \in rows
      PROVE  (r[column] \notin ids => Put(r) = r) /\ (r[column] \in ids => Put(r)[column] = 0)
  OBVIOUS
<1> HIDE DEF Put
<1>4. /\ \A x \in new : \E r \in rows : x = Put(r)
      /\ \A r \in rows : Put(r) \in new
  BY <1>2
<1>5. ASSUME NEW x \in new, x[column] # 0
      PROVE  x \in rows
  <2>1. PICK r \in rows : x = Put(r)
    BY <1>4
  <2>2. CASE r[column] \in ids
    BY <1>3, <1>5, <2>1, <2>2
  <2>3. CASE r[column] \notin ids
    BY <1>3, <2>1, <2>3
  <2> QED
    BY <2>2, <2>3
<1>6. ASSUME NEW r \in rows, r[column] \notin ids
      PROVE  r \in new
  BY <1>3, <1>4, <1>6
<1> QED
  BY <1>1, <1>5, <1>6

LEMMA NulledOnce ==
  ASSUME NEW rows, OnceMq(rows), NEW column \in {"quantity", "unit"}, NEW ids
  PROVE  OnceMq(Nulled(rows, column, ids))
<1> DEFINE Put(r) == IF r[column] \in ids THEN [r EXCEPT ![column] = 0] ELSE r
<1>1. PICK new : new = Nulled(rows, column, ids)
  OBVIOUS
<1>2. new = {Put(r) : r \in rows}
  BY <1>1 DEF Nulled
<1>3. ASSUME NEW r \in rows
      PROVE  Put(r).name = r.name /\ Put(r).meas = r.meas /\ Put(r).samples = r.samples
  OBVIOUS
<1> HIDE DEF Put
<1>4. \A x \in new : \E r \in rows : x = Put(r)
  BY <1>2
<1>5. ASSUME NEW x \in new
      PROVE  x.name \in {Plain(x.name.text), Bound(x.name.text)} /\ x.samples \in Nat
  BY <1>3, <1>4 DEF OnceMq
<1>6. ASSUME NEW x \in new, NEW y \in new, x.meas = y.meas, x.name.text = y.name.text
      PROVE  x = y
  <2>1. PICK r \in rows, q \in rows : x = Put(r) /\ y = Put(q)
    BY <1>4
  <2>2. r.meas = q.meas /\ r.name.text = q.name.text
    BY <1>3, <1>6, <2>1
  <2> QED
    BY <2>1, <2>2 DEF OnceMq
<1> QED
  BY <1>1, <1>5, <1>6 DEF OnceMq

LEMMA UnquotedOnce ==
  ASSUME NEW rows, OnceMq(rows),
         \A r \in rows : {"name", "meas", "samples"} \subseteq DOMAIN r
  PROVE  OnceMq(Unquoted(rows))
<1> DEFINE Put(r) == [r EXCEPT !.name = Plain(@.text)]
<1>1. PICK new : new = Unquoted(rows)
  OBVIOUS
<1>2. new = {Put(r) : r \in rows}
  BY <1>1 DEF Unquoted
<1>3. ASSUME NEW r \in rows
      PROVE  Put(r).name = Plain(r.name.text) /\ Put(r).meas = r.meas /\ Put(r).samples = r.samples
  OBVIOUS
<1> HIDE DEF Put
<1>4. \A x \in new : \E r \in rows : x = Put(r)
  BY <1>2
<1>0. \A n : Plain(n).text = n
  BY DEF Plain
<1>5. ASSUME NEW x \in new
      PROVE  x.name \in {Plain(x.name.text), Bound(x.name.text)} /\ x.samples \in Nat
  <2>1. PICK r \in rows : x = Put(r)
    BY <1>4
  <2> QED
    BY <1>0, <1>3, <2>1 DEF OnceMq
<1>6. ASSUME NEW x \in new, NEW y \in new, x.meas = y.meas, x.name.text = y.name.text
      PROVE  x = y
  <2>1. PICK r \in rows, q \in rows : x = Put(r) /\ y = Put(q)
    BY <1>4
  <2>2. r.meas = q.meas /\ r.name.text = q.name.text
    BY <1>0, <1>3, <1>6, <2>1
  <2> QED
    BY <2>1, <2>2 DEF OnceMq
<1> QED
  BY <1>1, <1>5, <1>6 DEF OnceMq

LEMMA WithoutFilesOnce ==
  ASSUME NEW d, DbInv(d), Once(d), NEW gone
  PROVE  LET e == WithoutFiles(d, gone)
         IN  /\ Once(e) /\ e.file = d.file \ gone /\ e.mq = d.mq
             /\ \A x \in e.meas : x.file # 0 => x \in d.meas
             /\ \A m \in d.meas : m.file \notin Ids(gone) => m \in e.meas
<1>1. PICK meas : meas = Nulled(d.meas, "file", Ids(gone))
  OBVIOUS
<1>2. PICK e : e = [d EXCEPT !.file = @ \ gone, !.meas = meas]
  OBVIOUS
<1>3. e = WithoutFiles(d, gone)
  BY <1>1, <1>2 DEF WithoutFiles
<1>4. e.file = d.file \ gone /\ e.meas = meas /\ e.mq = d.mq
  BY <1>2 DEF DbInv, IsDb, Tables
<1>5. \A m \in d.meas : "file" \in DOMAIN m
  BY DEF DbInv, HasFields
<1>6. /\ \A x \in meas : x["file"] # 0 => x \in d.meas
      /\ \A m \in d.meas : m["file"] \notin Ids(gone) => m \in meas
  BY <1>1, <1>5, NulledRows
<1>7. OnceMeas(meas)
  BY <1>6 DEF Once, OnceMeas
<1> QED
  BY <1>3, <1>4, <1>6, <1>7 DEF Once

LEMMA WithoutQuantitiesOnce ==
  ASSUME NEW d, DbInv(d), Once(d), NEW gone
  PROVE  Once(WithoutQuantities(d, gone))
<1>1. PICK mq : mq = Nulled(d.mq, "quantity", Ids(gone))
  OBVIOUS
<1>2. PICK e : e = [d EXCEPT !.quantity = @ \ gone, !.mq = mq]
  OBVIOUS
<1>3. e = WithoutQuantities(d, gone) /\ e.meas = d.meas /\ e.mq = mq
  BY <1>1, <1>2 DEF WithoutQuantities, DbInv, IsDb, Tables
<1>4. OnceMq(mq)
  BY <1>1, NulledOnce DEF Once
<1> QED
  BY <1>3, <1>4 DEF Once

LEMMA WithoutUnitsOnce ==
  ASSUME NEW d, DbInv(d), Once(d), NEW gone
  PROVE  Once(WithoutUnits(d, gone))
<1>1. PICK mq, quantity : mq = Nulled(d.mq, "unit", Ids(gone)) /\ quantity = Nulled(d.quantity, "unit", Ids(gone))
  OBVIOUS
<1>2. PICK e : e = [d EXCEPT !.unit = @ \ gone, !.mq = mq, !.quantity = quantity]
  OBVIOUS
<1>3. e = WithoutUnits(d, gone) /\ e.meas = d.meas /\ e.mq = mq
  BY <1>1, <1>2 DEF WithoutUnits, DbInv, IsDb, Tables
<1>4. OnceMq(mq)
  BY <1>1, NulledOnce DEF Once
<1> QED
  BY <1>3, <1>4 DEF Once

LEMMA PlainDbOnce ==
  ASSUME NEW d, DbInv(d), Once(d)
  PROVE  Once(PlainDb(d))
<1>1. PICK file, mq, quantity, unit :
        /\ file = Unquoted(d.file) /\ mq = Unquoted(d.mq)
        /\ quantity = Unquoted(d.quantity) /\ unit = Unquoted(d.unit)
  OBVIOUS
<1>2. PICK e : e = [d EXCEPT !.file = file, !.mq = mq, !.quantity = quantity, !.unit = unit]
  OBVIOUS
<1>3. e = PlainDb(d) /\ e.meas = d.meas /\ e.mq = mq
  BY <1>1, <1>2 DEF PlainDb, DbInv, IsDb, Tables
<1>4. \A r \in d.mq : {"name", "meas", "samples"} \subseteq DOMAIN r
  BY DEF DbInv, HasFields
<1>5. OnceMq(mq)
  BY <1>1, <1>4, UnquotedOnce DEF Once
<1> QED
  BY <1>3, <1>5 DEF Once

LEMMA HasGroupLeft ==
  ASSUME NEW d, DbInv(d), Once(d), NEW gone, NEW file, file # 0, file \notin Ids(gone),
         NEW nr, NEW group, HasGroup(d, file, nr, group)
  PROVE  HasGroup(WithoutFiles(d, gone), file, nr, group)
<1>1. PICK e : e = WithoutFiles(d, gone)
  OBVIOUS
<1>2. /\ e.mq = d.mq
      /\ \A x \in e.meas : x.file # 0 => x \in d.meas
      /\ \A m \in d.meas : m.file \notin Ids(gone) => m \in e.meas
  BY <1>1, WithoutFilesOnce
<1>3. PICK m \in d.meas :
        /\ {r \in d.meas : r.file = file /\ r.nr = nr} = {m}
        /\ \A k \in DOMAIN group : HasChannel(d, m.id, group, group[k].name)
  BY DEF HasGroup
<1>4. m \in e.meas /\ {r \in e.meas : r.file = file /\ r.nr = nr} = {m}
  <2>1. m.file = file /\ m.nr = nr
    BY <1>3
  <2>2. m \in e.meas
    BY <1>2, <2>1
  <2>3. \A r \in e.meas : r.file = file /\ r.nr = nr => r = m
    BY <1>2, <1>3
  <2> QED
    BY <2>1, <2>2, <2>3
<1>5. \A k \in DOMAIN group : HasChannel(e, m.id, group, group[k].name)
  BY <1>2, <1>3 DEF HasChannel
<1> QED
  BY <1>1, <1>4, <1>5 DEF HasGroup

LEMMA DeleteDoes ==
  ASSUME NEW s, ScopeInv(s), Once(s.db), NEW had, had \subseteq s.db.file, NEW files
  PROVE  LET r == DeleteUnlisted(s, had, files)
         IN  /\ Once(r.db)
             /\ r.ok => /\ s.ok /\ NoneLost(s.db, r.db)
                        /\ \A f \in files : FileDone(s.db, f, had) => HasFile(r.db, f, disk[f])
<1>1. PICK gone : gone = {x \in had : x.name \notin {Plain(f) : f \in files}}
  OBVIOUS
<1>2. PICK count : count = s.count + Cardinality(gone)
  OBVIOUS
<1>3. PICK r : r = DeleteUnlisted(s, had, files)
  OBVIOUS
<1>4. CASE ~s.ok
  <2>1. r = s
    BY <1>3, <1>4 DEF DeleteUnlisted
  <2> QED
    BY <1>3, <1>4, <2>1
<1>5. CASE s.ok /\ s.broken \in (s.count + 1) .. count
  <2>1. r = [s EXCEPT !.count = count, !.ok = FALSE]
    BY <1>1, <1>2, <1>3, <1>5 DEF DeleteUnlisted
  <2>2. r.db = s.db /\ r.ok = FALSE
    BY <2>1 DEF ScopeInv, IsScope
  <2> QED
    BY <1>3, <2>2
<1>6. CASE s.ok /\ s.broken \notin (s.count + 1) .. count
  <2>1. PICK d : d = WithoutFiles(s.db, gone)
    OBVIOUS
  <2>2. r = [s EXCEPT !.count = count, !.db = d]
    BY <1>1, <1>2, <1>3, <1>6, <2>1 DEF DeleteUnlisted
  <2>3. r.db = d
    BY <2>2 DEF ScopeInv, IsScope
  <2>4. DbInv(s.db)
    BY DEF ScopeInv
  <2>5. Once(d) /\ d.file = s.db.file \ gone /\ d.mq = s.db.mq
    BY <2>1, <2>4, WithoutFilesOnce
  <2>6. NoneLost(s.db, d)
    BY <2>5 DEF NoneLost, Once, OnceMq
  <2>7. ASSUME NEW f \in files, FileDone(s.db, f, had)
        PROVE  HasFile(d, f, disk[f])
    <3>1. PICK row \in s.db.file :
            /\ row.name.text = f /\ (row.name = Plain(f) \/ row \notin had)
            /\ \A n \in DOMAIN disk[f] : HasGroup(s.db, row.id, n - 1, disk[f][n])
      BY <2>7 DEF FileDone
    <3>2. row \notin gone
      BY <1>1, <3>1
    <3>3. \A x, y \in s.db.file : x.id # 0 /\ (x.id = y.id => x = y)
      BY DEF ScopeInv, DbInv, KeysInv, Keys, Drawn, Tables
    <3>4. row.id # 0 /\ row.id \notin Ids(gone)
      BY <1>1, <3>2, <3>3 DEF Ids
    <3>5. \A n \in DOMAIN disk[f] : HasGroup(d, row.id, n - 1, disk[f][n])
      BY <2>1, <2>4, <3>1, <3>4, HasGroupLeft
    <3>6. row \in d.file
      BY <2>5, <3>2
    <3> QED
      BY <3>1, <3>5, <3>6 DEF HasFile
  <2> QED
    BY <1>3, <1>6, <2>3, <2>5, <2>6, <2>7
<1> QED
  BY <1>4, <1>5, <1>6

\* The whole scope.
LEMMA ImportDoes ==
  ASSUME DiskInv, NEW tables, DbInv(tables), Once(tables), NEW quantities, NEW units,
         ListsFit(tables, quantities, units), NEW files, NEW broken
  PROVE  LET r == Import(tables, quantities, units, files, broken)
         IN  /\ Once(r.db)
             /\ r.ok => /\ NoneLost(tables, r.db)
                        /\ \A f \in files \cap ToSet(Files) :
                             disk[f] # NoMdf => HasFile(r.db, f, disk[f])
<1>1. PICK s : s = Begun(tables, quantities, units, broken)
  OBVIOUS
<1>2. ScopeInv(s) /\ s.db = tables
  BY <1>1 DEF Begun, ScopeInv, IsScope, ListsFit
<1>3. PICK u : u = UpdateFiles(s, files)
  OBVIOUS
<1>4. ScopeInv(u)
  BY <1>2, <1>3, UpdateFilesFacts DEF Leads
<1>5. FilesDone(s, u, files)
  BY <1>2, <1>3, FilesDoes
<1>6. PICK r : r = DeleteUnlisted(u, tables.file, files)
  OBVIOUS
<1>7. Once(u.db) /\ tables.file \subseteq u.db.file
  BY <1>2, <1>5 DEF FilesDone
<1>8. /\ Once(r.db)
      /\ r.ok => /\ u.ok /\ NoneLost(u.db, r.db)
                 /\ \A f \in files : FileDone(u.db, f, tables.file) => HasFile(r.db, f, disk[f])
  BY <1>4, <1>6, <1>7, DeleteDoes
<1>9. r.ok => NoneLost(tables, r.db)
  BY <1>2, <1>5, <1>7, <1>8, NoneLostOn DEF FilesDone, Once
<1>10. ASSUME r.ok, NEW f \in files \cap ToSet(Files), disk[f] # NoMdf
       PROVE  HasFile(r.db, f, disk[f])
  BY <1>2, <1>5, <1>8, <1>10 DEF FilesDone
<1>11. r = Import(tables, quantities, units, files, broken)
  BY <1>1, <1>3, <1>6 DEF Import
<1> QED
  BY <1>8, <1>9, <1>10, <1>11

-----------------------------------------------------------------------------
(***************************************************************************)
(* The invariant, and the steps.                                           *)
(***************************************************************************)
LEMMA InitOnce == Init => Once(db)
<1> SUFFICES ASSUME Init PROVE Once(db)
  OBVIOUS
<1>1. DiskInv
  BY DEF Init, DiskInv
<1>2. PICK files : db = PlainDb(Import(NewDb, {}, {}, files, 0).db)
  BY DEF Init
<1>3. PICK d : d = Import(NewDb, {}, {}, files, 0).db
  OBVIOUS
<1>4. Once(NewDb)
  BY DEF NewDb, Once, OnceMeas, OnceMq
<1>5. DbInv(d) /\ Once(d)
  BY <1>1, <1>3, <1>4, NewDbInv, ImportFacts, ImportDoes
<1> QED
  BY <1>2, <1>3, <1>5, PlainDbOnce

LEMMA OtherProgramOnce ==
  ASSUME Inv, Once(db), OtherProgram
  PROVE  Once(db')
<1>1. DbInv(db)
  BY DEF Inv
<1>2. ASSUME NEW t \in {"unit", "quantity"}, NEW row, db' = WithRow(db, t, row)
      PROVE  Once(db')
  <2>1. \A u \in Tables : u # t => db'[u] = db[u]
    BY <1>1, <1>2, WithRowFacts DEF DbInv, Tables
  <2> QED
    BY <2>1 DEF Once, Tables
<1>3. CASE \E t \in {"unit", "quantity"} : \E row : db' = WithRow(db, t, row)
  BY <1>2, <1>3
<1>4. CASE \E r : \/ db' = WithoutQuantities(db, {r}) \/ db' = WithoutUnits(db, {r})
                  \/ db' = WithoutFiles(db, {r})
  BY <1>1, <1>4, WithoutQuantitiesOnce, WithoutUnitsOnce, WithoutFilesOnce
<1> QED
  BY <1>3, <1>4 DEF OtherProgram

\* Either the tables stay or they are those of a scope in which all went well;
\* and it is only said of the second that the files are stored.
LEMMA UpdateMeasFileDoes ==
  ASSUME Inv, Once(db), UpdateMeasFile
  PROVE  /\ Once(db')
         /\ told' = "stored" =>
              /\ NoneLost(db, db')
              /\ \A f \in updated' : disk'[f] # NoMdf => HasFile(db', f, disk'[f])
<1> DEFINE Scope(files, n) == Import(db, quantity_list, unit_list, files, n)
           End(r) == /\ EndCycle(IF r.ok THEN "stored" ELSE "failed")
                     /\ db' = IF r.ok THEN r.db ELSE db
<1>1. PICK files \in SUBSET ToSet(Files) :
        /\ updated' = files
        /\ \E whole \in {Scope(files, 0)} :
             \/ End(whole) /\ UNCHANGED left
             \/ whole.ok /\ Fails("commit") /\ EndCycle("lost") /\ UNCHANGED db
             \/ Fails("statement") /\ EndCycle("failed") /\ UNCHANGED db
             \/ Fails("statement") /\ \E r \in {Scope(files, n) : n \in 1 .. whole.count} : End(r)
  BY DEF UpdateMeasFile
<1>2. ASSUME NEW n
      PROVE  /\ Once(Scope(files, n).db)
             /\ Scope(files, n).ok =>
                  /\ NoneLost(db, Scope(files, n).db)
                  /\ \A f \in files : disk[f] # NoMdf => HasFile(Scope(files, n).db, f, disk[f])
  <2>1. files \cap ToSet(Files) = files
    OBVIOUS
  <2> QED
    BY <2>1, ImportDoes DEF Inv
<1> HIDE DEF Scope
<1>3. disk' = disk
  BY DEF UpdateMeasFile
<1>4. ASSUME NEW n, End(Scope(files, n))
      PROVE  /\ Once(db')
             /\ told' = "stored" =>
                  /\ NoneLost(db, db')
                  /\ \A f \in updated' : disk'[f] # NoMdf => HasFile(db', f, disk'[f])
  <2>1. CASE Scope(files, n).ok
    <3>1. db' = Scope(files, n).db
      BY <1>4, <2>1
    <3> QED
      BY <1>1, <1>2, <1>3, <2>1, <3>1
  <2>2. CASE ~Scope(files, n).ok
    BY <1>4, <2>2 DEF EndCycle
  <2> QED
    BY <2>1, <2>2
<1>5. ASSUME EndCycle("lost") \/ EndCycle("failed"), UNCHANGED db
      PROVE  Once(db') /\ told' # "stored"
  BY <1>5 DEF EndCycle
<1> HIDE DEF End
<1>6. CASE \E n : End(Scope(files, n))
  BY <1>4, <1>6
<1>7. CASE (EndCycle("lost") \/ EndCycle("failed")) /\ UNCHANGED db
  BY <1>5, <1>7
<1> QED
  BY <1>1, <1>6, <1>7

\* An UpdateMeasFile that has returned true and is committed leaves of every
\* file that can be read all measurements and MQs, for any files, contents,
\* other programs and faults; and no MQ is lost, nor any of its samples.
THEOREM ImportIsComplete == Spec => ImportedCompletely
<1> DEFINE Safe == Inv /\ Once(db)
           Complete == pc = "update" /\ pc' = "idle" /\ told' = "stored" =>
                         /\ NoneLost(db, db')
                         /\ \A f \in updated' : disk'[f] # NoMdf => HasFile(db', f, disk'[f])
<1>1. Init => Safe
  BY InitInv, InitOnce
<1>2. Safe /\ [Next]_vars => Safe'
  <2> SUFFICES ASSUME Inv, Once(db), [Next]_vars PROVE Once(db')
    BY NextInv
  <2>1. CASE UNCHANGED db
    BY <2>1
  <2>2. CASE OtherProgram
    BY <2>2, OtherProgramOnce
  <2>3. CASE UpdateMeasFile
    BY <2>3, UpdateMeasFileDoes
  <2> QED
    BY <2>1, <2>2, <2>3 DEF Next, WriteFile, FetchFromDb, Crash, vars
<1>3. Safe /\ [Next]_vars => [Complete]_vars
  <2> SUFFICES ASSUME Inv, Once(db), [Next]_vars PROVE Complete \/ UNCHANGED vars
    OBVIOUS
  <2>1. CASE UpdateMeasFile
    BY <2>1, UpdateMeasFileDoes
  <2>2. CASE pc' = pc \/ told' = "none" \/ pc' = "update"
    BY <2>2
  <2> QED
    BY <2>1, <2>2 DEF Next, WriteFile, OtherProgram, FetchFromDb, Crash, EndCycle
<1> QED
  BY <1>1, <1>2, <1>3, PTL DEF Spec, ImportedCompletely
=============================================================================
