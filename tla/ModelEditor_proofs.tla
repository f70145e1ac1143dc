-------------------------- MODULE ModelEditor_proofs --------------------------
(***************************************************************************)
(* A document of the ODS Configurator: its tables stay a tree of numbered  *)
(* tables, however they are edited, imported, saved and opened; they come  *)
(* back from a file; a pasted tree is a copy; and what was last saved is   *)
(* on disk.                                                                *)
(***************************************************************************)
EXTENDS ModelEditor, ModelTables_proofs

-----------------------------------------------------------------------------
(***************************************************************************)
(* The model of an ATFX file: the rounds of the import, step by step.      *)
(***************************************************************************)
\* The attributes of an element, one after the other.
Described(t, attrs) ==
  LET after[n \in 0..Len(attrs)] == IF n = 0 THEN t ELSE ImportAttribute(after[n - 1], attrs[n])
  IN  after[Len(attrs)]

LEMMA DescribedSteps ==
  ASSUME NEW t, NEW attrs, Len(attrs) \in Nat
  PROVE  \E after : /\ after[0] = t /\ after[Len(attrs)] = Described(t, attrs)
                    /\ \A n \in 1 .. Len(attrs) : after[n] = ImportAttribute(after[n - 1], attrs[n])
<1>1. PICK first : first = t
  OBVIOUS
<1>2. PICK N \in Nat : N = Len(attrs)
  OBVIOUS
<1> DEFINE after == CHOOSE f : f = [n \in 0 .. N |-> IF n = 0 THEN first ELSE ImportAttribute(f[n - 1], attrs[n])]
           Holds(f, k) == f[0] = first /\ \A n \in 1 .. k : f[n] = ImportAttribute(f[n - 1], attrs[n])
           T == {k \in 0 .. N : \E f : Holds(f, k)}
<1>3. 0 \in T
  <2>1. PICK f : f = [n \in 0 .. 0 |-> first]
    OBVIOUS
  <2>2. Holds(f, 0)
    BY <2>1
  <2> QED
    BY <2>2, <1>2
<1>4. ASSUME NEW k \in 0 .. N, k + 1 \in 0 .. N, k \in T
      PROVE  k + 1 \in T
  <2>1. PICK f : Holds(f, k)
    BY <1>4
  <2>2. PICK x : x = ImportAttribute(f[k], attrs[k + 1])
    OBVIOUS
  <2>3. k \in Nat
    BY <1>2
  <2>4. PICK g : g = [n \in 0 .. (k + 1) |-> IF n = k + 1 THEN x ELSE f[n]]
    OBVIOUS
  <2>5. g[k + 1] = x /\ \A n \in 0 .. k : g[n] = f[n]
    BY <2>3, <2>4
  <2>6. ASSUME NEW n \in 1 .. (k + 1)
        PROVE  g[n] = ImportAttribute(g[n - 1], attrs[n])
    <3>1. g[n - 1] = f[n - 1]
      BY <2>3, <2>5
    <3>2. n = k + 1 \/ n \in 1 .. k
      BY <2>3
    <3>3. n = k + 1 => n - 1 = k
      BY <2>3
    <3>4. n \in 1 .. k => g[n] = f[n]
      BY <2>3, <2>5
    <3> QED
      BY <2>1, <2>2, <2>5, <3>1, <3>2, <3>3, <3>4
  <2>7. Holds(g, k + 1)
    BY <2>1, <2>3, <2>5, <2>6
  <2> QED
    BY <1>4, <2>7
<1>5. PICK f : Holds(f, N)
  <2>1. 0 .. N \subseteq T
    <3> HIDE DEF T
    <3> QED
      BY <1>2, <1>3, <1>4, UpTo
  <2> QED
    BY <1>2, <2>1
<1>6. PICK g : g = [n \in 0 .. N |-> f[n]]
  OBVIOUS
<1>7. g = [n \in 0 .. N |-> IF n = 0 THEN first ELSE ImportAttribute(g[n - 1], attrs[n])]
  <2>1. ASSUME NEW n \in 0 .. N, n # 0
        PROVE  g[n] = ImportAttribute(g[n - 1], attrs[n])
    <3>1. n \in 1 .. N /\ n - 1 \in 0 .. N
      BY <1>2, <2>1
    <3> QED
      BY <1>5, <1>6, <3>1
  <2>2. g[0] = first
    BY <1>2, <1>5, <1>6
  <2> QED
    BY <1>6, <2>1, <2>2
<1>8. after = [n \in 0 .. N |-> IF n = 0 THEN first ELSE ImportAttribute(after[n - 1], attrs[n])]
  BY <1>7
<1> HIDE DEF after
<1>9. after[0] = first /\ \A n \in 1 .. N : after[n] = ImportAttribute(after[n - 1], attrs[n])
  <2>1. 0 \in 0 .. N /\ \A n \in 1 .. N : n \in 0 .. N /\ n # 0
    BY <1>2
  <2> QED
    BY <1>8, <2>1
<1>10. Described(t, attrs) = after[N]
  BY <1>1, <1>2 DEF Described, after
<1> QED
  BY <1>1, <1>2, <1>9, <1>10

\* Its relations.
Related(m, t, relations) ==
  LET after[n \in 0..Len(relations)] == IF n = 0 THEN t ELSE ImportRelation(m, after[n - 1], relations[n])
  IN  after[Len(relations)]

LEMMA RelatedSteps ==
  ASSUME NEW m, NEW t, NEW relations, Len(relations) \in Nat
  PROVE  \E after : /\ after[0] = t /\ after[Len(relations)] = Related(m, t, relations)
                    /\ \A n \in 1 .. Len(relations) : after[n] = ImportRelation(m, after[n - 1], relations[n])
<1>1. PICK first : first = t
  OBVIOUS
<1>2. PICK N \in Nat : N = Len(relations)
  OBVIOUS
<1> DEFINE after == CHOOSE f : f = [n \in 0 .. N |-> IF n = 0 THEN first ELSE ImportRelation(m, f[n - 1], relations[n])]
           Holds(f, k) == f[0] = first /\ \A n \in 1 .. k : f[n] = ImportRelation(m, f[n - 1], relations[n])
           T == {k \in 0 .. N : \E f : Holds(f, k)}
<1>3. 0 \in T
  <2>1. PICK f : f = [n \in 0 .. 0 |-> first]
    OBVIOUS
  <2>2. Holds(f, 0)
    BY <2>1
  <2> QED
    BY <2>2, <1>2
<1>4. ASSUME NEW k \in 0 .. N, k + 1 \in 0 .. N, k \in T
      PROVE  k + 1 \in T
  <2>1. PICK f : Holds(f, k)
    BY <1>4
  <2>2. PICK x : x = ImportRelation(m, f[k], relations[k + 1])
    OBVIOUS
  <2>3. k \in Nat
    BY <1>2
  <2>4. PICK g : g = [n \in 0 .. (k + 1) |-> IF n = k + 1 THEN x ELSE f[n]]
    OBVIOUS
  <2>5. g[k + 1] = x /\ \A n \in 0 .. k : g[n] = f[n]
    BY <2>3, <2>4
  <2>6. ASSUME NEW n \in 1 .. (k + 1)
        PROVE  g[n] = ImportRelation(m, g[n - 1], relations[n])
    <3>1. g[n - 1] = f[n - 1]
      BY <2>3, <2>5
    <3>2. n = k + 1 \/ n \in 1 .. k
      BY <2>3
    <3>3. n = k + 1 => n - 1 = k
      BY <2>3
    <3>4. n \in 1 .. k => g[n] = f[n]
      BY <2>3, <2>5
    <3> QED
      BY <2>1, <2>2, <2>5, <3>1, <3>2, <3>3, <3>4
  <2>7. Holds(g, k + 1)
    BY <2>1, <2>3, <2>5, <2>6
  <2> QED
    BY <1>4, <2>7
<1>5. PICK f : Holds(f, N)
  <2>1. 0 .. N \subseteq T
    <3> HIDE DEF T
    <3> QED
      BY <1>2, <1>3, <1>4, UpTo
  <2> QED
    BY <1>2, <2>1
<1>6. PICK g : g = [n \in 0 .. N |-> f[n]]
  OBVIOUS
<1>7. g = [n \in 0 .. N |-> IF n = 0 THEN first ELSE ImportRelation(m, g[n - 1], relations[n])]
  <2>1. ASSUME NEW n \in 0 .. N, n # 0
        PROVE  g[n] = ImportRelation(m, g[n - 1], relations[n])
    <3>1. n \in 1 .. N /\ n - 1 \in 0 .. N
      BY <1>2, <2>1
    <3> QED
      BY <1>5, <1>6, <3>1
  <2>2. g[0] = first
    BY <1>2, <1>5, <1>6
  <2> QED
    BY <1>6, <2>1, <2>2
<1>8. after = [n \in 0 .. N |-> IF n = 0 THEN first ELSE ImportRelation(m, after[n - 1], relations[n])]
  BY <1>7
<1> HIDE DEF after
<1>9. after[0] = first /\ \A n \in 1 .. N : after[n] = ImportRelation(m, after[n - 1], relations[n])
  <2>1. 0 \in 0 .. N /\ \A n \in 1 .. N : n \in 0 .. N /\ n # 0
    BY <1>2
  <2> QED
    BY <1>8, <2>1
<1>10. Related(m, t, relations) = after[N]
  BY <1>1, <1>2 DEF Related, after
<1> QED
  BY <1>1, <1>2, <1>9, <1>10

\* The second round, for the table of one element.
FixedTable(m, i, relations) ==
  LET after[n \in 0..Len(relations)] == IF n = 0 THEN m ELSE FixRelation(after[n - 1], i, relations[n])
  IN  after[Len(relations)]

IsFixing(after, m, i, relations) ==
  /\ after[0] = m /\ after[Len(relations)] = FixedTable(m, i, relations)
  /\ \A n \in 1 .. Len(relations) : after[n] = FixRelation(after[n - 1], i, relations[n])

LEMMA FixedSteps ==
  ASSUME NEW m, NEW i, NEW relations, Len(relations) \in Nat
  PROVE  \E after : IsFixing(after, m, i, relations)
<1>1. PICK first : first = m
  OBVIOUS
<1>2. PICK N \in Nat : N = Len(relations)
  OBVIOUS
<1> DEFINE after == CHOOSE f : f = [n \in 0 .. N |-> IF n = 0 THEN first ELSE FixRelation(f[n - 1], i, relations[n])]
           Holds(f, k) == f[0] = first /\ \A n \in 1 .. k : f[n] = FixRelation(f[n - 1], i, relations[n])
           T == {k \in 0 .. N : \E f : Holds(f, k)}
<1>3. 0 \in T
  <2>1. PICK f : f = [n \in 0 .. 0 |-> first]
    OBVIOUS
  <2>2. Holds(f, 0)
    BY <2>1
  <2> QED
    BY <2>2, <1>2
<1>4. ASSUME NEW k \in 0 .. N, k + 1 \in 0 .. N, k \in T
      PROVE  k + 1 \in T
  <2>1. PICK f : Holds(f, k)
    BY <1>4
  <2>2. PICK x : x = FixRelation(f[k], i, relations[k + 1])
    OBVIOUS
  <2>3. k \in Nat
    BY <1>2
  <2>4. PICK g : g = [n \in 0 .. (k + 1) |-> IF n = k + 1 THEN x ELSE f[n]]
    OBVIOUS
  <2>5. g[k + 1] = x /\ \A n \in 0 .. k : g[n] = f[n]
    BY <2>3, <2>4
  <2>6. ASSUME NEW n \in 1 .. (k + 1)
        PROVE  g[n] = FixRelation(g[n - 1], i, relations[n])
    <3>1. g[n - 1] = f[n - 1]
      BY <2>3, <2>5
    <3>2. n = k + 1 \/ n \in 1 .. k
      BY <2>3
    <3>3. n = k + 1 => n - 1 = k
      BY <2>3
    <3>4. n \in 1 .. k => g[n] = f[n]
      BY <2>3, <2>5
    <3> QED
      BY <2>1, <2>2, <2>5, <3>1, <3>2, <3>3, <3>4
  <2>7. Holds(g, k + 1)
    BY <2>1, <2>3, <2>5, <2>6
  <2> QED
    BY <1>4, <2>7
<1>5. PICK f : Holds(f, N)
  <2>1. 0 .. N \subseteq T
    <3> HIDE DEF T
    <3> QED
      BY <1>2, <1>3, <1>4, UpTo
  <2> QED
    BY <1>2, <2>1
<1>6. PICK g : g = [n \in 0 .. N |-> f[n]]
  OBVIOUS
<1>7. g = [n \in 0 .. N |-> IF n = 0 THEN first ELSE FixRelation(g[n - 1], i, relations[n])]
  <2>1. ASSUME NEW n \in 0 .. N, n # 0
        PROVE  g[n] = FixRelation(g[n - 1], i, relations[n])
    <3>1. n \in 1 .. N /\ n - 1 \in 0 .. N
      BY <1>2, <2>1
    <3> QED
      BY <1>5, <1>6, <3>1
  <2>2. g[0] = first
    BY <1>2, <1>5, <1>6
  <2> QED
    BY <1>6, <2>1, <2>2
<1>8. after = [n \in 0 .. N |-> IF n = 0 THEN first ELSE FixRelation(after[n - 1], i, relations[n])]
  BY <1>7
<1> HIDE DEF after
<1>9. after[0] = first /\ \A n \in 1 .. N : after[n] = FixRelation(after[n - 1], i, relations[n])
  <2>1. 0 \in 0 .. N /\ \A n \in 1 .. N : n \in 0 .. N /\ n # 0
    BY <1>2
  <2> QED
    BY <1>8, <2>1
<1>10. FixedTable(m, i, relations) = after[N]
  BY <1>1, <1>2 DEF FixedTable, after
<1>11. IsFixing(after, m, i, relations)
  BY <1>1, <1>2, <1>9, <1>10 DEF IsFixing
<1> QED
  BY <1>11

\* The enumerates of a file, its elements, and the second round.
WithEnums(m, enums) ==
  LET after[n \in 0..Len(enums)] == IF n = 0 THEN m ELSE ImportEnum(after[n - 1], enums[n])
  IN  after[Len(enums)]

LEMMA EnumSteps ==
  ASSUME NEW m, NEW enums, Len(enums) \in Nat
  PROVE  \E after : /\ after[0] = m /\ after[Len(enums)] = WithEnums(m, enums)
                    /\ \A n \in 1 .. Len(enums) : after[n] = ImportEnum(after[n - 1], enums[n])
<1>1. PICK first : first = m
  OBVIOUS
<1>2. PICK N \in Nat : N = Len(enums)
  OBVIOUS
<1> DEFINE after == CHOOSE f : f = [n \in 0 .. N |-> IF n = 0 THEN first ELSE ImportEnum(f[n - 1], enums[n])]
           Holds(f, k) == f[0] = first /\ \A n \in 1 .. k : f[n] = ImportEnum(f[n - 1], enums[n])
           T == {k \in 0 .. N : \E f : Holds(f, k)}
<1>3. 0 \in T
  <2>1. PICK f : f = [n \in 0 .. 0 |-> first]
    OBVIOUS
  <2>2. Holds(f, 0)
    BY <2>1
  <2> QED
    BY <2>2, <1>2
<1>4. ASSUME NEW k \in 0 .. N, k + 1 \in 0 .. N, k \in T
      PROVE  k + 1 \in T
  <2>1. PICK f : Holds(f, k)
    BY <1>4
  <2>2. PICK x : x = ImportEnum(f[k], enums[k + 1])
    OBVIOUS
  <2>3. k \in Nat
    BY <1>2
  <2>4. PICK g : g = [n \in 0 .. (k + 1) |-> IF n = k + 1 THEN x ELSE f[n]]
    OBVIOUS
  <2>5. g[k + 1] = x /\ \A n \in 0 .. k : g[n] = f[n]
    BY <2>3, <2>4
  <2>6. ASSUME NEW n \in 1 .. (k + 1)
        PROVE  g[n] = ImportEnum(g[n - 1], enums[n])
    <3>1. g[n - 1] = f[n - 1]
      BY <2>3, <2>5
    <3>2. n = k + 1 \/ n \in 1 .. k
      BY <2>3
    <3>3. n = k + 1 => n - 1 = k
      BY <2>3
    <3>4. n \in 1 .. k => g[n] = f[n]
      BY <2>3, <2>5
    <3> QED
      BY <2>1, <2>2, <2>5, <3>1, <3>2, <3>3, <3>4
  <2>7. Holds(g, k + 1)
    BY <2>1, <2>3, <2>5, <2>6
  <2> QED
    BY <1>4, <2>7
<1>5. PICK f : Holds(f, N)
  <2>1. 0 .. N \subseteq T
    <3> HIDE DEF T
    <3> QED
      BY <1>2, <1>3, <1>4, UpTo
  <2> QED
    BY <1>2, <2>1
<1>6. PICK g : g = [n \in 0 .. N |-> f[n]]
  OBVIOUS
<1>7. g = [n \in 0 .. N |-> IF n = 0 THEN first ELSE ImportEnum(g[n - 1], enums[n])]
  <2>1. ASSUME NEW n \in 0 .. N, n # 0
        PROVE  g[n] = ImportEnum(g[n - 1], enums[n])
    <3>1. n \in 1 .. N /\ n - 1 \in 0 .. N
      BY <1>2, <2>1
    <3> QED
      BY <1>5, <1>6, <3>1
  <2>2. g[0] = first
    BY <1>2, <1>5, <1>6
  <2> QED
    BY <1>6, <2>1, <2>2
<1>8. after = [n \in 0 .. N |-> IF n = 0 THEN first ELSE ImportEnum(after[n - 1], enums[n])]
  BY <1>7
<1> HIDE DEF after
<1>9. after[0] = first /\ \A n \in 1 .. N : after[n] = ImportEnum(after[n - 1], enums[n])
  <2>1. 0 \in 0 .. N /\ \A n \in 1 .. N : n \in 0 .. N /\ n # 0
    BY <1>2
  <2> QED
    BY <1>8, <2>1
<1>10. WithEnums(m, enums) = after[N]
  BY <1>1, <1>2 DEF WithEnums, after
<1> QED
  BY <1>1, <1>2, <1>9, <1>10

WithElements(m, elements) ==
  LET after[n \in 0..Len(elements)] == IF n = 0 THEN m ELSE ImportElement(after[n - 1], elements[n])
  IN  after[Len(elements)]

LEMMA ElementSteps ==
  ASSUME NEW m, NEW elements, Len(elements) \in Nat
  PROVE  \E after : /\ after[0] = m /\ after[Len(elements)] = WithElements(m, elements)
                    /\ \A n \in 1 .. Len(elements) : after[n] = ImportElement(after[n - 1], elements[n])
<1>1. PICK first : first = m
  OBVIOUS
<1>2. PICK N \in Nat : N = Len(elements)
  OBVIOUS
<1> DEFINE after == CHOOSE f : f = [n \in 0 .. N |-> IF n = 0 THEN first ELSE ImportElement(f[n - 1], elements[n])]
           Holds(f, k) == f[0] = first /\ \A n \in 1 .. k : f[n] = ImportElement(f[n - 1], elements[n])
           T == {k \in 0 .. N : \E f : Holds(f, k)}
<1>3. 0 \in T
  <2>1. PICK f : f = [n \in 0 .. 0 |-> first]
    OBVIOUS
  <2>2. Holds(f, 0)
    BY <2>1
  <2> QED
    BY <2>2, <1>2
<1>4. ASSUME NEW k \in 0 .. N, k + 1 \in 0 .. N, k \in T
      PROVE  k + 1 \in T
  <2>1. PICK f : Holds(f, k)
    BY <1>4
  <2>2. PICK x : x = ImportElement(f[k], elements[k + 1])
    OBVIOUS
  <2>3. k \in Nat
    BY <1>2
  <2>4. PICK g : g = [n \in 0 .. (k + 1) |-> IF n = k + 1 THEN x ELSE f[n]]
    OBVIOUS
  <2>5. g[k + 1] = x /\ \A n \in 0 .. k : g[n] = f[n]
    BY <2>3, <2>4
  <2>6. ASSUME NEW n \in 1 .. (k + 1)
        PROVE  g[n] = ImportElement(g[n - 1], elements[n])
    <3>1. g[n - 1] = f[n - 1]
      BY <2>3, <2>5
    <3>2. n = k + 1 \/ n \in 1 .. k
      BY <2>3
    <3>3. n = k + 1 => n - 1 = k
      BY <2>3
    <3>4. n \in 1 .. k => g[n] = f[n]
      BY <2>3, <2>5
    <3> QED
      BY <2>1, <2>2, <2>5, <3>1, <3>2, <3>3, <3>4
  <2>7. Holds(g, k + 1)
    BY <2>1, <2>3, <2>5, <2>6
  <2> QED
    BY <1>4, <2>7
<1>5. PICK f : Holds(f, N)
  <2>1. 0 .. N \subseteq T
    <3> HIDE DEF T
    <3> QED
      BY <1>2, <1>3, <1>4, UpTo
  <2> QED
    BY <1>2, <2>1
<1>6. PICK g : g = [n \in 0 .. N |-> f[n]]
  OBVIOUS
<1>7. g = [n \in 0 .. N |-> IF n = 0 THEN first ELSE ImportElement(g[n - 1], elements[n])]
  <2>1. ASSUME NEW n \in 0 .. N, n # 0
        PROVE  g[n] = ImportElement(g[n - 1], elements[n])
    <3>1. n \in 1 .. N /\ n - 1 \in 0 .. N
      BY <1>2, <2>1
    <3> QED
      BY <1>5, <1>6, <3>1
  <2>2. g[0] = first
    BY <1>2, <1>5, <1>6
  <2> QED
    BY <1>6, <2>1, <2>2
<1>8. after = [n \in 0 .. N |-> IF n = 0 THEN first ELSE ImportElement(after[n - 1], elements[n])]
  BY <1>7
<1> HIDE DEF after
<1>9. after[0] = first /\ \A n \in 1 .. N : after[n] = ImportElement(after[n - 1], elements[n])
  <2>1. 0 \in 0 .. N /\ \A n \in 1 .. N : n \in 0 .. N /\ n # 0
    BY <1>2
  <2> QED
    BY <1>8, <2>1
<1>10. WithElements(m, elements) = after[N]
  BY <1>1, <1>2 DEF WithElements, after
<1> QED
  BY <1>1, <1>2, <1>9, <1>10

WithFixes(m, elements) ==
  LET after[n \in 0..Len(elements)] == IF n = 0 THEN m ELSE FixTableRelations(after[n - 1], elements[n])
  IN  after[Len(elements)]

LEMMA FixSteps ==
  ASSUME NEW m, NEW elements, Len(elements) \in Nat
  PROVE  \E after : /\ after[0] = m /\ after[Len(elements)] = WithFixes(m, elements)
                    /\ \A n \in 1 .. Len(elements) : after[n] = FixTableRelations(after[n - 1], elements[n])
<1>1. PICK first : first = m
  OBVIOUS
<1>2. PICK N \in Nat : N = Len(elements)
  OBVIOUS
<1> DEFINE after == CHOOSE f : f = [n \in 0 .. N |-> IF n = 0 THEN first ELSE FixTableRelations(f[n - 1], elements[n])]
           Holds(f, k) == f[0] = first /\ \A n \in 1 .. k : f[n] = FixTableRelations(f[n - 1], elements[n])
           T == {k \in 0 .. N : \E f : Holds(f, k)}
<1>3. 0 \in T
  <2>1. PICK f : f = [n \in 0 .. 0 |-> first]
    OBVIOUS
  <2>2. Holds(f, 0)
    BY <2>1
  <2> QED
    BY <2>2, <1>2
<1>4. ASSUME NEW k \in 0 .. N, k + 1 \in 0 .. N, k \in T
      PROVE  k + 1 \in T
  <2>1. PICK f : Holds(f, k)
    BY <1>4
  <2>2. PICK x : x = FixTableRelations(f[k], elements[k + 1])
    OBVIOUS
  <2>3. k \in Nat
    BY <1>2
  <2>4. PICK g : g = [n \in 0 .. (k + 1) |-> IF n = k + 1 THEN x ELSE f[n]]
    OBVIOUS
  <2>5. g[k + 1] = x /\ \A n \in 0 .. k : g[n] = f[n]
    BY <2>3, <2>4
  <2>6. ASSUME NEW n \in 1 .. (k + 1)
        PROVE  g[n] = FixTableRelations(g[n - 1], elements[n])
    <3>1. g[n - 1] = f[n - 1]
      BY <2>3, <2>5
    <3>2. n = k + 1 \/ n \in 1 .. k
      BY <2>3
    <3>3. n = k + 1 => n - 1 = k
      BY <2>3
    <3>4. n \in 1 .. k => g[n] = f[n]
      BY <2>3, <2>5
    <3> QED
      BY <2>1, <2>2, <2>5, <3>1, <3>2, <3>3, <3>4
  <2>7. Holds(g, k + 1)
    BY <2>1, <2>3, <2>5, <2>6
  <2> QED
    BY <1>4, <2>7
<1>5. PICK f : Holds(f, N)
  <2>1. 0 .. N \subseteq T
    <3> HIDE DEF T
    <3> QED
      BY <1>2, <1>3, <1>4, UpTo
  <2> QED
    BY <1>2, <2>1
<1>6. PICK g : g = [n \in 0 .. N |-> f[n]]
  OBVIOUS
<1>7. g = [n \in 0 .. N |-> IF n = 0 THEN first ELSE FixTableRelations(g[n - 1], elements[n])]
  <2>1. ASSUME NEW n \in 0 .. N, n # 0
        PROVE  g[n] = FixTableRelations(g[n - 1], elements[n])
    <3>1. n \in 1 .. N /\ n - 1 \in 0 .. N
      BY <1>2, <2>1
    <3> QED
      BY <1>5, <1>6, <3>1
  <2>2. g[0] = first
    BY <1>2, <1>5, <1>6
  <2> QED
    BY <1>6, <2>1, <2>2
<1>8. after = [n \in 0 .. N |-> IF n = 0 THEN first ELSE FixTableRelations(after[n - 1], elements[n])]
  BY <1>7
<1> HIDE DEF after
<1>9. after[0] = first /\ \A n \in 1 .. N : after[n] = FixTableRelations(after[n - 1], elements[n])
  <2>1. 0 \in 0 .. N /\ \A n \in 1 .. N : n \in 0 .. N /\ n # 0
    BY <1>2
  <2> QED
    BY <1>8, <2>1
<1>10. WithFixes(m, elements) = after[N]
  BY <1>1, <1>2 DEF WithFixes, after
<1> QED
  BY <1>1, <1>2, <1>9, <1>10

-----------------------------------------------------------------------------
(***************************************************************************)
(* ... and what its tables refer to: other tables, or none.                *)
(***************************************************************************)
AreColumns(cols) ==
  /\ IsList(cols)
  /\ \A n \in 1 .. Len(cols) : "ref" \in DOMAIN cols[n] /\ cols[n].ref \in Nat

LEMMA WithColumns ==
  ASSUME NEW t, Numbered(t), NEW cols, AreColumns(cols)
  PROVE  LET u == [t EXCEPT !.columns = cols]
         IN  Numbered(u) /\ u.at = t.at /\ u.name = t.name /\ u.parent = t.parent
<1>1. PICK u : u = [t EXCEPT !.columns = cols]
  OBVIOUS
<1>2. {"name", "at", "parent", "columns"} \subseteq DOMAIN t
  BY DEF Numbered, HasColumns
<1>3. DOMAIN u = DOMAIN t /\ u.columns = cols /\ u.at = t.at /\ u.name = t.name /\ u.parent = t.parent
  BY <1>1, <1>2
<1>4. Numbered(u)
  BY <1>2, <1>3 DEF Numbered, HasColumns, AreColumns
<1> QED
  BY <1>1, <1>3, <1>4

LEMMA OneColumnMore ==
  ASSUME NEW cols, AreColumns(cols), NEW c, "ref" \in DOMAIN c, c.ref \in Nat
  PROVE  AreColumns(Append(cols, c))
<1>1. PICK C : C = {cols[n] : n \in 1 .. Len(cols)} \cup {c}
  OBVIOUS
<1>2. \A d \in C : "ref" \in DOMAIN d /\ d.ref \in Nat
  BY <1>1 DEF AreColumns
<1>3. cols \in Seq(C)
  BY <1>1, ListIsSeq DEF AreColumns
<1>4. Append(cols, c) \in Seq(C)
  BY <1>1, <1>3
<1> QED
  BY <1>2, <1>4, ListIsSeq DEF AreColumns

LEMMA ColumnIsAppended ==
  ASSUME NEW t, Numbered(t), NEW c, "ref" \in DOMAIN c, c.ref \in Nat
  PROVE  LET u == [t EXCEPT !.columns = Append(@, c)]
         IN  Numbered(u) /\ u.at = t.at /\ u.name = t.name /\ u.parent = t.parent
<1>1. PICK cols : cols = Append(t.columns, c)
  OBVIOUS
<1>2. AreColumns(cols)
  <2>1. AreColumns(t.columns)
    BY DEF Numbered, HasColumns, AreColumns
  <2> QED
    BY <1>1, <2>1, OneColumnMore
<1>3. [t EXCEPT !.columns = Append(@, c)] = [t EXCEPT !.columns = cols]
  BY <1>1
<1> QED
  BY <1>2, <1>3, WithColumns

LEMMA DefaultColumn ==
  ASSUME NEW name, NEW base
  PROVE  LET c == CreateDefaultColumn(name, base)
         IN  {"ref", "enum", "unit", "flags"} \subseteq DOMAIN c /\ c.ref = 0
<1>1. PICK none, flags : none = "" /\ flags = IF base \in DOMAIN BaseFlags THEN BaseFlags[base] ELSE {}
  OBVIOUS
<1>2. CreateDefaultColumn(name, base) =
        [name |-> name, base |-> base, ref |-> 0, enum |-> none, stored |-> TRUE, unit |-> 0, flags |-> flags]
  BY <1>1, Zenon DEF CreateDefaultColumn
<1>3. PICK c : c = CreateDefaultColumn(name, base)
  OBVIOUS
<1> QED
  BY <1>2, <1>3

LEMMA ImportAttributeKeeps ==
  ASSUME NEW t, Numbered(t), NEW attr
  PROVE  Numbered(ImportAttribute(t, attr))
<1>1. PICK c : c = CreateDefaultColumn(attr.name, attr.base)
  OBVIOUS
<1>2. {"ref", "enum", "unit", "flags"} \subseteq DOMAIN c /\ c.ref = 0
  BY <1>1, DefaultColumn
<1>3. PICK flags : flags = (c.flags \ DOMAIN attr.flags) \cup {f \in DOMAIN attr.flags : attr.flags[f]}
  OBVIOUS
<1>4. PICK d : d = [c EXCEPT !.enum = attr.enum, !.unit = attr.unit, !.flags = flags]
  OBVIOUS
<1>5. "ref" \in DOMAIN d /\ d.ref \in Nat
  BY <1>2, <1>4
<1>6. ImportAttribute(t, attr) = [t EXCEPT !.columns = Append(@, d)]
  BY <1>1, <1>3, <1>4 DEF ImportAttribute
<1> QED
  BY <1>5, <1>6, ColumnIsAppended

LEMMA ImportRelationKeeps ==
  ASSUME NEW m, IsTree(m.tables), NEW t, Numbered(t), NEW rel
  PROVE  Numbered(ImportRelation(m, t, rel))
<1>1. PICK ref \in Nat : ref = GetTableByName(m.tables, rel.refTo)
  BY NamedIsTable
<1>2. PICK c : c = CreateDefaultColumn(rel.name, rel.base)
  OBVIOUS
<1>3. {"ref", "enum", "unit", "flags"} \subseteq DOMAIN c /\ c.ref = 0
  BY <1>2, DefaultColumn
<1>4. PICK u : u = IF rel.base \in GetParentBaseName(t.base) THEN ParentId(t, ref) ELSE t
  OBVIOUS
<1>5. Numbered(u)
  BY <1>1, <1>4, ParentIdFacts
<1>6. PICK flags :
        flags = (IF rel.obligatory THEN c.flags \cup {"obligatory"} ELSE c.flags \ {"obligatory"})
                \cup (IF rel.base \in GetParentBaseName(t.base) THEN {"index"} ELSE {})
  OBVIOUS
<1>7. PICK d : d = [c EXCEPT !.ref = ref, !.flags = flags]
  OBVIOUS
<1>8. "ref" \in DOMAIN d /\ d.ref \in Nat
  BY <1>1, <1>3, <1>7
<1>9. ImportRelation(m, t, rel) = IF rel.many THEN t ELSE [u EXCEPT !.columns = Append(@, d)]
  BY <1>1, <1>2, <1>4, <1>6, <1>7 DEF ImportRelation
<1>10. Numbered([u EXCEPT !.columns = Append(@, d)])
  BY <1>5, <1>8, ColumnIsAppended
<1> QED
  BY <1>9, <1>10

\* The table of an element before its attributes.
NewTable(e) ==
  [at |-> 0, parent |-> 0, name |-> e.name, base |-> e.base, db |-> MakeDbName(e.name),
   desc |-> "", columns |-> << >>]

LEMMA NewTableIsNumbered == ASSUME NEW e PROVE Numbered(NewTable(e))
<1>1. PICK none, db : none = "" /\ db = MakeDbName(e.name)
  OBVIOUS
<1>2. NewTable(e) = [at |-> 0, parent |-> 0, name |-> e.name, base |-> e.base, db |-> db,
                     desc |-> none, columns |-> << >>]
  BY <1>1, Zenon DEF NewTable
<1>3. PICK t : t = NewTable(e)
  OBVIOUS
<1>4. {"name", "at", "parent", "columns"} \subseteq DOMAIN t /\ t.parent = 0 /\ t.columns = << >>
  BY <1>2, <1>3
<1>5. IsList(<< >>)
  BY DEF IsList
<1>6. Numbered(t)
  BY <1>4, <1>5 DEF Numbered, HasColumns
<1> QED
  BY <1>3, <1>6

LEMMA ImportElementKeeps ==
  ASSUME NEW m, IsEdited(m), Cardinality(DOMAIN m.tables) <= 998,
         NEW e, Len(e.attrs) \in Nat, Len(e.relations) \in Nat
  PROVE  /\ IsEdited(ImportElement(m, e))
         /\ Cardinality(DOMAIN ImportElement(m, e).tables) = Cardinality(DOMAIN m.tables) + 1
<1>1. PICK t : t = Described(NewTable(e), e.attrs)
  OBVIOUS
<1>2. PICK u : u = Related(m, t, e.relations)
  OBVIOUS
<1>3. ImportElement(m, e) = AddOne(m, 0, u)
  BY <1>1, <1>2 DEF ImportElement, Described, Related, NewTable
<1>4. Numbered(t)
  <2>1. PICK N \in Nat : N = Len(e.attrs)
    OBVIOUS
  <2>2. PICK after : /\ after[0] = NewTable(e) /\ after[N] = t
                     /\ \A n \in 1 .. N : after[n] = ImportAttribute(after[n - 1], e.attrs[n])
    BY <1>1, <2>1, DescribedSteps
  <2> DEFINE T == {n \in 0 .. N : Numbered(after[n])}
  <2>3. 0 \in T
    BY <2>2, NewTableIsNumbered
  <2>4. ASSUME NEW n \in 0 .. N, n + 1 \in 0 .. N, n \in T
        PROVE  n + 1 \in T
    <3>1. n + 1 \in 1 .. N /\ (n + 1) - 1 = n
      BY <2>4
    <3>2. after[n + 1] = ImportAttribute(after[n], e.attrs[n + 1])
      BY <2>2, <3>1
    <3> QED
      BY <2>4, <3>2, ImportAttributeKeeps
  <2>5. 0 .. N \subseteq T
    <3> HIDE DEF T
    <3> QED
      BY <2>3, <2>4, UpTo
  <2> QED
    BY <2>2, <2>5
<1>5. Numbered(u)
  <2>1. PICK N \in Nat : N = Len(e.relations)
    OBVIOUS
  <2>2. PICK after : /\ after[0] = t /\ after[N] = u
                     /\ \A n \in 1 .. N : after[n] = ImportRelation(m, after[n - 1], e.relations[n])
    BY <1>2, <2>1, RelatedSteps
  <2> DEFINE T == {n \in 0 .. N : Numbered(after[n])}
  <2>3. 0 \in T
    BY <1>4, <2>2
  <2>4. ASSUME NEW n \in 0 .. N, n + 1 \in 0 .. N, n \in T
        PROVE  n + 1 \in T
    <3>1. n + 1 \in 1 .. N /\ (n + 1) - 1 = n
      BY <2>4
    <3>2. after[n + 1] = ImportRelation(m, after[n], e.relations[n + 1])
      BY <2>2, <3>1
    <3> QED
      BY <2>4, <3>2, ImportRelationKeeps DEF IsEdited, NumberedTables, SoundTables
  <2>5. 0 .. N \subseteq T
    <3> HIDE DEF T
    <3> QED
      BY <2>3, <2>4, UpTo
  <2> QED
    BY <2>2, <2>5
<1> QED
  BY <1>3, <1>5, AddOneIsEdited

\* Columns are replaced in one table.
LEMMA ColumnsAreReplaced ==
  ASSUME NEW m, IsEdited(m), NEW i \in DOMAIN m.tables, NEW cols, AreColumns(cols)
  PROVE  LET new == [m EXCEPT !.tables[i].columns = cols]
         IN  /\ IsEdited(new) /\ DOMAIN new.tables = DOMAIN m.tables
             /\ new.title = m.title /\ new.enums = m.enums /\ new.relations = m.relations
<1>1. PICK T : T = m.tables /\ NumberedTables(T)
  BY DEF IsEdited
<1>2. PICK t : t = [T[i] EXCEPT !.columns = cols]
  OBVIOUS
<1>3. Numbered(t) /\ t.at = T[i].at
  BY <1>1, <1>2, WithColumns DEF NumberedTables
<1>4. PICK U : U = [T EXCEPT ![i] = t]
  OBVIOUS
<1>5. NumberedTables(U) /\ DOMAIN U = DOMAIN T
  <2>1. DOMAIN U = DOMAIN T /\ \A j \in DOMAIN T : U[j] = IF j = i THEN t ELSE T[j]
    BY <1>4
  <2>2. \A j \in DOMAIN T : U[j].at = T[j].at /\ Numbered(U[j])
    BY <1>1, <1>3, <2>1 DEF NumberedTables
  <2>3. SoundTables(T)
    BY <1>1 DEF NumberedTables
  <2> QED
    BY <2>1, <2>2, <2>3, SameTree
<1>6. PICK new : new = [m EXCEPT !.tables[i].columns = cols]
  OBVIOUS
<1>7. new = [m EXCEPT !.tables = U]
  BY <1>1, <1>2, <1>4, <1>6
<1>8. /\ DOMAIN new = Fields /\ new.tables = U
      /\ new.title = m.title /\ new.enums = m.enums /\ new.relations = m.relations
  BY <1>7 DEF IsEdited, Fields
<1>9. IsEdited(new)
  BY <1>5, <1>8 DEF IsEdited
<1> QED
  BY <1>1, <1>5, <1>6, <1>8, <1>9

LEMMA WithNameIsPlace ==
  ASSUME NEW cols, IsList(cols), NEW name
  PROVE  WithName(cols, name) \in 0 .. Len(cols) /\ WithName(cols, name) \in {0} \cup DOMAIN cols
<1>1. PICK N \in Nat : N = Len(cols) /\ DOMAIN cols = 1 .. N
  BY DEF IsList
<1>2. PICK named : named = {n \in DOMAIN cols : cols[n].name = name}
  OBVIOUS
<1>3. named \in SUBSET Nat /\ named \in SUBSET (1 .. N)
  BY <1>1, <1>2
<1>4. named # {} => Min(named) \in named
  BY <1>3, MinIsElement
<1>5. WithName(cols, name) = IF named = {} THEN 0 ELSE Min(named)
  BY <1>2 DEF WithName
<1>6. CASE named = {}
  BY <1>1, <1>5, <1>6
<1>7. CASE named # {}
  <2>1. Min(named) \in 1 .. N
    BY <1>3, <1>4, <1>7
  <2> QED
    BY <1>1, <1>5, <1>7, <2>1
<1> QED
  BY <1>6, <1>7

LEMMA OneColumnReplaced ==
  ASSUME NEW cols, AreColumns(cols), NEW n \in 1 .. Len(cols), NEW c, "ref" \in DOMAIN c, c.ref \in Nat
  PROVE  AreColumns([cols EXCEPT ![n] = c])
<1>1. PICK N \in Nat : N = Len(cols) /\ DOMAIN cols = 1 .. N
  BY DEF AreColumns, IsList
<1>2. PICK d : d = [cols EXCEPT ![n] = c]
  OBVIOUS
<1>3. DOMAIN d = 1 .. N /\ \A k \in 1 .. N : d[k] = IF k = n THEN c ELSE cols[k]
  BY <1>1, <1>2
<1>4. d = [k \in 1 .. N |-> d[k]]
  BY <1>1, <1>2
<1>5. IsList(d) /\ Len(d) = N
  BY <1>4, ListOf
<1>6. AreColumns(d)
  BY <1>1, <1>3, <1>5 DEF AreColumns
<1> QED
  BY <1>2, <1>6

LEMMA FixRelationKeeps ==
  ASSUME NEW m, IsEdited(m), NEW i \in DOMAIN m.tables, NEW rel
  PROVE  IsEdited(FixRelation(m, i, rel)) /\ DOMAIN FixRelation(m, i, rel).tables = DOMAIN m.tables
<1>1. PICK cols : cols = m.tables[i].columns /\ AreColumns(cols)
  BY DEF IsEdited, NumberedTables, Numbered, HasColumns, AreColumns
<1>2. PICK n, ref : n = WithName(cols, rel.name) /\ ref = GetTableByName(m.tables, rel.refTo)
  OBVIOUS
<1>3. ref \in Nat
  BY <1>2, NamedIsTable DEF IsEdited, NumberedTables, SoundTables
<1>4. CASE n = 0 \/ ref = 0
  <2>1. FixRelation(m, i, rel) = m
    BY <1>1, <1>2, <1>4 DEF FixRelation
  <2> QED
    BY <2>1
<1>5. CASE ~(n = 0 \/ ref = 0)
  <2>1. n \in 1 .. Len(cols)
    <3>1. n \in 0 .. Len(cols) /\ Len(cols) \in Nat
      BY <1>1, <1>2, WithNameIsPlace DEF AreColumns, IsList
    <3> QED
      BY <1>5, <3>1
  <2>2. PICK c : c = [cols[n] EXCEPT !.ref = ref]
    OBVIOUS
  <2>3. "ref" \in DOMAIN c /\ c.ref \in Nat
    <3>1. "ref" \in DOMAIN cols[n]
      BY <1>1, <2>1 DEF AreColumns
    <3> QED
      BY <1>3, <2>2, <3>1
  <2>4. PICK d : d = [cols EXCEPT ![n] = c]
    OBVIOUS
  <2>5. AreColumns(d)
    BY <1>1, <2>1, <2>3, <2>4, OneColumnReplaced
  <2>6. FixRelation(m, i, rel) = [m EXCEPT !.tables[i].columns[n].ref = ref]
    BY <1>1, <1>2, <1>5 DEF FixRelation
  <2>7. FixRelation(m, i, rel) = [m EXCEPT !.tables[i].columns = d]
    BY <1>1, <2>2, <2>4, <2>6
  <2> QED
    BY <2>5, <2>7, ColumnsAreReplaced
<1> QED
  BY <1>4, <1>5

LEMMA FixTableRelationsKeeps ==
  ASSUME NEW m, IsEdited(m), NEW e, Len(e.relations) \in Nat
  PROVE  /\ IsEdited(FixTableRelations(m, e))
         /\ DOMAIN FixTableRelations(m, e).tables = DOMAIN m.tables
<1>1. PICK i : i = GetTableByName(m.tables, e.name)
  OBVIOUS
<1>2. i \in DOMAIN m.tables \cup {0}
  BY <1>1, NamedIsTable DEF IsEdited, NumberedTables, SoundTables
<1>3. FixTableRelations(m, e) = IF i = 0 THEN m ELSE FixedTable(m, i, e.relations)
  BY <1>1 DEF FixTableRelations, FixedTable
<1>4. CASE i = 0
  BY <1>3, <1>4
<1>5. CASE i # 0
  <2>1. PICK N \in Nat : N = Len(e.relations)
    OBVIOUS
  <2>2. PICK relations : relations = e.relations /\ Len(relations) \in Nat
    OBVIOUS
  <2>3. PICK after : IsFixing(after, m, i, relations)
    BY <2>2, FixedSteps
  <2>7. /\ after[0] = m /\ after[N] = FixedTable(m, i, relations)
        /\ \A n \in 1 .. N : after[n] = FixRelation(after[n - 1], i, relations[n])
    BY <2>1, <2>2, <2>3 DEF IsFixing
  <2> DEFINE T == {n \in 0 .. N : IsEdited(after[n]) /\ DOMAIN after[n].tables = DOMAIN m.tables}
  <2>4. 0 \in T
    BY <2>7
  <2>5. ASSUME NEW n \in 0 .. N, n + 1 \in 0 .. N, n \in T
        PROVE  n + 1 \in T
    <3>1. n + 1 \in 1 .. N /\ (n + 1) - 1 = n
      BY <2>5
    <3>2. after[n + 1] = FixRelation(after[n], i, relations[n + 1])
      BY <2>7, <3>1
    <3>3. IsEdited(after[n]) /\ DOMAIN after[n].tables = DOMAIN m.tables /\ i \in DOMAIN after[n].tables
      BY <1>2, <1>5, <2>5
    <3>4. IsEdited(after[n + 1]) /\ DOMAIN after[n + 1].tables = DOMAIN after[n].tables
      BY <3>2, <3>3, FixRelationKeeps
    <3> QED
      BY <2>5, <3>3, <3>4
  <2>6. 0 .. N \subseteq T
    <3> HIDE DEF T
    <3> QED
      BY <2>4, <2>5, UpTo
  <2> QED
    BY <1>3, <1>5, <2>7, <2>6, <2>2
<1> QED
  BY <1>2, <1>4, <1>5

LEMMA ImportEnumKeeps ==
  ASSUME NEW m, IsEdited(m), NEW e, NEW items
  PROVE  LET new == AddEnum(m, e, items)
         IN  IsEdited(new) /\ new.tables = m.tables
<1>1. PICK enums : enums = [f \in DOMAIN m.enums \cup {e} |-> IF f = e THEN items ELSE m.enums[f]]
  OBVIOUS
<1>2. PICK new : new = [m EXCEPT !.enums = enums]
  OBVIOUS
<1>3. new = AddEnum(m, e, items)
  BY <1>1, <1>2 DEF AddEnum
<1>4. DOMAIN new = Fields /\ new.tables = m.tables
  BY <1>2 DEF IsEdited, Fields
<1> QED
  BY <1>3, <1>4 DEF IsEdited

LEMMA FixUnitsKeeps ==
  ASSUME NEW m, IsEdited(m), NEW f
  PROVE  IsEdited(FixUnits(m, f)) /\ DOMAIN FixUnits(m, f).tables = DOMAIN m.tables
<1> DEFINE Unit(id) == IF id <= 0 THEN "" ELSE UnitRow(m, f, id)
           Cols(t) == [n \in DOMAIN t.columns |-> [t.columns[n] EXCEPT !.unit = Unit(t.columns[n].unit)]]
           U == [i \in DOMAIN m.tables |-> [m.tables[i] EXCEPT !.columns = Cols(m.tables[i])]]
<1>1. PICK new : new = [m EXCEPT !.tables = U]
  OBVIOUS
<1>2. FixUnits(m, f) = new
  BY <1>1, Zenon DEF FixUnits
<1> HIDE DEF Unit
<1>3. ASSUME NEW i \in DOMAIN m.tables
      PROVE  AreColumns(Cols(m.tables[i]))
  <2>1. PICK cols : cols = m.tables[i].columns /\ AreColumns(cols)
    BY DEF IsEdited, NumberedTables, Numbered, HasColumns, AreColumns
  <2>2. PICK N \in Nat : N = Len(cols) /\ DOMAIN cols = 1 .. N
    BY <2>1 DEF AreColumns, IsList
  <2>3. PICK d : d = [n \in 1 .. N |-> [cols[n] EXCEPT !.unit = Unit(cols[n].unit)]]
    OBVIOUS
  <2>4. d = Cols(m.tables[i])
    BY <2>1, <2>2, <2>3
  <2>5. IsList(d) /\ Len(d) = N
    <3>1. d = [n \in 1 .. N |-> d[n]]
      BY <2>3
    <3> QED
      BY <3>1, ListOf
  <2>6. ASSUME NEW n \in 1 .. N
        PROVE  "ref" \in DOMAIN d[n] /\ d[n].ref \in Nat
    <3>1. PICK unit : unit = Unit(cols[n].unit)
      OBVIOUS
    <3>2. d[n] = [cols[n] EXCEPT !.unit = unit]
      BY <2>3, <3>1
    <3>3. "ref" \in DOMAIN cols[n] /\ cols[n].ref \in Nat
      BY <2>1, <2>2 DEF AreColumns
    <3> QED
      BY <3>2, <3>3
  <2> QED
    BY <2>4, <2>5, <2>6 DEF AreColumns
<1> HIDE DEF Cols
<1>4. ASSUME NEW i \in DOMAIN m.tables
      PROVE  U[i].at = m.tables[i].at /\ Numbered(U[i])
  <2>1. Numbered(m.tables[i])
    BY DEF IsEdited, NumberedTables
  <2> QED
    BY <1>3, <2>1, WithColumns
<1>5. DOMAIN U = DOMAIN m.tables
  OBVIOUS
<1> HIDE DEF U
<1>6. NumberedTables(U)
  BY <1>4, <1>5, SameTree DEF IsEdited, NumberedTables
<1>7. DOMAIN new = Fields /\ new.tables = U
  BY <1>1 DEF IsEdited, Fields
<1> QED
  BY <1>2, <1>5, <1>6, <1>7 DEF IsEdited

LEMMA ImportAppModelKeeps ==
  ASSUME NEW m, IsEdited(m), Cardinality(DOMAIN m.tables) = 0, NEW f \in AtfxFiles, Len(f.elements) <= 998
  PROVE  /\ IsEdited(ImportAppModel(m, f))
         /\ Cardinality(DOMAIN ImportAppModel(m, f).tables) = Len(f.elements)
<1>1. PICK E \in Nat, N \in Nat : E = Len(f.enums) /\ N = Len(f.elements) /\ N <= 998
                                  /\ DOMAIN f.elements = 1 .. N
  BY AtfxAssumption
<1>2. ASSUME NEW n \in 1 .. N
      PROVE  Len(f.elements[n].attrs) \in Nat /\ Len(f.elements[n].relations) \in Nat
  BY <1>1, AtfxAssumption
<1>3. PICK a, b : a = WithEnums(m, f.enums) /\ b = WithElements(a, f.elements)
  OBVIOUS
<1>4. ImportAppModel(m, f) = WithFixes(b, f.elements)
  BY <1>3 DEF ImportAppModel, WithEnums, WithElements, WithFixes
<1>5. IsEdited(a) /\ a.tables = m.tables
  <2>1. PICK after : /\ after[0] = m /\ after[E] = a
                     /\ \A n \in 1 .. E : after[n] = ImportEnum(after[n - 1], f.enums[n])
    BY <1>1, <1>3, EnumSteps
  <2> DEFINE T == {n \in 0 .. E : IsEdited(after[n]) /\ after[n].tables = m.tables}
  <2>2. 0 \in T
    BY <2>1
  <2>3. ASSUME NEW n \in 0 .. E, n + 1 \in 0 .. E, n \in T
        PROVE  n + 1 \in T
    <3>1. n + 1 \in 1 .. E /\ (n + 1) - 1 = n
      BY <2>3
    <3>2. PICK e : e = f.enums[n + 1]
      OBVIOUS
    <3>3. after[n + 1] = AddEnum(after[n], e.name, e.items)
      BY <2>1, <3>1, <3>2 DEF ImportEnum
    <3>4. IsEdited(after[n + 1]) /\ after[n + 1].tables = after[n].tables
      BY <2>3, <3>3, ImportEnumKeeps
    <3> QED
      BY <2>3, <3>4
  <2>4. 0 .. E \subseteq T
    <3> HIDE DEF T
    <3> QED
      BY <2>2, <2>3, UpTo
  <2> QED
    BY <2>1, <2>4
<1>6. IsEdited(b) /\ Cardinality(DOMAIN b.tables) = N
  <2>1. PICK after : /\ after[0] = a /\ after[N] = b
                     /\ \A n \in 1 .. N : after[n] = ImportElement(after[n - 1], f.elements[n])
    BY <1>1, <1>3, ElementSteps
  <2> DEFINE T == {n \in 0 .. N : IsEdited(after[n]) /\ Cardinality(DOMAIN after[n].tables) = n}
  <2>2. 0 \in T
    BY <1>5, <2>1
  <2>3. ASSUME NEW n \in 0 .. N, n + 1 \in 0 .. N, n \in T
        PROVE  n + 1 \in T
    <3>1. n + 1 \in 1 .. N /\ (n + 1) - 1 = n /\ n <= 998
      BY <1>1, <2>3
    <3>2. PICK e : e = f.elements[n + 1] /\ Len(e.attrs) \in Nat /\ Len(e.relations) \in Nat
      BY <1>2, <3>1
    <3>3. after[n + 1] = ImportElement(after[n], e)
      BY <2>1, <3>1, <3>2
    <3>4. IsEdited(after[n]) /\ Cardinality(DOMAIN after[n].tables) = n
      BY <2>3
    <3>5. IsEdited(after[n + 1]) /\ Cardinality(DOMAIN after[n + 1].tables) = n + 1
      BY <3>1, <3>2, <3>3, <3>4, ImportElementKeeps
    <3> QED
      BY <2>3, <3>5
  <2>4. 0 .. N \subseteq T
    <3> HIDE DEF T
    <3> QED
      BY <2>2, <2>3, UpTo
  <2> QED
    BY <2>1, <2>4
<1>7. IsEdited(ImportAppModel(m, f)) /\ DOMAIN ImportAppModel(m, f).tables = DOMAIN b.tables
  <2>1. PICK after : /\ after[0] = b /\ after[N] = WithFixes(b, f.elements)
                     /\ \A n \in 1 .. N : after[n] = FixTableRelations(after[n - 1], f.elements[n])
    BY <1>1, FixSteps, SMTT(30)
  <2> DEFINE T == {n \in 0 .. N : IsEdited(after[n]) /\ DOMAIN after[n].tables = DOMAIN b.tables}
  <2>2. 0 \in T
    BY <1>6, <2>1
  <2>3. ASSUME NEW n \in 0 .. N, n + 1 \in 0 .. N, n \in T
        PROVE  n + 1 \in T
    <3>1. n + 1 \in 1 .. N /\ (n + 1) - 1 = n
      BY <2>3
    <3>2. PICK e : e = f.elements[n + 1] /\ Len(e.relations) \in Nat
      BY <1>2, <3>1
    <3>3. after[n + 1] = FixTableRelations(after[n], e)
      BY <2>1, <3>1, <3>2
    <3>4. IsEdited(after[n + 1]) /\ DOMAIN after[n + 1].tables = DOMAIN after[n].tables
      BY <2>3, <3>2, <3>3, FixTableRelationsKeeps
    <3> QED
      BY <2>3, <3>4
  <2>4. 0 .. N \subseteq T
    <3> HIDE DEF T
    <3> QED
      BY <2>2, <2>3, UpTo
  <2> QED
    BY <1>4, <2>1, <2>4
<1> QED
  BY <1>1, <1>6, <1>7

\* A table of an imported file refers to tables of the model or to none, and
\* there is one table for every element.
LEMMA AtfxIsEdited ==
  ASSUME NEW f \in AtfxFiles, Len(f.elements) <= 998
  PROVE  /\ IsEdited(AtfxModels[f])
         /\ Cardinality(DOMAIN AtfxModels[f].tables) = Len(f.elements)
<1>1. PICK empty : empty = [EmptyModel EXCEPT !.title = f.title]
  OBVIOUS
<1>2. IsEdited(empty) /\ Cardinality(DOMAIN empty.tables) = 0
  <2>1. DOMAIN empty = Fields /\ empty.tables = << >>
    <3>1. PICK none : none = ""
      OBVIOUS
    <3>2. EmptyModel = [title |-> none, tables |-> << >>, enums |-> << >>, relations |-> << >>]
      BY <3>1, Zenon DEF EmptyModel
    <3> QED
      BY <1>1, <3>2 DEF Fields
  <2> QED
    BY <2>1, NoTablesIsEdited
<1>3. PICK m : m = ImportAppModel(empty, f)
  OBVIOUS
<1>4. IsEdited(m) /\ Cardinality(DOMAIN m.tables) = Len(f.elements)
  BY <1>2, <1>3, ImportAppModelKeeps
<1>5. AtfxModels[f] = FixUnits(m, f)
  BY <1>1, <1>3 DEF AtfxModels, AtfxModel
<1> QED
  BY <1>4, <1>5, FixUnitsKeeps
-----------------------------------------------------------------------------
(***************************************************************************)
(* The columns of a table: what the handlers of the table panel leave.     *)
(***************************************************************************)
AllNumbered(C) == \A c \in C : "ref" \in DOMAIN c /\ c.ref \in Nat

LEMMA ColumnsOfSet ==
  ASSUME NEW C, AllNumbered(C)
  PROVE  \A cols \in Seq(C) : AreColumns(cols)
BY ListIsSeq DEF AllNumbered, AreColumns

LEMMA SetOfColumns ==
  ASSUME NEW cols, AreColumns(cols)
  PROVE  \E C : AllNumbered(C) /\ cols \in Seq(C)
<1>1. PICK C : C = {cols[n] : n \in 1 .. Len(cols)}
  OBVIOUS
<1>2. AllNumbered(C)
  BY <1>1 DEF AreColumns, AllNumbered
<1>3. cols \in Seq(C)
  BY <1>1, ListIsSeq DEF AreColumns
<1> QED
  BY <1>2, <1>3

LEMMA ColumnIsDeleted ==
  ASSUME NEW C, NEW cols \in Seq(C), NEW name
  PROVE  DeleteColumn(cols, name) \in Seq(C)
<1>1. PICK k : k = WithName(cols, name)
  OBVIOUS
<1>2. k \in 0 .. Len(cols)
  <2>1. IsList(cols)
    BY ListIsSeq
  <2> QED
    BY <1>1, <2>1, WithNameIsPlace
<1>3. DeleteColumn(cols, name) = IF k = 0 THEN cols ELSE RemoveAt(cols, k)
  BY <1>1 DEF DeleteColumn
<1>4. ASSUME k # 0
      PROVE  RemoveAt(cols, k) \in Seq(C)
  <2>1. SubSeq(cols, 1, k - 1) \in Seq(C) /\ SubSeq(cols, k + 1, Len(cols)) \in Seq(C)
    <3>1. k \in 1 .. Len(cols)
      BY <1>2, <1>4
    <3>2. \A n \in 1 .. Len(cols) : cols[n] \in C
      OBVIOUS
    <3> QED
      BY <3>1, <3>2
  <2>2. RemoveAt(cols, k) = SubSeq(cols, 1, k - 1) \o SubSeq(cols, k + 1, Len(cols))
    BY DEF RemoveAt
  <2> QED
    BY <2>1, <2>2
<1> QED
  BY <1>3, <1>4

LEMMA Swapped ==
  ASSUME NEW N \in Nat, NEW C, NEW cols \in [1 .. N -> C], NEW names, NEW n \in 1 .. N, NEW k
  PROVE  Swap(cols, names, n, k) \in [1 .. N -> C]
<1>1. PICK swapped : swapped = [cols EXCEPT ![n] = cols[k], ![k] = cols[n]]
  OBVIOUS
<1>2. CASE k \in 1 .. N
  <2>1. swapped \in [1 .. N -> C]
    BY <1>1, <1>2
  <2>2. Swap(cols, names, n, k) \in {cols, swapped}
    BY <1>1 DEF Swap
  <2> QED
    BY <2>1, <2>2
<1>3. CASE k \notin 1 .. N
  BY <1>3 DEF Swap
<1> QED
  BY <1>2, <1>3

\* OnDeleteColumn of the selected rows.
Left(cols, rows) ==
  LET after[n \in 0..Len(cols)] ==
        IF n = 0 THEN cols
        ELSE IF n \in rows THEN DeleteColumn(after[n - 1], cols[n].name) ELSE after[n - 1]
  IN  after[Len(cols)]

LeaveOne(s, cols, rows, n) == IF n \in rows THEN DeleteColumn(s, cols[n].name) ELSE s

LEMMA LeftAreColumns ==
  ASSUME NEW cols, AreColumns(cols), NEW rows
  PROVE  AreColumns(Left(cols, rows))
<1>1. PICK C : AllNumbered(C) /\ cols \in Seq(C)
  BY SetOfColumns
<1>2. PICK N \in Nat : N = Len(cols)
  BY <1>1
<1>3. PICK S : S = Seq(C)
  OBVIOUS
<1>4. cols \in S
  BY <1>1, <1>2, <1>3
<1>5. ASSUME NEW s \in S, NEW n \in 1 .. N
      PROVE  LeaveOne(s, cols, rows, n) \in S
  BY <1>3, ColumnIsDeleted DEF LeaveOne
<1>6. PICK next : next = [x \in S \X (1 .. N) |-> LeaveOne(x[1], cols, rows, x[2])]
  OBVIOUS
<1>7. next \in [S \X (1 .. N) -> S] /\ \A s \in S, n \in 1 .. N : next[<<s, n>>] = LeaveOne(s, cols, rows, n)
  BY <1>5, <1>6
<1>8. PICK f : IsIteration(f, N, S, cols, next)
  BY <1>4, <1>7, Iterates
<1>9. f \in [0 .. N -> S] /\ f[0] = cols /\ \A n \in 1 .. N : f[n] = LeaveOne(f[n - 1], cols, rows, n)
  <2>1. \A n \in 1 .. N : n - 1 \in 0 .. N
    OBVIOUS
  <2> QED
    BY <1>7, <1>8, <2>1 DEF IsIteration
<1> DEFINE after == CHOOSE g : g = [n \in 0 .. N |-> IF n = 0 THEN cols ELSE LeaveOne(g[n - 1], cols, rows, n)]
<1>10. f = [n \in 0 .. N |-> IF n = 0 THEN cols ELSE LeaveOne(f[n - 1], cols, rows, n)]
  <2>1. f = [n \in 0 .. N |-> f[n]]
    BY <1>9
  <2>2. \A n \in 0 .. N : f[n] = IF n = 0 THEN cols ELSE LeaveOne(f[n - 1], cols, rows, n)
    <3>1. \A n \in 0 .. N : n # 0 => n \in 1 .. N
      OBVIOUS
    <3> QED
      BY <1>9, <3>1
  <2> QED
    BY <2>1, <2>2
<1>11. Left(cols, rows) = after[N]
  BY <1>2 DEF Left, LeaveOne
<1>12. after = [n \in 0 .. N |-> IF n = 0 THEN cols ELSE LeaveOne(after[n - 1], cols, rows, n)]
  BY <1>10
<1> HIDE DEF after
<1> DEFINE T == {n \in 0 .. N : after[n] \in S}
<1>13. 0 \in T
  <2>1. after[0] = cols
    BY <1>12
  <2> QED
    BY <1>4, <2>1
<1>14. ASSUME NEW n \in 0 .. N, n + 1 \in 0 .. N, n \in T
       PROVE  n + 1 \in T
  <2>1. (n + 1) - 1 = n /\ n + 1 # 0 /\ n + 1 \in 1 .. N
    BY <1>14
  <2>2. after[n + 1] = LeaveOne(after[n], cols, rows, n + 1)
    BY <1>12, <1>14, <2>1
  <2>3. after[n] \in S
    BY <1>14
  <2> QED
    BY <1>5, <1>14, <2>1, <2>2, <2>3
<1>15. after[N] \in S
  <2>1. N \in T
    <3> HIDE DEF T
    <3>1. 0 .. N \subseteq T
      BY <1>13, <1>14, UpTo
    <3> QED
      BY <3>1
  <2> QED
    BY <2>1
<1> QED
  BY <1>1, <1>3, <1>11, <1>15, ColumnsOfSet

\* OnColumnUp of the columns with one of the names.
Up(cols, names) ==
  LET after[n \in 0..Len(cols)] == IF n = 0 THEN cols ELSE Swap(after[n - 1], names, n, n - 1)
  IN  after[Len(cols)]

UpOne(s, cols, names, n) == Swap(s, names, n, n - 1)

LEMMA UpAreColumns ==
  ASSUME NEW cols, AreColumns(cols), NEW names
  PROVE  AreColumns(Up(cols, names))
<1>1. PICK C : AllNumbered(C) /\ cols \in Seq(C)
  BY SetOfColumns
<1>2. PICK N \in Nat : N = Len(cols)
  BY <1>1
<1>3. PICK S : S = [1 .. N -> C]
  OBVIOUS
<1>4. cols \in S
  BY <1>1, <1>2, <1>3
<1>5. ASSUME NEW s \in S, NEW n \in 1 .. N
      PROVE  UpOne(s, cols, names, n) \in S
  <2>1. s \in [1 .. N -> C]
    BY <1>3, <1>5
  <2> QED
    BY <1>2, <1>3, <1>5, <2>1, Swapped DEF UpOne
<1>6. PICK next : next = [x \in S \X (1 .. N) |-> UpOne(x[1], cols, names, x[2])]
  OBVIOUS
<1>7. next \in [S \X (1 .. N) -> S] /\ \A s \in S, n \in 1 .. N : next[<<s, n>>] = UpOne(s, cols, names, n)
  BY <1>5, <1>6
<1>8. PICK f : IsIteration(f, N, S, cols, next)
  BY <1>4, <1>7, Iterates
<1>9. f \in [0 .. N -> S] /\ f[0] = cols /\ \A n \in 1 .. N : f[n] = UpOne(f[n - 1], cols, names, n)
  <2>1. \A n \in 1 .. N : n - 1 \in 0 .. N
    OBVIOUS
  <2> QED
    BY <1>7, <1>8, <2>1 DEF IsIteration
<1> DEFINE after == CHOOSE g : g = [n \in 0 .. N |-> IF n = 0 THEN cols ELSE UpOne(g[n - 1], cols, names, n)]
<1>10. f = [n \in 0 .. N |-> IF n = 0 THEN cols ELSE UpOne(f[n - 1], cols, names, n)]
  <2>1. f = [n \in 0 .. N |-> f[n]]
    BY <1>9
  <2>2. \A n \in 0 .. N : f[n] = IF n = 0 THEN cols ELSE UpOne(f[n - 1], cols, names, n)
    <3>1. \A n \in 0 .. N : n # 0 => n \in 1 .. N
      OBVIOUS
    <3> QED
      BY <1>9, <3>1
  <2> QED
    BY <2>1, <2>2
<1>11. Up(cols, names) = after[N]
  BY <1>2 DEF Up, UpOne
<1>12. after = [n \in 0 .. N |-> IF n = 0 THEN cols ELSE UpOne(after[n - 1], cols, names, n)]
  BY <1>10
<1> HIDE DEF after
<1> DEFINE T == {n \in 0 .. N : after[n] \in S}
<1>13. 0 \in T
  <2>1. after[0] = cols
    BY <1>12
  <2> QED
    BY <1>4, <2>1
<1>14. ASSUME NEW n \in 0 .. N, n + 1 \in 0 .. N, n \in T
       PROVE  n + 1 \in T
  <2>1. (n + 1) - 1 = n /\ n + 1 # 0 /\ n + 1 \in 1 .. N
    BY <1>14
  <2>2. after[n + 1] = UpOne(after[n], cols, names, n + 1)
    BY <1>12, <1>14, <2>1
  <2>3. after[n] \in S
    BY <1>14
  <2> QED
    BY <1>5, <1>14, <2>1, <2>2, <2>3
<1>15. after[N] \in S
  <2>1. N \in T
    <3> HIDE DEF T
    <3>1. 0 .. N \subseteq T
      BY <1>13, <1>14, UpTo
    <3> QED
      BY <3>1
  <2> QED
    BY <2>1
<1> QED
  <2>1. PICK d : d = after[N] /\ d \in [1 .. N -> C]
    BY <1>3, <1>15
  <2>2. d \in Seq(C)
    BY <2>1
  <2> QED
    BY <1>1, <1>11, <2>1, <2>2, ColumnsOfSet

\* OnColumnDown of them: from the last column to the first.
Down(cols, names) ==
  LET after[n \in 0..Len(cols)] ==
        IF n = 0 THEN cols ELSE Swap(after[n - 1], names, (Len(cols) + 1) - n, (Len(cols) + 1) - n + 1)
  IN  after[Len(cols)]

DownOne(s, cols, names, n) == Swap(s, names, (Len(cols) + 1) - n, (Len(cols) + 1) - n + 1)

LEMMA DownAreColumns ==
  ASSUME NEW cols, AreColumns(cols), NEW names
  PROVE  AreColumns(Down(cols, names))
<1>1. PICK C : AllNumbered(C) /\ cols \in Seq(C)
  BY SetOfColumns
<1>2. PICK N \in Nat : N = Len(cols)
  BY <1>1
<1>3. PICK S : S = [1 .. N -> C]
  OBVIOUS
<1>4. cols \in S
  BY <1>1, <1>2, <1>3
<1>5. ASSUME NEW s \in S, NEW n \in 1 .. N
      PROVE  DownOne(s, cols, names, n) \in S
  <2>1. s \in [1 .. N -> C]
    BY <1>3, <1>5
  <2>2. (Len(cols) + 1) - n \in 1 .. N
    BY <1>2
  <2> QED
    BY <1>2, <1>3, <1>5, <2>1, <2>2, Swapped DEF DownOne
<1>6. PICK next : next = [x \in S \X (1 .. N) |-> DownOne(x[1], cols, names, x[2])]
  OBVIOUS
<1>7. next \in [S \X (1 .. N) -> S] /\ \A s \in S, n \in 1 .. N : next[<<s, n>>] = DownOne(s, cols, names, n)
  BY <1>5, <1>6
<1>8. PICK f : IsIteration(f, N, S, cols, next)
  BY <1>4, <1>7, Iterates
<1>9. f \in [0 .. N -> S] /\ f[0] = cols /\ \A n \in 1 .. N : f[n] = DownOne(f[n - 1], cols, names, n)
  <2>1. \A n \in 1 .. N : n - 1 \in 0 .. N
    OBVIOUS
  <2> QED
    BY <1>7, <1>8, <2>1 DEF IsIteration
<1> DEFINE after == CHOOSE g : g = [n \in 0 .. N |-> IF n = 0 THEN cols ELSE DownOne(g[n - 1], cols, names, n)]
<1>10. f = [n \in 0 .. N |-> IF n = 0 THEN cols ELSE DownOne(f[n - 1], cols, names, n)]
  <2>1. f = [n \in 0 .. N |-> f[n]]
    BY <1>9
  <2>2. \A n \in 0 .. N : f[n] = IF n = 0 THEN cols ELSE DownOne(f[n - 1], cols, names, n)
    <3>1. \A n \in 0 .. N : n # 0 => n \in 1 .. N
      OBVIOUS
    <3> QED
      BY <1>9, <3>1
  <2> QED
    BY <2>1, <2>2
<1>11. Down(cols, names) = after[N]
  BY <1>2 DEF Down, DownOne
<1>12. after = [n \in 0 .. N |-> IF n = 0 THEN cols ELSE DownOne(after[n - 1], cols, names, n)]
  BY <1>10
<1> HIDE DEF after
<1> DEFINE T == {n \in 0 .. N : after[n] \in S}
<1>13. 0 \in T
  <2>1. after[0] = cols
    BY <1>12
  <2> QED
    BY <1>4, <2>1
<1>14. ASSUME NEW n \in 0 .. N, n + 1 \in 0 .. N, n \in T
       PROVE  n + 1 \in T
  <2>1. (n + 1) - 1 = n /\ n + 1 # 0 /\ n + 1 \in 1 .. N
    BY <1>14
  <2>2. after[n + 1] = DownOne(after[n], cols, names, n + 1)
    BY <1>12, <1>14, <2>1
  <2>3. after[n] \in S
    BY <1>14
  <2> QED
    BY <1>5, <1>14, <2>1, <2>2, <2>3
<1>15. after[N] \in S
  <2>1. N \in T
    <3> HIDE DEF T
    <3>1. 0 .. N \subseteq T
      BY <1>13, <1>14, UpTo
    <3> QED
      BY <3>1
  <2> QED
    BY <2>1
<1> QED
  <2>1. PICK d : d = after[N] /\ d \in [1 .. N -> C]
    BY <1>3, <1>15
  <2>2. d \in Seq(C)
    BY <2>1
  <2> QED
    BY <1>1, <1>11, <2>1, <2>2, ColumnsOfSet

-----------------------------------------------------------------------------
(***************************************************************************)
(* What the dialogs answer with.                                           *)
(***************************************************************************)
LEMMA ParentColumnIsNumbered ==
  ASSUME NEW base, NEW p \in Nat
  PROVE  "ref" \in DOMAIN ParentColumn(base, p) /\ ParentColumn(base, p).ref = p
<1>1. PICK none : none = ""
  OBVIOUS
<1>2. ParentColumn(base, p) = [name |-> base, base |-> base, ref |-> p, enum |-> none,
                         stored |-> TRUE, unit |-> none, flags |-> {}]
  BY <1>1, Zenon DEF ParentColumn
<1>3. PICK c : c = ParentColumn(base, p)
  OBVIOUS
<1> QED
  BY <1>2, <1>3

\* The table dialog keeps the place of a table and its columns.
LEMMA FromDialogKeeps ==
  ASSUME NumberedTables(Tables), NEW t, Numbered(t), NEW form
  PROVE  Numbered(FromDialog(t, form)) /\ FromDialog(t, form).at = t.at
<1>1. IsTree(Tables)
  BY DEF NumberedTables, SoundTables
<1>2. PICK none : none = ""
  OBVIOUS
<1>3. PICK parent : parent = IF form.parent = none THEN 0 ELSE GetTableByName(Tables, form.parent)
  OBVIOUS
<1>4. parent \in Nat
  BY <1>1, <1>3, NamedIsTable
<1>5. PICK v : v = [t EXCEPT !.name = form.name, !.base = form.base, !.db = form.db, !.desc = form.desc]
  OBVIOUS
<1>6. Numbered(v) /\ v.at = t.at
  <2>1. {"name", "at", "parent", "columns"} \subseteq DOMAIN t
    BY DEF Numbered, HasColumns
  <2>2. DOMAIN v = DOMAIN t /\ v.at = t.at /\ v.parent = t.parent /\ v.columns = t.columns
    BY <1>5, <2>1
  <2> QED
    BY <2>1, <2>2 DEF Numbered, HasColumns
<1>7. PICK u : u = ParentId(v, parent)
  OBVIOUS
<1>8. Numbered(u) /\ u.at = t.at
  BY <1>4, <1>6, <1>7, ParentIdFacts
<1>9. PICK w : w = [u EXCEPT !.columns = Append(@, ParentColumn(form.column, parent))]
  OBVIOUS
<1>10. Numbered(w) /\ w.at = t.at
  BY <1>4, <1>8, <1>9, ParentColumnIsNumbered, ColumnIsAppended
<1>11. FromDialog(t, form) \in {u, w}
  <2>1. FromDialog(t, form) = IF form.column \in GetParentBaseName(form.base) \ {c.base : c \in ToSet(t.columns)}
                               THEN w ELSE u
    BY <1>2, <1>3, <1>5, <1>7, <1>9, Zenon DEF FromDialog
  <2> QED
    BY <2>1
<1> QED
  BY <1>8, <1>10, <1>11

LEMMA DialogResultsAreNumbered ==
  ASSUME NumberedTables(Tables), NEW t, Numbered(t), NEW u \in DialogResults(t)
  PROVE  Numbered(u) /\ u.at = t.at
<1>1. PICK form \in TableForms : u = FromDialog(t, form)
  BY DEF DialogResults
<1> QED
  BY <1>1, FromDialogKeeps

LEMMA EmptyTableIsNumbered ==
  ASSUME NEW parent \in Nat
  PROVE  Numbered(EmptyTable(parent))
<1>1. PICK none, base : none = "" /\ base = IF parent = 0 THEN "AoAny" ELSE Tables[parent].base
  OBVIOUS
<1>2. EmptyTable(parent) = [at |-> 0, parent |-> parent, name |-> none, db |-> none, desc |-> none,
                            columns |-> << >>, base |-> base]
  BY <1>1, Zenon DEF EmptyTable
<1>3. PICK t : t = EmptyTable(parent)
  OBVIOUS
<1>4. DOMAIN t = {"at", "parent", "name", "db", "desc", "columns", "base"} /\ t.parent = parent /\ t.columns = << >>
  BY <1>2, <1>3
<1>5. IsList(<< >>) /\ Len(<< >>) = 0
  BY DEF IsList
<1>6. Numbered(t)
  BY <1>4, <1>5 DEF Numbered, HasColumns
<1> QED
  BY <1>3, <1>6

LEMMA DialogColumnsAreNumbered ==
  ASSUME NumberedTables(Tables), NEW c \in DialogColumns
  PROVE  "ref" \in DOMAIN c /\ c.ref \in Nat
<1>1. IsTree(Tables)
  BY DEF NumberedTables, SoundTables
<1>2. PICK none : none = ""
  OBVIOUS
<1>3. DialogColumns = {[f EXCEPT !.ref = IF f.ref = none THEN 0 ELSE GetTableByName(Tables, f.ref)] : f \in ColumnForms}
  BY <1>2, Zenon DEF DialogColumns
<1>4. PICK f \in ColumnForms : c = [f EXCEPT !.ref = IF f.ref = none THEN 0 ELSE GetTableByName(Tables, f.ref)]
  BY <1>3
<1>5. "ref" \in DOMAIN f
  BY EditorAssumption
<1>6. PICK ref : ref = IF f.ref = none THEN 0 ELSE GetTableByName(Tables, f.ref)
  OBVIOUS
<1>7. ref \in Nat
  BY <1>1, <1>6, NamedIsTable
<1> QED
  BY <1>4, <1>5, <1>6, <1>7

\* The column dialog may add an enumerate, and nothing else.
LEMMA ColumnDialogKeeps ==
  ASSUME IsEdited(model), NEW c, NEW m \in AfterColumnDialog(c)
  PROVE  IsEdited(m) /\ m.tables = model.tables
<1>1. m = model \/ \E items : m = AddEnum(model, c.enum, items)
  BY DEF AfterColumnDialog
<1>2. CASE m = model
  BY <1>2
<1>3. ASSUME NEW items, m = AddEnum(model, c.enum, items)
      PROVE  IsEdited(m) /\ m.tables = model.tables
  BY <1>3, ImportEnumKeeps
<1> QED
  BY <1>1, <1>2, <1>3

-----------------------------------------------------------------------------
(***************************************************************************)
(* The invariant of a document: the model, the model last opened or saved, *)
(* the file and the clipboard are trees of numbered tables, and the model  *)
(* and the file have no more tables than there are ids.                    *)
(***************************************************************************)
WithinIds(m) == IsEdited(m) /\ Cardinality(DOMAIN m.tables) <= MaxTables

FileInv == file = NoFile \/ (IsNumberedFile(file) /\ Len(file.tables) <= MaxTables)

ClipboardInv == copied = NoTable \/ (Numbered(copied[1]) /\ NumberedTables(copied[2]))

CountersInv == modified \in BOOLEAN /\ edits \in 0 .. MaxEdits /\ steps \in edits .. MaxSteps

EditInv ==
  /\ WithinIds(model) /\ IsEdited(original) /\ FileInv /\ ClipboardInv
  /\ selected \in Nat /\ CountersInv

\* What an edit leaves of the model and of the clipboard.
EditKept == WithinIds(model') /\ selected' \in Nat /\ copied' \in {copied, NoTable}

LEMMA TablesAreBounded == MaxTables \in Nat /\ MaxTables <= 998
<1>1. MaxTables \in 1 .. 998
  BY EditorAssumption
<1> QED
  BY <1>1

LEMMA TablesAreCounted ==
  ASSUME NEW m, WithinIds(m)
  PROVE  /\ IsTree(m.tables) /\ NumberedTables(m.tables) /\ SoundTables(m.tables)
         /\ Cardinality(DOMAIN m.tables) \in Nat /\ Cardinality(DOMAIN m.tables) <= 998
<1>1. IsTree(m.tables) /\ NumberedTables(m.tables) /\ SoundTables(m.tables)
  BY DEF WithinIds, IsEdited, NumberedTables, SoundTables
<1>2. Cardinality(DOMAIN m.tables) \in Nat
  BY <1>1, FS_CardinalityType DEF IsTree
<1> QED
  BY <1>1, <1>2, TablesAreBounded DEF WithinIds

\* A handler that leaves the tables alone.
LEMMA TablesAreKept ==
  ASSUME NEW m, WithinIds(m), NEW new, DOMAIN new = DOMAIN m, new.tables = m.tables
  PROVE  WithinIds(new)
BY DEF WithinIds, IsEdited

-----------------------------------------------------------------------------
(***************************************************************************)
(* The handlers of tables.                                                 *)
(***************************************************************************)
LEMMA MarkedIsTable ==
  ASSUME NEW T, IsTree(T), NEW name
  PROVE  Marked(T, name) \in Nat
<1>1. PICK given : given = IF \E i \in DOMAIN T \ {selected} : T[i].name = name THEN name ELSE ""
  OBVIOUS
<1>2. Marked(T, name) = GetTableByName(T, given)
  BY <1>1, Zenon DEF Marked
<1> QED
  BY <1>2, NamedIsTable

LEMMA AddTableKeeps ==
  ASSUME EditInv, OnAddTable
  PROVE  EditKept
<1>1. PICK above : above = IF selected \in DOMAIN Tables THEN selected ELSE 0
  OBVIOUS
<1>2. above \in Nat
  BY <1>1 DEF EditInv
<1>3. PICK id : id = FindNextTableId(Tables, above)
  OBVIOUS
<1>4. WithinIds(model) /\ SoundTables(Tables) /\ NumberedTables(Tables) /\ Cardinality(DOMAIN Tables) <= 998
  BY TablesAreCounted DEF EditInv, Tables
<1>5. id \in Nat \ {0} /\ id \notin DOMAIN Tables
  BY <1>2, <1>3, <1>4, NextIdIsFree
<1>6. PICK t \in DialogResults(EmptyTable(above)) :
        LET m == PutTable(model, id, t)
        IN  Edit(m) /\ selected' = Marked(m.tables, t.name) /\ UNCHANGED clipboard
  BY <1>1, <1>3 DEF OnAddTable
<1>7. Numbered(t)
  BY <1>2, <1>4, EmptyTableIsNumbered, DialogResultsAreNumbered
<1>8. PICK m : m = PutTable(model, id, t)
  OBVIOUS
<1>9. IsEdited(m) /\ Cardinality(DOMAIN m.tables) = Cardinality(DOMAIN Tables) + 1
  BY <1>4, <1>5, <1>7, <1>8, PutIsEdited DEF WithinIds, Tables
<1>10. Cardinality(DOMAIN Tables) + 1 <= MaxTables
  BY DEF OnAddTable, Room
<1>11. model' = m /\ selected' = Marked(m.tables, t.name) /\ copied' = copied
  BY <1>6, <1>8 DEF Edit, Change, clipboard
<1>12. WithinIds(m) /\ Marked(m.tables, t.name) \in Nat
  <2>1. WithinIds(m)
    BY <1>9, <1>10 DEF WithinIds
  <2> QED
    BY <2>1, TablesAreCounted, MarkedIsTable
<1> QED
  BY <1>11, <1>12 DEF EditKept

LEMMA EditTableKeeps ==
  ASSUME EditInv, OnEditTable
  PROVE  EditKept
<1>1. WithinIds(model) /\ SoundTables(Tables) /\ NumberedTables(Tables) /\ selected \in DOMAIN Tables
  BY TablesAreCounted DEF EditInv, Tables, OnEditTable
<1>2. PICK t \in DialogResults(Tables[selected]) :
        LET m == [model EXCEPT !.tables[selected] = t] IN EditAndUpdate(m) \/ Edit(m)
  BY DEF OnEditTable
<1>3. Numbered(t) /\ t.at = Tables[selected].at
  <2>1. Numbered(Tables[selected])
    BY <1>1 DEF NumberedTables
  <2> QED
    BY <1>1, <2>1, DialogResultsAreNumbered
<1>4. PICK U : U = [Tables EXCEPT ![selected] = t]
  OBVIOUS
<1>5. DOMAIN U = DOMAIN Tables /\ \A i \in DOMAIN Tables : U[i] = IF i = selected THEN t ELSE Tables[i]
  BY <1>4
<1>6. NumberedTables(U)
  <2>1. \A i \in DOMAIN Tables : U[i].at = Tables[i].at /\ Numbered(U[i])
    BY <1>1, <1>3, <1>5 DEF NumberedTables
  <2> QED
    BY <1>1, <1>5, <2>1, SameTree
<1>7. PICK m : m = [model EXCEPT !.tables[selected] = t]
  OBVIOUS
<1>8. DOMAIN m = DOMAIN model /\ m.tables = U
  <2>1. DOMAIN model = Fields
    BY <1>1 DEF WithinIds, IsEdited
  <2> QED
    BY <1>4, <1>7, <2>1 DEF Fields, Tables
<1>9. WithinIds(m)
  BY <1>1, <1>5, <1>6, <1>8 DEF WithinIds, IsEdited, Tables
<1>10. model' = m /\ selected' = selected /\ copied' = copied
  BY <1>2, <1>7 DEF Edit, EditAndUpdate, Change, clipboard, OnEditTable
<1> QED
  BY <1>9, <1>10 DEF EditKept, EditInv

LEMMA DeleteTableKeeps ==
  ASSUME EditInv, OnDeleteTable
  PROVE  EditKept
<1>1. PICK m : m = DeleteTable(model, selected)
  OBVIOUS
<1>2. WithinIds(model)
  BY DEF EditInv
<1>3. IsEdited(m) /\ Cardinality(DOMAIN m.tables) <= Cardinality(DOMAIN model.tables)
  BY <1>1, <1>2, DeletedIsEdited DEF WithinIds
<1>4. WithinIds(m)
  <2>1. Cardinality(DOMAIN m.tables) \in Nat
    BY <1>3, FS_CardinalityType DEF IsEdited, NumberedTables, SoundTables, IsTree
  <2> QED
    BY <1>2, <1>3, <2>1, TablesAreCounted, TablesAreBounded DEF WithinIds
<1>5. model' = m /\ selected' = selected /\ copied' = copied
  BY <1>1 DEF OnDeleteTable, EditAndUpdate, Change, clipboard
<1> QED
  BY <1>4, <1>5 DEF EditKept, EditInv

\* The tree on the clipboard is added under the selected table: the copies
\* of its sub tables are named by a one-to-one map.
LEMMA TreeIsPasted ==
  ASSUME WithinIds(model), NEW t, Numbered(t), NEW above \in Nat,
         NumberedTables(copied[2]), Room(1 + Cardinality(DOMAIN copied[2]))
  PROVE  LET id == FindNextTableId(Tables, above)
             S  == copied[2]
         IN  /\ id \in Nat \ {0} /\ id \notin DOMAIN Tables
             /\ WithinIds(AddTable(model, id, t, S))
             /\ \E acc, order :
                  /\ acc.model = AddTable(model, id, t, S)
                  /\ Pasted(acc, model, id, S, order, Cardinality(DOMAIN S))
                  /\ DOMAIN acc.ids = {0} \cup DOMAIN S
<1>1. PICK id, S : id = FindNextTableId(Tables, above) /\ S = copied[2]
  OBVIOUS
<1>2. SoundTables(Tables) /\ Cardinality(DOMAIN Tables) \in Nat /\ Cardinality(DOMAIN Tables) <= 998
  BY TablesAreCounted DEF Tables
<1>3. id \in Nat \ {0} /\ id \notin DOMAIN Tables
  BY <1>1, <1>2, NextIdIsFree
<1>4. Cardinality(DOMAIN S) \in Nat
  BY <1>1, FS_CardinalityType DEF NumberedTables, SoundTables, IsTree
<1>5. Cardinality(DOMAIN Tables) + (1 + Cardinality(DOMAIN S)) <= MaxTables
  BY <1>1 DEF Room
<1>6. PICK acc, order :
        /\ acc.model = AddTable(model, id, t, S) /\ Pasted(acc, model, id, S, order, Cardinality(DOMAIN S))
        /\ DOMAIN acc.ids = {0} \cup DOMAIN S
  <2>1. IsEdited(model) /\ NumberedTables(S) /\ id \notin DOMAIN model.tables
    BY <1>1, <1>3 DEF WithinIds, Tables
  <2>2. Cardinality(DOMAIN model.tables) + 1 + Cardinality(DOMAIN S) <= 998
    BY <1>2, <1>4, <1>5, TablesAreBounded DEF Tables
  <2> QED
    BY <1>3, <2>1, <2>2, AddTableIsPasted
<1>7. WithinIds(acc.model)
  <2>1. IsEdited(acc.model)
        /\ Cardinality(DOMAIN acc.model.tables) = Cardinality(DOMAIN Tables) + 1 + Cardinality(DOMAIN S)
    BY <1>6 DEF Pasted, PastedAs, Tables
  <2> QED
    BY <1>2, <1>4, <1>5, <2>1 DEF WithinIds
<1> QED
  BY <1>1, <1>3, <1>6, <1>7

\* What is left after a paste: the tree has been added, or the model is as it
\* was because the second name is taken too.
PasteOf(above, t) ==
  /\ Numbered(t) /\ Room(1 + Cardinality(DOMAIN copied[2])) /\ NumberedTables(copied[2])
  /\ model' \in {model, AddTable(model, FindNextTableId(Tables, above), t, copied[2])}
  /\ selected' = Marked(model'.tables, t.name)

PasteMade == \E above \in Nat : \E t : PasteOf(above, t)

LEMMA PasteSteps ==
  ASSUME EditInv, OnPasteTable
  PROVE  PasteMade /\ copied' = NoTable
<1>1. copied # NoTable /\ Room(1 + Cardinality(DOMAIN copied[2])) /\ copied' = NoTable
  BY DEF OnPasteTable
<1>2. Numbered(copied[1]) /\ NumberedTables(copied[2])
  BY <1>1 DEF EditInv, ClipboardInv
<1>3. PICK above : above = IF selected \in DOMAIN Tables THEN selected ELSE 0
  OBVIOUS
<1>4. above \in Nat
  BY <1>3 DEF EditInv
<1>5. PICK copy : copy = ParentId(copied[1], above)
  OBVIOUS
<1>6. Numbered(copy)
  BY <1>2, <1>4, <1>5, ParentIdFacts
<1>7. PICK id : id = FindNextTableId(Tables, above)
  OBVIOUS
<1>8. \/ /\ Edit(AddTable(model, id, copy, copied[2]))
         /\ selected' = Marked(AddTable(model, id, copy, copied[2]).tables, copy.name)
      \/ \E t \in DialogResults(copy) : \E m \in {model, AddTable(model, id, t, copied[2])} :
           Edit(m) /\ selected' = Marked(m.tables, t.name)
  <2>1. CASE GetTableByName(Tables, copied[1].name) = 0
    BY <1>3, <1>5, <1>7, <2>1 DEF OnPasteTable
  <2>2. CASE GetTableByName(Tables, copied[1].name) # 0
    <3>1. PICK t \in DialogResults(copy) :
            LET m == IF GetTableByName(Tables, t.name) = 0 THEN AddTable(model, id, t, copied[2]) ELSE model
            IN  Edit(m) /\ selected' = Marked(m.tables, t.name)
      BY <1>3, <1>5, <1>7, <2>2 DEF OnPasteTable
    <3> QED
      BY <3>1
  <2> QED
    BY <2>1, <2>2
<1>9. CASE /\ Edit(AddTable(model, id, copy, copied[2]))
           /\ selected' = Marked(AddTable(model, id, copy, copied[2]).tables, copy.name)
  BY <1>1, <1>2, <1>4, <1>6, <1>7, <1>9 DEF PasteMade, PasteOf, Edit, Change
<1>10. ASSUME NEW t \in DialogResults(copy), NEW m \in {model, AddTable(model, id, t, copied[2])},
              Edit(m) /\ selected' = Marked(m.tables, t.name)
       PROVE  PasteMade
  <2>1. NumberedTables(Tables)
    BY TablesAreCounted DEF EditInv, Tables
  <2>2. Numbered(t)
    BY <1>6, <2>1, DialogResultsAreNumbered
  <2>3. model' = m /\ selected' = Marked(model'.tables, t.name)
    BY <1>10 DEF Edit, Change
  <2> QED
    BY <1>1, <1>2, <1>4, <1>7, <2>2, <2>3 DEF PasteMade, PasteOf
<1> QED
  BY <1>1, <1>8, <1>9, <1>10

LEMMA PasteTableKeeps ==
  ASSUME EditInv, OnPasteTable
  PROVE  EditKept
<1>1. PasteMade /\ copied' = NoTable
  BY PasteSteps
<1>2. PICK above \in Nat : \E t : PasteOf(above, t)
  BY <1>1 DEF PasteMade
<1>3. PICK t : PasteOf(above, t)
  BY <1>2
<1>4. PICK m : m = model'
  OBVIOUS
<1>5. WithinIds(m)
  <2>1. WithinIds(model)
    BY DEF EditInv
  <2> QED
    BY <1>3, <1>4, <2>1, TreeIsPasted DEF PasteOf
<1>6. selected' \in Nat
  <2>1. selected' = Marked(m.tables, t.name)
    BY <1>3, <1>4 DEF PasteOf
  <2> QED
    BY <1>5, <2>1, TablesAreCounted, MarkedIsTable
<1> QED
  BY <1>1, <1>4, <1>5, <1>6 DEF EditKept

-----------------------------------------------------------------------------
(***************************************************************************)
(* The handlers of columns, enumerates and relations.                      *)
(***************************************************************************)
LEMMA ColumnsAreColumns == EditInv => AreColumns(Columns)
<1> SUFFICES ASSUME EditInv
             PROVE  AreColumns(Columns)
  OBVIOUS
<1>1. CASE selected \in DOMAIN Tables
  <2>1. Numbered(Tables[selected])
    BY <1>1, TablesAreCounted DEF EditInv, NumberedTables, Tables
  <2> QED
    BY <1>1, <2>1 DEF Numbered, HasColumns, AreColumns, Columns
<1>2. CASE selected \notin DOMAIN Tables
  <2>1. IsList(<< >>) /\ Len(<< >>) = 0
    BY DEF IsList
  <2> QED
    BY <1>2, <2>1 DEF AreColumns, Columns
<1> QED
  BY <1>1, <1>2

LEMMA EditColumnsKeeps ==
  ASSUME EditInv, NEW m, IsEdited(m), m.tables = Tables, NEW cols, AreColumns(cols), EditColumns(m, cols)
  PROVE  EditKept
<1>1. PICK new : new = SetColumns(m, cols)
  OBVIOUS
<1>2. selected \in DOMAIN m.tables
  BY DEF EditColumns
<1>3. IsEdited(new) /\ DOMAIN new.tables = DOMAIN Tables
  BY <1>1, <1>2, ColumnsAreReplaced DEF SetColumns
<1>4. WithinIds(new)
  BY <1>3 DEF WithinIds, EditInv, Tables
<1>5. model' = new /\ selected' = selected /\ copied' = copied
  BY <1>1 DEF EditColumns, Edit, Change, clipboard
<1> QED
  BY <1>4, <1>5 DEF EditKept, EditInv

\* A dialog: the columns that it leaves, and the enumerate that it may add.
LEMMA ColumnDialogAnswer ==
  ASSUME EditInv, NEW c \in DialogColumns, NEW m \in AfterColumnDialog(c)
  PROVE  "ref" \in DOMAIN c /\ c.ref \in Nat /\ IsEdited(m) /\ m.tables = Tables
<1>1. NumberedTables(Tables) /\ IsEdited(model)
  BY TablesAreCounted DEF EditInv, WithinIds, Tables
<1>2. "ref" \in DOMAIN c /\ c.ref \in Nat
  BY <1>1, DialogColumnsAreNumbered
<1>3. IsEdited(m) /\ m.tables = model.tables
  BY <1>1, ColumnDialogKeeps
<1> QED
  BY <1>2, <1>3 DEF Tables

LEMMA AddColumnKeeps ==
  ASSUME EditInv, OnAddColumn
  PROVE  EditKept
<1>1. PICK c \in DialogColumns : \E m \in AfterColumnDialog(c) : EditColumns(m, Append(Columns, c))
  BY DEF OnAddColumn
<1>2. PICK m \in AfterColumnDialog(c) : EditColumns(m, Append(Columns, c))
  BY <1>1
<1>3. "ref" \in DOMAIN c /\ c.ref \in Nat /\ IsEdited(m) /\ m.tables = Tables
  BY ColumnDialogAnswer
<1>4. PICK cols : cols = Append(Columns, c) /\ AreColumns(cols)
  <2>1. AreColumns(Columns)
    BY ColumnsAreColumns
  <2>2. AreColumns(Append(Columns, c))
    BY <1>3, <2>1, OneColumnMore
  <2> QED
    BY <2>2
<1>5. EditColumns(m, cols)
  BY <1>2, <1>4
<1> QED
  BY <1>3, <1>4, <1>5, EditColumnsKeeps

LEMMA EditColumnKeeps ==
  ASSUME EditInv, OnEditColumn
  PROVE  EditKept
<1>1. PICK n \in DOMAIN Columns, c \in DialogColumns : \E m \in AfterColumnDialog(c) :
        LET k == WithName(Columns, Columns[n].name)
        IN  \/ EditColumns(m, [Columns EXCEPT ![k] = c])
            \/ EditColumns(m, Append(Columns, c))
            \/ EditColumns(m, Columns)
  BY DEF OnEditColumn
<1>2. PICK k : k = WithName(Columns, Columns[n].name)
  OBVIOUS
<1>3. PICK m \in AfterColumnDialog(c) :
        \E cols \in {[Columns EXCEPT ![k] = c], Append(Columns, c), Columns} : EditColumns(m, cols)
  BY <1>1, <1>2
<1>4. PICK cols \in {[Columns EXCEPT ![k] = c], Append(Columns, c), Columns} : EditColumns(m, cols)
  BY <1>3
<1>5. "ref" \in DOMAIN c /\ c.ref \in Nat /\ IsEdited(m) /\ m.tables = Tables
  BY ColumnDialogAnswer
<1>6. AreColumns(Columns)
  BY ColumnsAreColumns
<1>7. AreColumns(Append(Columns, c))
  BY <1>5, <1>6, OneColumnMore
<1>8. AreColumns([Columns EXCEPT ![k] = c])
  <2>1. k \in 0 .. Len(Columns) /\ IsList(Columns)
    BY <1>2, <1>6, WithNameIsPlace DEF AreColumns
  <2>2. CASE k = 0
    <3>1. PICK old, N : old = Columns /\ N = Len(old) /\ N \in Nat /\ DOMAIN old = 1 .. N
      BY <2>1 DEF IsList
    <3>2. old = [j \in 1 .. N |-> old[j]]
      BY <2>1, <3>1 DEF IsList
    <3>3. [old EXCEPT ![k] = c] = old
      BY <2>2, <3>1, <3>2
    <3> QED
      BY <1>6, <3>1, <3>3
  <2>3. CASE k \in 1 .. Len(Columns)
    BY <1>5, <1>6, <2>3, OneColumnReplaced
  <2>4. k = 0 \/ k \in 1 .. Len(Columns)
    BY <2>1 DEF IsList
  <2> QED
    BY <2>2, <2>3, <2>4
<1>9. AreColumns(cols)
  BY <1>4, <1>6, <1>7, <1>8
<1> QED
  BY <1>4, <1>5, <1>9, EditColumnsKeeps

\* The handlers without a dialog.
LEMMA ColumnsKeep ==
  ASSUME EditInv, NEW cols, AreColumns(cols), EditColumns(model, cols)
  PROVE  EditKept
<1>1. IsEdited(model) /\ model.tables = Tables
  BY DEF EditInv, WithinIds, Tables
<1> QED
  BY <1>1, EditColumnsKeeps

LEMMA DeleteColumnKeeps ==
  ASSUME EditInv, OnDeleteColumn
  PROVE  EditKept
<1>1. PICK rows : EditColumns(model, Left(Columns, rows))
  BY DEF OnDeleteColumn, Left
<1>2. AreColumns(Left(Columns, rows))
  BY ColumnsAreColumns, LeftAreColumns
<1> QED
  BY <1>1, <1>2, ColumnsKeep

LEMMA MoveColumnsKeeps ==
  ASSUME EditInv, OnColumnUp \/ OnColumnDown
  PROVE  EditKept
<1>1. \E names : EditColumns(model, Up(Columns, names)) \/ EditColumns(model, Down(Columns, names))
  <2>1. CASE OnColumnUp
    BY <2>1 DEF OnColumnUp, Up
  <2>2. CASE OnColumnDown
    BY <2>2 DEF OnColumnDown, Down
  <2> QED
    BY <2>1, <2>2
<1>2. PICK names : EditColumns(model, Up(Columns, names)) \/ EditColumns(model, Down(Columns, names))
  BY <1>1
<1>3. AreColumns(Up(Columns, names)) /\ AreColumns(Down(Columns, names))
  BY ColumnsAreColumns, UpAreColumns, DownAreColumns
<1> QED
  BY <1>2, <1>3, ColumnsKeep

LEMMA SetFlagsKeeps ==
  ASSUME EditInv, NEW rows, NEW on, NEW off, SetFlags(rows, on, off)
  PROVE  EditKept
<1>1. PICK named : named = {WithName(Columns, Columns[n].name) : n \in rows}
  OBVIOUS
<1>2. PICK old, N : /\ old = Columns /\ N = Len(old) /\ N \in Nat /\ DOMAIN old = 1 .. N
                    /\ \A n \in 1 .. N : "ref" \in DOMAIN old[n] /\ old[n].ref \in Nat
  BY ColumnsAreColumns DEF AreColumns, IsList
<1>3. PICK cols : cols = [n \in 1 .. N |->
                            IF n \in named THEN [old[n] EXCEPT !.flags = (@ \cup on) \ off] ELSE old[n]]
  OBVIOUS
<1>4. EditColumns(model, cols)
  BY <1>1, <1>2, <1>3 DEF SetFlags
<1>5. IsList(cols) /\ Len(cols) = N
  BY <1>2, <1>3, ListOf
<1>6. ASSUME NEW n \in 1 .. N
      PROVE  "ref" \in DOMAIN cols[n] /\ cols[n].ref \in Nat
  <2>1. PICK c : c = [old[n] EXCEPT !.flags = (@ \cup on) \ off]
    OBVIOUS
  <2>2. "ref" \in DOMAIN c /\ c.ref = old[n].ref
    BY <1>2, <2>1
  <2>3. cols[n] \in {c, old[n]}
    BY <1>3, <2>1
  <2> QED
    BY <1>2, <2>2, <2>3
<1>7. AreColumns(cols)
  BY <1>5, <1>6 DEF AreColumns
<1> QED
  BY <1>4, <1>7, ColumnsKeep

\* Enumerates and relations: no table changes.
LEMMA EditOtherKeeps ==
  ASSUME EditInv, NEW m, DOMAIN m = DOMAIN model, m.tables = model.tables,
         Edit(m), selected' = selected, copied' = copied
  PROVE  EditKept
<1>1. WithinIds(m)
  BY TablesAreKept DEF EditInv
<1> QED
  BY <1>1 DEF EditKept, Edit, Change, EditInv

LEMMA OtherFields ==
  ASSUME NEW m, IsEdited(m), NEW e, NEW x
  PROVE  /\ DOMAIN AddEnum(m, e, x) = DOMAIN m /\ AddEnum(m, e, x).tables = m.tables
         /\ DOMAIN DeleteEnum(m, e) = DOMAIN m /\ DeleteEnum(m, e).tables = m.tables
         /\ DOMAIN AddRelation(m, e, x) = DOMAIN m /\ AddRelation(m, e, x).tables = m.tables
         /\ DOMAIN DeleteRelation(m, e) = DOMAIN m /\ DeleteRelation(m, e).tables = m.tables
<1>1. DOMAIN m = Fields
  BY DEF IsEdited
<1>2. \A y : /\ DOMAIN [m EXCEPT !.enums = y] = DOMAIN m /\ [m EXCEPT !.enums = y].tables = m.tables
             /\ DOMAIN [m EXCEPT !.relations = y] = DOMAIN m /\ [m EXCEPT !.relations = y].tables = m.tables
  BY <1>1 DEF Fields
<1> QED
  BY <1>2 DEF AddEnum, DeleteEnum, AddRelation, DeleteRelation

LEMMA EnumsKeep ==
  ASSUME EditInv,
         \/ OnAddEnum \/ OnEditEnum \/ OnDeleteEnum \/ OnPasteEnum
         \/ OnAddEnumItem \/ OnEditEnumItem \/ OnDeleteEnumItem
  PROVE  EditKept
<1>1. IsEdited(model) /\ DOMAIN model = Fields
  BY DEF EditInv, WithinIds, IsEdited
<1>2. ASSUME NEW m, DOMAIN m = DOMAIN model, m.tables = model.tables, EditOther(m)
      PROVE  EditKept
  BY <1>2, EditOtherKeeps DEF EditOther, clipboard
<1>3. ASSUME NEW e, NEW items, EditOther(AddEnum(model, e, items))
      PROVE  EditKept
  BY <1>1, <1>2, <1>3, OtherFields
<1>4. CASE OnAddEnum
  BY <1>3, <1>4 DEF OnAddEnum
<1>5. CASE OnEditEnum
  <2>1. ASSUME NEW e, NEW f, NEW items, EditOther(AddEnum(DeleteEnum(model, e), f, items))
        PROVE  EditKept
    <3>1. PICK m : m = DeleteEnum(model, e)
      OBVIOUS
    <3>2. DOMAIN m = DOMAIN model /\ m.tables = model.tables
      BY <1>1, <3>1, OtherFields
    <3>3. IsEdited(m)
      BY <1>1, <3>2 DEF IsEdited
    <3>4. DOMAIN AddEnum(m, f, items) = DOMAIN m /\ AddEnum(m, f, items).tables = m.tables
      BY <3>3, OtherFields
    <3> QED
      BY <1>2, <2>1, <3>1, <3>2, <3>4
  <2> QED
    BY <1>3, <1>5, <2>1 DEF OnEditEnum
<1>6. CASE OnDeleteEnum
  BY <1>1, <1>2, <1>6, OtherFields DEF OnDeleteEnum
<1>7. CASE OnPasteEnum
  <2>1. PICK m : m = AddEnum(model, copiedEnum.name, copiedEnum.items)
    OBVIOUS
  <2>2. DOMAIN m = DOMAIN model /\ m.tables = model.tables
    BY <1>1, <2>1, OtherFields
  <2>3. Edit(m) /\ selected' = selected /\ copied' = copied
    BY <1>7, <2>1 DEF OnPasteEnum
  <2> QED
    BY <2>2, <2>3, EditOtherKeeps
<1>8. ASSUME NEW e, NEW items, EditOther([model EXCEPT !.enums[e] = items])
      PROVE  EditKept
  <2>1. PICK enums : enums = [model.enums EXCEPT ![e] = items]
    OBVIOUS
  <2>2. PICK m : m = [model EXCEPT !.enums[e] = items]
    OBVIOUS
  <2>3. m = [model EXCEPT !.enums = enums]
    BY <2>1, <2>2
  <2>4. DOMAIN m = DOMAIN model /\ m.tables = model.tables
    BY <1>1, <2>3 DEF Fields
  <2> QED
    BY <1>2, <1>8, <2>2, <2>4
<1>9. CASE OnAddEnumItem \/ OnEditEnumItem \/ OnDeleteEnumItem
  <2>1. \E e, items : EditOther([model EXCEPT !.enums[e] = items])
    BY <1>9 DEF OnAddEnumItem, OnEditEnumItem, OnDeleteEnumItem
  <2> QED
    BY <1>8, <2>1
<1> QED
  BY <1>4, <1>5, <1>6, <1>7, <1>9

LEMMA RelationsKeep ==
  ASSUME EditInv, OnAddRelation \/ OnEditRelation \/ OnDeleteRelation
  PROVE  EditKept
<1>1. IsEdited(model)
  BY DEF EditInv, WithinIds
<1>2. ASSUME NEW m, DOMAIN m = DOMAIN model, m.tables = model.tables, EditOther(m)
      PROVE  EditKept
  BY <1>2, EditOtherKeeps DEF EditOther, clipboard
<1>3. ASSUME NEW r, NEW rel, EditOther(AddRelation(model, r, rel))
      PROVE  EditKept
  BY <1>1, <1>2, <1>3, OtherFields
<1>4. CASE OnAddRelation
  BY <1>3, <1>4 DEF OnAddRelation
<1>5. CASE OnEditRelation
  <2>1. ASSUME NEW r, NEW s, NEW rel, EditOther(AddRelation(DeleteRelation(model, r), s, rel))
        PROVE  EditKept
    <3>1. PICK m : m = DeleteRelation(model, r)
      OBVIOUS
    <3>2. DOMAIN m = DOMAIN model /\ m.tables = model.tables
      BY <1>1, <3>1, OtherFields
    <3>3. IsEdited(m)
      BY <1>1, <3>2 DEF IsEdited
    <3>4. DOMAIN AddRelation(m, s, rel) = DOMAIN m /\ AddRelation(m, s, rel).tables = m.tables
      BY <3>3, OtherFields
    <3> QED
      BY <1>2, <2>1, <3>1, <3>2, <3>4
  <2> QED
    BY <1>3, <1>5, <2>1 DEF OnEditRelation
<1>6. CASE OnDeleteRelation
  BY <1>1, <1>2, <1>6, OtherFields DEF OnDeleteRelation
<1> QED
  BY <1>4, <1>5, <1>6

-----------------------------------------------------------------------------
(***************************************************************************)
(* The invariant is inductive.                                             *)
(***************************************************************************)
LEMMA EditStepKeeps ==
  ASSUME EditInv, EditStep
  PROVE  EditKept
<1>1. CASE OnAddTable \/ OnEditTable \/ OnDeleteTable \/ OnPasteTable
  BY <1>1, AddTableKeeps, EditTableKeeps, DeleteTableKeeps, PasteTableKeeps
<1>2. CASE OnAddColumn \/ OnEditColumn \/ OnDeleteColumn \/ OnColumnUp \/ OnColumnDown
  BY <1>2, AddColumnKeeps, EditColumnKeeps, DeleteColumnKeeps, MoveColumnsKeeps
<1>3. CASE OnFlag \/ OnNoFlag
  BY <1>3, SetFlagsKeeps DEF OnFlag, OnNoFlag
<1>4. CASE \/ OnAddEnum \/ OnEditEnum \/ OnDeleteEnum \/ OnPasteEnum
           \/ OnAddEnumItem \/ OnEditEnumItem \/ OnDeleteEnumItem
  BY <1>4, EnumsKeep
<1>5. CASE OnAddRelation \/ OnEditRelation \/ OnDeleteRelation
  BY <1>5, RelationsKeep
<1> QED
  BY <1>1, <1>2, <1>3, <1>4, <1>5 DEF EditStep

\* What no edit touches, and what every edit counts.
LEMMA EditsAreCounted ==
  EditStep => /\ edits' = edits + 1 /\ steps' = steps + 1 /\ modified' = modified
              /\ edits < MaxEdits /\ steps < MaxSteps
              /\ original' = original /\ file' = file /\ backup' = backup
BY DEF EditStep, Edit, EditAndUpdate, Change, EditOther, EditColumns, SetFlags,
       OnAddTable, OnEditTable, OnDeleteTable, OnPasteTable,
       OnAddColumn, OnEditColumn, OnDeleteColumn, OnFlag, OnNoFlag, OnColumnUp, OnColumnDown,
       OnAddEnum, OnEditEnum, OnDeleteEnum, OnPasteEnum,
       OnAddEnumItem, OnEditEnumItem, OnDeleteEnumItem,
       OnAddRelation, OnEditRelation, OnDeleteRelation

LEMMA MovesAreCounted ==
  ASSUME CountersInv, Move, modified' \in BOOLEAN
  PROVE  CountersInv'
<1>1. edits \in 0 .. MaxEdits /\ steps \in edits .. MaxSteps /\ steps < MaxSteps /\ MaxSteps \in Nat
  BY EditorAssumption DEF CountersInv, Move
<1>2. edits' = edits /\ steps' = steps + 1
  BY DEF Move
<1>3. steps + 1 \in edits .. MaxSteps
  BY <1>1
<1> QED
  BY <1>1, <1>2, <1>3 DEF CountersInv

LEMMA ListedIsNumbered ==
  ASSUME NEW t, IsNumbered(t)
  PROVE  Numbered(t)
<1>1. HasColumns(t)
  BY ListIsSeq DEF IsNumbered, HasColumnList, HasColumns
<1>2. DOMAIN t.columns = 1 .. Len(t.columns)
  BY <1>1 DEF HasColumns, IsList
<1> QED
  BY <1>1, <1>2 DEF IsNumbered, Numbered

LEMMA InitialEdit == Init => EditInv
<1> SUFFICES ASSUME Init
             PROVE  EditInv
  OBVIOUS
<1>1. IsNumberedFile(Opened) /\ Len(Opened.tables) <= MaxTables
  <2>1. IsList(Opened.tables) /\ Len(Opened.tables) <= MaxTables
    BY EditorAssumption, ListIsSeq
  <2>2. ASSUME NEW n \in 1 .. Len(Opened.tables)
        PROVE  Opened.tables[n].id \in Int /\ Numbered(Opened.tables[n].table)
    <3>1. n \in DOMAIN Opened.tables
      BY <2>1 DEF IsList
    <3> QED
      BY <3>1, EditorAssumption, ListedIsNumbered
  <2> QED
    BY <2>1, <2>2 DEF IsNumberedFile
<1>2. WithinIds(model)
  <2>1. Len(Opened.tables) <= 998
    <3>1. Len(Opened.tables) \in Nat
      BY <1>1 DEF IsNumberedFile, IsList
    <3> QED
      BY <1>1, <3>1, TablesAreBounded
  <2> QED
    BY <1>1, <2>1, FileIsEdited DEF Init, WithinIds
<1>3. FileInv
  BY <1>1 DEF Init, FileInv
<1>4. ClipboardInv
  <2>1. CASE copied = NoTable
    BY <2>1 DEF ClipboardInv
  <2>2. CASE copied # NoTable
    <3>1. /\ IsNumbered(copied[1]) /\ AreTables(copied[2])
          /\ \A i \in DOMAIN copied[2] : IsNumbered(copied[2][i])
      BY <2>2, EditorAssumption DEF Init
    <3>2. Numbered(copied[1]) /\ SoundTables(copied[2])
      BY <3>1, ListedIsNumbered, TablesAreSound
    <3>3. NumberedTables(copied[2])
      BY <3>1, <3>2, ListedIsNumbered DEF NumberedTables
    <3> QED
      BY <3>2, <3>3 DEF ClipboardInv
  <2> QED
    BY <2>1, <2>2
<1>5. CountersInv
  <2>1. MaxEdits \in Nat /\ MaxSteps \in Nat
    BY EditorAssumption
  <2>2. modified = FALSE /\ edits = 0 /\ steps = 0
    BY DEF Init
  <2>3. edits \in 0 .. MaxEdits /\ steps \in edits .. MaxSteps
    BY <2>1, <2>2
  <2> QED
    BY <2>2, <2>3 DEF CountersInv
<1> QED
  BY <1>2, <1>3, <1>4, <1>5 DEF Init, EditInv, WithinIds

\* A saved model, and a file that is opened.
LEMMA SaveKeeps ==
  ASSUME EditInv, NEW written \in BOOLEAN, DoSaveDocument(written)
  PROVE  EditInv'
<1>1. WithinIds(model') /\ selected' = selected /\ copied' = copied /\ Move
  BY DEF EditInv, DoSaveDocument, clipboard
<1>2. IsEdited(original')
  <2>1. original' \in {model, original}
    BY DEF DoSaveDocument
  <2> QED
    BY <2>1 DEF EditInv, WithinIds
<1>3. FileInv'
  <2>1. CASE written
    <3>1. PICK f : f = SaveModel(model)
      OBVIOUS
    <3>2. IsNumberedFile(f) /\ Len(f.tables) <= Cardinality(DOMAIN model.tables)
      BY <3>1, SavedIsNumbered DEF EditInv, WithinIds
    <3>3. Len(f.tables) <= MaxTables
      <4>1. Len(f.tables) \in Nat
        BY <3>2 DEF IsNumberedFile, IsList
      <4> QED
        BY <3>2, <4>1, TablesAreCounted, TablesAreBounded DEF EditInv, WithinIds
    <3>4. file' = f
      BY <2>1, <3>1 DEF DoSaveDocument
    <3> QED
      BY <3>2, <3>3, <3>4 DEF FileInv
  <2>2. CASE ~written
    BY <2>2 DEF DoSaveDocument, FileInv
  <2> QED
    BY <2>1, <2>2
<1>4. CountersInv'
  <2>1. modified' \in BOOLEAN
    BY DEF EditInv, CountersInv, DoSaveDocument
  <2> QED
    BY <1>1, <2>1, MovesAreCounted DEF EditInv
<1> QED
  BY <1>1, <1>2, <1>3, <1>4 DEF EditInv, ClipboardInv, WithinIds

LEMMA OpenKeeps ==
  ASSUME EditInv, DoOpenDocument
  PROVE  EditInv'
<1>1. IsNumberedFile(file) /\ Len(file.tables) <= MaxTables
  BY DEF DoOpenDocument, EditInv, FileInv
<1>2. PICK m : m = ReadModel(EmptyModel, file)
  OBVIOUS
<1>3. WithinIds(m)
  <2>1. Len(file.tables) <= 998
    <3>1. Len(file.tables) \in Nat
      BY <1>1 DEF IsNumberedFile, IsList
    <3> QED
      BY <1>1, <3>1, TablesAreBounded
  <2> QED
    BY <1>1, <1>2, <2>1, FileIsEdited DEF WithinIds
<1>4. /\ model' = m /\ original' = m /\ file' = file /\ copied' = copied /\ selected' = 0
      /\ modified' = FALSE /\ Move
  BY <1>2 DEF DoOpenDocument, Load, clipboard
<1>5. CountersInv'
  BY <1>4, MovesAreCounted DEF EditInv
<1> QED
  BY <1>3, <1>4, <1>5 DEF EditInv, FileInv, ClipboardInv, WithinIds

LEMMA ImportKeeps ==
  ASSUME EditInv, NEW m, WithinIds(m), Import(m)
  PROVE  EditInv'
<1>1. /\ model' = m /\ original' = m /\ file' = NoFile /\ copied' = copied /\ selected' = 0
      /\ modified' = FALSE /\ Move
  BY DEF Import, clipboard
<1>2. CountersInv'
  BY <1>1, MovesAreCounted DEF EditInv
<1> QED
  BY <1>1, <1>2 DEF EditInv, FileInv, ClipboardInv, WithinIds

LEMMA DatabaseIsEdited == WithinIds(Imported)
<1>1. DOMAIN Imported = Fields
  BY EditorAssumption DEF EmptyModel, Fields
<1>2. SoundTables(Imported.tables) /\ Cardinality(DOMAIN Imported.tables) <= MaxTables
  BY EditorAssumption, TablesAreSound
<1>3. NumberedTables(Imported.tables)
  BY <1>2, EditorAssumption, ListedIsNumbered DEF NumberedTables
<1> QED
  BY <1>1, <1>2, <1>3 DEF WithinIds, IsEdited

LEMMA FilesAreEdited ==
  ASSUME NEW f \in AtfxFiles
  PROVE  WithinIds(AtfxModels[f])
<1>1. Len(f.elements) <= MaxTables
  BY EditorAssumption
<1>2. Len(f.elements) \in Nat
  BY AtfxAssumption
<1>3. Len(f.elements) <= 998
  BY <1>1, <1>2, TablesAreBounded
<1> QED
  BY <1>1, <1>3, AtfxIsEdited DEF WithinIds

LEMMA EditInductive == EditInv /\ [Next]_vars => EditInv'
<1> SUFFICES ASSUME EditInv, [Next]_vars
             PROVE  EditInv'
  OBVIOUS
<1>1. ASSUME model' = model, original' = original, file' = file, copied' = copied,
             selected' \in Nat, CountersInv'
      PROVE  EditInv'
  BY <1>1 DEF EditInv, WithinIds, FileInv, ClipboardInv
<1>2. CASE UNCHANGED vars
  BY <1>1, <1>2 DEF vars, EditInv, CountersInv
<1>3. CASE EditStep
  <2>1. EditKept
    BY <1>3, EditStepKeeps
  <2>2. CountersInv'
    <3>1. edits + 1 \in 0 .. MaxEdits /\ steps + 1 \in (edits + 1) .. MaxSteps
      BY <1>3, EditsAreCounted, EditorAssumption DEF EditInv, CountersInv
    <3> QED
      BY <1>3, <3>1, EditsAreCounted DEF EditInv, CountersInv
  <2>3. IsEdited(original') /\ FileInv'
    BY <1>3, EditsAreCounted DEF EditInv, FileInv
  <2>4. ClipboardInv'
    BY <2>1 DEF EditKept, EditInv, ClipboardInv
  <2> QED
    BY <2>1, <2>2, <2>3, <2>4 DEF EditKept, EditInv, WithinIds
<1>4. ASSUME NEW i \in DOMAIN Tables, SelectTable(Tables[i].name)
      PROVE  EditInv'
  <2>1. selected' \in Nat
    BY <1>4, TablesAreCounted, NamedIsTable DEF SelectTable, EditInv, Tables
  <2> QED
    BY <1>1, <1>4, <2>1 DEF SelectTable, clipboard, EditInv, CountersInv
<1>5. CASE OnCopyTable
  <2>1. /\ selected \in DOMAIN Tables /\ copied' = <<Tables[selected], Below(Tables, selected)>>
        /\ model' = model /\ original' = original /\ file' = file /\ selected' = selected
        /\ modified' = modified /\ Move
    BY <1>5 DEF OnCopyTable, document
  <2>2. CountersInv'
    BY <2>1, MovesAreCounted DEF EditInv, CountersInv
  <2>3. ClipboardInv'
    <3>1. NumberedTables(Tables)
      BY TablesAreCounted DEF EditInv, Tables
    <3>2. NumberedTables(Below(Tables, selected)) /\ Numbered(Tables[selected])
      BY <2>1, <3>1, BelowIsNumbered DEF NumberedTables
    <3>3. PICK c : c = copied'
      OBVIOUS
    <3>4. c[1] = Tables[selected] /\ c[2] = Below(Tables, selected)
      BY <2>1, <3>3
    <3> QED
      BY <3>2, <3>3, <3>4 DEF ClipboardInv
  <2> QED
    BY <2>1, <2>2, <2>3 DEF EditInv, WithinIds, FileInv
<1>6. CASE OnCopyEnum \/ EditPage
  <2>1. /\ model' = model /\ original' = original /\ file' = file /\ selected' = selected
        /\ copied' = copied /\ modified' = modified /\ Move
    BY <1>6 DEF OnCopyEnum, EditPage, document, clipboard
  <2>2. CountersInv'
    BY <2>1, MovesAreCounted DEF EditInv, CountersInv
  <2> QED
    BY <1>1, <2>1, <2>2 DEF EditInv
<1>7. CASE OnSaveTimer
  <2>1. PICK m : m = [model EXCEPT !.title = page]
    OBVIOUS
  <2>2. DOMAIN m = DOMAIN model /\ m.tables = model.tables
    <3>1. DOMAIN model = Fields
      BY DEF EditInv, WithinIds, IsEdited
    <3> QED
      BY <2>1, <3>1 DEF Fields
  <2>3. WithinIds(m)
    BY <2>2, TablesAreKept DEF EditInv
  <2>4. /\ model' = m /\ original' = original /\ file' = file /\ selected' = selected
        /\ copied' = copied /\ edits' = edits /\ steps' = steps /\ modified' = ~Same(original, m)
    BY <1>7, <2>1 DEF OnSaveTimer, clipboard
  <2>5. CountersInv'
    BY <2>4 DEF EditInv, CountersInv
  <2> QED
    BY <2>3, <2>4, <2>5 DEF EditInv, WithinIds, FileInv, ClipboardInv
<1>8. ASSUME NEW written \in BOOLEAN, OnSave(written) \/ OnSaveAs(written)
      PROVE  EditInv'
  BY <1>8, SaveKeeps DEF OnSave, OnSaveAs
<1>9. CASE DoOpenDocument
  BY <1>9, OpenKeeps
<1>10. CASE OnImportDatabase
  BY <1>10, DatabaseIsEdited, ImportKeeps DEF OnImportDatabase
<1>11. ASSUME NEW f \in AtfxFiles, OnImportAtfx(f)
       PROVE  EditInv'
  BY <1>11, FilesAreEdited, ImportKeeps DEF OnImportAtfx
<1> QED
  BY <1>2, <1>3, <1>4, <1>5, <1>6, <1>7, <1>8, <1>9, <1>10, <1>11 DEF Next

\* The tables of a document are a tree under positive ids, in every state: the
\* references, the places and the counters have the types of the code.
THEOREM TypeCorrect == Spec => []TypeOK
<1>1. ASSUME NEW m, IsEdited(m), NEW i \in DOMAIN m.tables
      PROVE  /\ i \in Nat \ {0} /\ m.tables[i].at \in DOMAIN m.tables \cup {0}
             /\ \A n \in DOMAIN m.tables[i].columns : m.tables[i].columns[n].ref \in Nat
             /\ m.tables[i].parent \in Nat
  <2>1. IsTree(m.tables) /\ 0 \notin DOMAIN m.tables /\ Numbered(m.tables[i])
    BY <1>1 DEF IsEdited, NumberedTables, SoundTables
  <2>2. i \in Nat \ {0} /\ m.tables[i].at \in DOMAIN m.tables \cup {0}
    BY <2>1 DEF IsTree, IsRank
  <2>3. \A n \in DOMAIN m.tables[i].columns : n \in 1 .. Len(m.tables[i].columns)
    BY <2>1 DEF Numbered, HasColumns, IsList
  <2> QED
    BY <2>1, <2>2, <2>3 DEF Numbered
<1>2. EditInv => TypeOK
  BY <1>1 DEF EditInv, WithinIds, CountersInv, TypeOK
<1> QED
  BY <1>2, InitialEdit, EditInductive, PTL DEF Spec

-----------------------------------------------------------------------------
(***************************************************************************)
(* The order of the tables, and a model that is saved and read back.       *)
(***************************************************************************)
\* AllTables answers the tables of a document once each, and a table after those
\* that it refers to unless a circle of references keeps it waiting: the order
\* that imodel.h promises, for every document.
THEOREM DependenceOrderHolds == Spec => []DependenceOrder
<1>1. ASSUME EditInv
      PROVE  DependenceOrder
  <2>1. IsTree(Tables)
    BY <1>1, TablesAreCounted DEF EditInv, Tables
  <2>2. PICK list : list = AllTables(Tables)
    OBVIOUS
  <2>3. IsListing(list, Listed(Tables))
    BY <2>1, <2>2, AllTablesListsEach
  <2>4. ToSet(list) = Listed(Tables) /\ IsInjective(list)
    <3>1. \A n \in DOMAIN list : list[n] \in Listed(Tables)
      BY <2>3 DEF IsListing
    <3>2. ToSet(list) = Listed(Tables)
      BY <2>3, <3>1 DEF IsListing, ToSet
    <3> QED
      BY <2>3, <3>2 DEF IsListing, IsInjective
  <2>5. ASSUME NEW n \in DOMAIN list, NEW k \in DOMAIN list, n < k, list[k] \in References(Tables[list[n]])
        PROVE  HeldBack(Tables, list[n])
    BY <2>1, <2>2, <2>5, AllTablesInOrder
  <2> QED
    BY <2>2, <2>4, <2>5 DEF DependenceOrder
<1> QED
  BY <1>1, InitialEdit, EditInductive, PTL DEF Spec

\* A table that is read back: under its parent if that was written before it.
PlaceBack(t, list, k) ==
  [t EXCEPT !.at = IF t.parent \in {list[j] : j \in 1 .. (k - 1)} THEN t.parent ELSE 0]

Saved(T, i) == [T[i] EXCEPT !.at = 0]

IsReadBack(back, T, list) ==
  \A k \in DOMAIN list :
    /\ back.tables[list[k]] = PlaceBack(Undescribed(Saved(T, list[k])), list, k)
    /\ EnumsOf(Saved(T, list[k])) \subseteq DOMAIN back.enums

OthersAreBack(back, m) ==
  /\ \A e \in DOMAIN m.enums : e \in DOMAIN back.enums /\ back.enums[e] = m.enums[e]
  /\ back.relations = ReadRelations(<< >>, m.relations)

LEMMA ReadBack ==
  ASSUME NEW m, IsEdited(m), NEW back, back = ReadModel(EmptyModel, SaveModel(m)),
         NEW T, T = m.tables, NEW list, list = AllTables(T)
  PROVE  /\ IsListing(list, Listed(T)) /\ DOMAIN back.tables = Listed(T)
         /\ IsReadBack(back, T, list) /\ OthersAreBack(back, m)
<1>1. SoundTables(T) /\ IsTree(T)
  BY DEF IsEdited, NumberedTables, SoundTables
<1>2. IsListing(list, Listed(T))
  BY <1>1, AllTablesListsEach
<1>3. PICK saved : saved = SaveModel(m)
  OBVIOUS
<1>4. saved.enums = m.enums /\ saved.relations = m.relations
  BY <1>3 DEF SaveModel
<1>5. /\ AreListed(saved.tables) /\ Len(saved.tables) = Len(list)
      /\ \A n \in 1 .. Len(saved.tables) : saved.tables[n] = SaveTable(T, list[n])
  BY <1>1, <1>3, SavedTables
<1>6. PICK N \in Nat : N = Len(list) /\ DOMAIN list = 1 .. N
  BY <1>2 DEF IsListing
<1>7. Read(back, saved, N)
  BY <1>3, <1>5, <1>6, FileIsRead
<1>8. ASSUME NEW k \in 1 .. N
      PROVE  saved.tables[k].id = list[k] /\ saved.tables[k].table = Saved(T, list[k])
  <2>1. PICK i, t, node : i = list[k] /\ t = Saved(T, list[k]) /\ node = saved.tables[k]
    OBVIOUS
  <2>2. node = [id |-> i, table |-> t]
    BY <1>5, <1>6, <2>1 DEF SaveTable, Saved
  <2>3. node.id = i /\ node.table = t
    BY <2>2
  <2> QED
    BY <2>1, <2>3
<1>9. \A n \in 0 .. N : Ids(saved, n) = {list[j] : j \in 1 .. n}
  <2>1. ASSUME NEW n \in 0 .. N, NEW j \in 1 .. n
        PROVE  saved.tables[j].id = list[j]
    <3>1. j \in 1 .. N
      OBVIOUS
    <3> QED
      BY <1>8, <3>1
  <2> QED
    BY <2>1 DEF Ids
<1>10. DOMAIN back.tables = Listed(T)
  <2>1. DOMAIN back.tables = {list[j] : j \in 1 .. N}
    BY <1>7, <1>9 DEF Read
  <2>2. \A j \in 1 .. N : list[j] \in Listed(T)
    BY <1>2, <1>6 DEF IsListing
  <2>3. \A i \in Listed(T) : \E j \in 1 .. N : list[j] = i
    BY <1>2, <1>6 DEF IsListing
  <2> QED
    BY <2>1, <2>2, <2>3
<1>11. ASSUME NEW k \in DOMAIN list
       PROVE  /\ back.tables[list[k]] = PlaceBack(Undescribed(Saved(T, list[k])), list, k)
              /\ EnumsOf(Saved(T, list[k])) \subseteq DOMAIN back.enums
  <2>1. k \in 1 .. N /\ k - 1 \in 0 .. N
    BY <1>6
  <2>2. back.tables[saved.tables[k].id] = AsRead(saved, k)
        /\ EnumsOf(saved.tables[k].table) \subseteq DOMAIN back.enums
    BY <1>7, <2>1 DEF Read
  <2>3. saved.tables[k].id = list[k] /\ saved.tables[k].table = Saved(T, list[k])
    BY <1>8, <2>1
  <2>4. Ids(saved, k - 1) = {list[j] : j \in 1 .. (k - 1)}
    BY <1>9, <2>1
  <2>5. AsRead(saved, k) = PlaceBack(Undescribed(Saved(T, list[k])), list, k)
    BY <2>3, <2>4 DEF AsRead, PlaceBack
  <2> QED
    BY <2>2, <2>3, <2>5
<1>12. \A e \in DOMAIN m.enums : e \in DOMAIN back.enums /\ back.enums[e] = m.enums[e]
  BY <1>4, <1>7 DEF Read
<1>13. back.relations = ReadRelations(<< >>, m.relations)
  BY <1>4, <1>7 DEF Read
<1> QED
  BY <1>2, <1>10, <1>11, <1>12, <1>13 DEF IsReadBack, OthersAreBack

\* What a model file holds of an edited model comes back from it: the tables
\* with their columns, a table that refers to its parent under it unless a
\* circle keeps the parent waiting, the enumerates and the relations.
THEOREM RoundTripHolds == Spec => []RoundTrip
<1>1. ASSUME EditInv
      PROVE  RoundTrip
  <2>1. PICK T, m : T = Tables /\ m = model
    OBVIOUS
  <2>2. IsEdited(m) /\ T = m.tables /\ IsTree(T) /\ \A i \in DOMAIN T : Numbered(T[i])
    BY <1>1, <2>1, TablesAreCounted DEF EditInv, WithinIds, NumberedTables, Tables
  <2>3. PICK back, list : back = ReadModel(EmptyModel, SaveModel(m)) /\ list = AllTables(T)
    OBVIOUS
  <2>4. PICK none : none = ""
    OBVIOUS
  <2>5. /\ IsListing(list, Listed(T)) /\ DOMAIN back.tables = Listed(T)
        /\ IsReadBack(back, T, list) /\ OthersAreBack(back, m)
    BY <2>2, <2>3, ReadBack
  <2>6. DOMAIN back.relations = DOMAIN m.relations
    <3>1. DOMAIN << >> = {}
      OBVIOUS
    <3> QED
      BY <2>5, <3>1 DEF ReadRelations, OthersAreBack
  <2>7. ASSUME NEW i \in Listed(T)
        PROVE  /\ [back.tables[i] EXCEPT !.at = 0, !.desc = none] = [T[i] EXCEPT !.at = 0, !.desc = none]
               /\ T[i].parent \in (Listed(T) \cap References(T[i])) \ {i} /\ ~HeldBack(T, i)
                    => back.tables[i].at = T[i].parent
               /\ MissingEnums(back, T[i]) = {}
    <3>1. PICK k \in DOMAIN list : list[k] = i
      BY <2>5 DEF IsListing
    <3>2. PICK u : u = Saved(T, i)
      OBVIOUS
    <3>3. PICK t : t = Undescribed(u)
      OBVIOUS
    <3>4. PICK at : at = IF t.parent \in {list[j] : j \in 1 .. (k - 1)} THEN t.parent ELSE 0
      OBVIOUS
    <3>5. back.tables[i] = [t EXCEPT !.at = at] /\ EnumsOf(u) \subseteq DOMAIN back.enums
      BY <2>5, <3>1, <3>2, <3>3, <3>4 DEF IsReadBack, PlaceBack
    <3>6. t = [u EXCEPT !.desc = none]
      BY <2>4, <3>3, Zenon DEF Undescribed
    <3>7. {"name", "at", "parent", "columns"} \subseteq DOMAIN T[i]
      <4>1. i \in DOMAIN T
        BY DEF Listed
      <4> QED
        BY <2>2, <4>1 DEF Numbered, HasColumns
    <3>8. [back.tables[i] EXCEPT !.at = 0, !.desc = none] = [T[i] EXCEPT !.at = 0, !.desc = none]
      BY <3>2, <3>5, <3>6 DEF Saved
    <3>9. t.parent = T[i].parent /\ u.columns = T[i].columns /\ back.tables[i].at = at
      BY <3>2, <3>5, <3>6, <3>7 DEF Saved
    <3>10. ASSUME T[i].parent \in (Listed(T) \cap References(T[i])) \ {i}, ~HeldBack(T, i)
           PROVE  back.tables[i].at = T[i].parent
      <4>1. PICK j \in DOMAIN list : list[j] = T[i].parent
        BY <2>5, <3>10 DEF IsListing
      <4>2. j # k /\ j \in Nat /\ k \in Nat /\ j >= 1
        BY <2>5, <3>1, <3>10, <4>1 DEF IsListing
      <4>3. ~(k < j)
        <5>1. list[j] \in References(T[list[k]]) /\ ~HeldBack(T, list[k])
          BY <3>1, <3>10, <4>1
        <5> QED
          BY <2>2, <2>3, <5>1, AllTablesInOrder
      <4>4. j \in 1 .. (k - 1)
        BY <4>2, <4>3
      <4> QED
        BY <3>4, <3>9, <4>1, <4>4
    <3>11. MissingEnums(back, T[i]) = {}
      <4>1. EnumsOf(u) = {u.columns[n].enum : n \in DOMAIN u.columns} \ {none}
        BY <2>4, Zenon DEF EnumsOf
      <4>2. MissingEnums(back, T[i]) =
              {T[i].columns[n].enum : n \in DOMAIN T[i].columns} \ ({none} \cup DOMAIN back.enums)
        BY <2>4, Zenon DEF MissingEnums
      <4> QED
        BY <3>5, <3>9, <4>1, <4>2
    <3> QED
      BY <3>8, <3>10, <3>11
  <2>8. RoundTrip <=>
          /\ DOMAIN back.tables = Listed(T)
          /\ \A i \in Listed(T) :
               /\ [back.tables[i] EXCEPT !.at = 0, !.desc = none] = [T[i] EXCEPT !.at = 0, !.desc = none]
               /\ T[i].parent \in (Listed(T) \cap References(T[i])) \ {i} /\ ~HeldBack(T, i)
                    => back.tables[i].at = T[i].parent
               /\ MissingEnums(back, T[i]) = {}
          /\ \A e \in DOMAIN m.enums : e \in DOMAIN back.enums /\ back.enums[e] = m.enums[e]
          /\ DOMAIN back.relations = DOMAIN m.relations
    BY <2>1, <2>3, <2>4, Zenon DEF RoundTrip, Enums
  <2> QED
    BY <2>5, <2>6, <2>7, <2>8 DEF OthersAreBack
<1> QED
  BY <1>1, InitialEdit, EditInductive, PTL DEF Spec

-----------------------------------------------------------------------------
(***************************************************************************)
(* What a paste adds.                                                      *)
(***************************************************************************)
\* The tables of S, copied under "top" into the tables new of T.
CopiesUnder(T, S, new, top) ==
  \E copy \in Bijection(DOMAIN S, new \ {top}) :
    \A j \in DOMAIN S : IsCopy(T[copy[j]], S[j], IF S[j].at = 0 THEN top ELSE copy[S[j].at])

IsAdded(T, old, S) ==
  /\ \A i \in DOMAIN old : T[i] = old[i]
  /\ \E top \in DOMAIN T \ DOMAIN old : CopiesUnder(T, S, DOMAIN T \ DOMAIN old, top)

LEMMA PastedIsCopied ==
  ASSUME NEW m, NEW id, NEW S, 0 \notin DOMAIN S, NEW acc, NEW order,
         Pasted(acc, m, id, S, order, Cardinality(DOMAIN S)), DOMAIN acc.ids = {0} \cup DOMAIN S
  PROVE  IsAdded(acc.model.tables, m.tables, S)
<1>1. PICK T, ids, old : T = acc.model.tables /\ ids = acc.ids /\ old = m.tables
  OBVIOUS
<1>2. /\ DOMAIN ids = {0} \cup DOMAIN S
      /\ \A i \in DOMAIN ids : ids[i] \notin DOMAIN old
      /\ \A i, j \in DOMAIN ids : ids[i] = ids[j] => i = j
      /\ DOMAIN T = DOMAIN old \cup {ids[i] : i \in DOMAIN ids}
      /\ \A i \in DOMAIN old : T[i] = old[i]
      /\ \A i \in DOMAIN ids \ {0} : S[i].at \in DOMAIN ids /\ IsCopy(T[ids[i]], S[i], ids[S[i].at])
  BY <1>1 DEF Pasted, PastedAs
<1>3. PICK new : new = DOMAIN T \ DOMAIN old
  OBVIOUS
<1>4. new = {ids[i] : i \in DOMAIN ids}
  BY <1>2, <1>3
<1>5. PICK top : top = ids[0]
  OBVIOUS
<1>6. PICK copy : copy = [j \in DOMAIN S |-> ids[j]]
  OBVIOUS
<1>7. top \in new
  BY <1>2, <1>4, <1>5
<1>8. copy \in Bijection(DOMAIN S, new \ {top})
  <2>1. \A j \in DOMAIN S : j \in DOMAIN ids /\ j # 0 /\ ids[j] # top /\ ids[j] \in new
    BY <1>2, <1>4, <1>5
  <2>2. copy \in [DOMAIN S -> new \ {top}]
    BY <1>6, <2>1
  <2>3. IsInjective(copy)
    BY <1>2, <1>6 DEF IsInjective
  <2>4. ASSUME NEW x \in new \ {top}
        PROVE  \E j \in DOMAIN S : copy[j] = x
    <3>1. PICK i \in DOMAIN ids : ids[i] = x
      BY <1>4
    <3>2. i \in DOMAIN S
      BY <1>2, <1>5, <3>1
    <3> QED
      BY <1>6, <3>1, <3>2
  <2> QED
    BY <2>2, <2>3, <2>4 DEF Bijection, Injection, Surjection
<1>9. ASSUME NEW j \in DOMAIN S
      PROVE  IsCopy(T[copy[j]], S[j], IF S[j].at = 0 THEN top ELSE copy[S[j].at])
  <2>1. j \in DOMAIN ids \ {0} /\ copy[j] = ids[j]
    BY <1>2, <1>6
  <2>2. S[j].at \in {0} \cup DOMAIN S /\ IsCopy(T[ids[j]], S[j], ids[S[j].at])
    BY <1>2, <2>1
  <2>3. ids[S[j].at] = IF S[j].at = 0 THEN top ELSE copy[S[j].at]
    BY <1>5, <1>6, <2>2
  <2> QED
    BY <2>1, <2>2, <2>3
<1>10. CopiesUnder(T, S, new, top)
  BY <1>8, <1>9 DEF CopiesUnder
<1> QED
  BY <1>1, <1>2, <1>3, <1>7, <1>10 DEF IsAdded

\* What a step of a document leaves when it takes the tree off the clipboard.
IsCopied(T, old, S) ==
  T = old \/ IsAdded(T, old, S)

LEMMA PasteCopies ==
  ASSUME EditInv, OnPasteTable
  PROVE  IsCopied(model'.tables, Tables, copied[2])
<1>1. PICK above \in Nat : \E t : PasteOf(above, t)
  BY PasteSteps DEF PasteMade
<1>2. PICK t : PasteOf(above, t)
  BY <1>1
<1>3. PICK m, new, S : m = model /\ new = model' /\ S = copied[2]
  OBVIOUS
<1>4. CASE new = m
  BY <1>3, <1>4 DEF IsCopied, Tables
<1>5. CASE new # m
  <2>1. new = AddTable(m, FindNextTableId(Tables, above), t, S)
    BY <1>2, <1>3, <1>5 DEF PasteOf
  <2>2. Numbered(t) /\ NumberedTables(S) /\ Room(1 + Cardinality(DOMAIN copied[2])) /\ WithinIds(model)
    BY <1>2, <1>3 DEF PasteOf, EditInv
  <2>3. PICK id : id = FindNextTableId(Tables, above)
    OBVIOUS
  <2>4. \E acc, order :
          /\ acc.model = new /\ Pasted(acc, m, id, S, order, Cardinality(DOMAIN S))
          /\ DOMAIN acc.ids = {0} \cup DOMAIN S
    BY <1>3, <2>1, <2>2, <2>3, TreeIsPasted
  <2>5. PICK acc, order :
          /\ acc.model = new /\ Pasted(acc, m, id, S, order, Cardinality(DOMAIN S))
          /\ DOMAIN acc.ids = {0} \cup DOMAIN S
    BY <2>4
  <2>6. 0 \notin DOMAIN S
    BY <2>2 DEF NumberedTables, SoundTables
  <2>7. IsAdded(new.tables, m.tables, S)
    BY <2>5, <2>6, PastedIsCopied
  <2> QED
    BY <1>3, <2>7 DEF IsCopied, Tables
<1> QED
  BY <1>4, <1>5

\* Only a paste empties the clipboard.
LEMMA OnlyPasteEmpties ==
  ASSUME [Next]_vars, copied # NoTable, copied' = NoTable
  PROVE  OnPasteTable
<1>1. copied' # copied
  OBVIOUS
<1>2. \A t, S : <<t, S>> # NoTable
  BY DEF NoTable
<1>3. ~UNCHANGED vars
  BY <1>1 DEF vars
<1>4. CASE EditStep
  BY <1>1, <1>4 DEF EditStep, EditOther, EditColumns, SetFlags, clipboard,
       OnAddTable, OnEditTable, OnDeleteTable,
       OnAddColumn, OnEditColumn, OnDeleteColumn, OnFlag, OnNoFlag, OnColumnUp, OnColumnDown,
       OnAddEnum, OnEditEnum, OnDeleteEnum, OnPasteEnum,
       OnAddEnumItem, OnEditEnumItem, OnDeleteEnumItem,
       OnAddRelation, OnEditRelation, OnDeleteRelation
<1>5. ~OnCopyTable
  BY <1>2 DEF OnCopyTable
<1>6. CASE \E i \in DOMAIN Tables : SelectTable(Tables[i].name)
  BY <1>1, <1>6 DEF SelectTable, clipboard
<1>7. CASE OnCopyEnum \/ EditPage \/ OnSaveTimer \/ DoOpenDocument
  BY <1>1, <1>7 DEF OnCopyEnum, EditPage, OnSaveTimer, DoOpenDocument, clipboard
<1>8. CASE \E written \in BOOLEAN : OnSave(written) \/ OnSaveAs(written)
  BY <1>1, <1>8 DEF OnSave, OnSaveAs, DoSaveDocument, clipboard
<1>9. CASE OnImportDatabase \/ \E f \in AtfxFiles : OnImportAtfx(f)
  BY <1>1, <1>9 DEF OnImportDatabase, OnImportAtfx, Import, clipboard
<1> QED
  BY <1>3, <1>4, <1>5, <1>6, <1>7, <1>8, <1>9 DEF Next

\* A paste adds a copy of the copied tree, for every tree and every model that
\* has room for it: each sub table under the copy of its parent and referring
\* to it, and no table of the model changes.
THEOREM PasteAddsACopy == Spec => PasteIsCopy
<1>1. ASSUME EditInv, [Next]_vars, copied # NoTable, copied' = NoTable
      PROVE  IsCopied(model'.tables, Tables, copied[2])
  BY <1>1, OnlyPasteEmpties, PasteCopies
<1>2. EditInv /\ [Next]_vars =>
        [copied # NoTable /\ copied' = NoTable =>
           LET T    == model'.tables
               S    == copied[2]
               news == DOMAIN T \ DOMAIN Tables
               Copies(i, j, above) ==
                 /\ T[i].at = above /\ T[i].parent = above /\ T[i].name = S[j].name
                 /\ \A n \in DOMAIN S[j].columns :
                      T[i].columns[n].ref = IF S[j].columns[n].ref \in {S[j].parent} \ {0}
                                            THEN above ELSE S[j].columns[n].ref
           IN  /\ \A i \in DOMAIN Tables : T[i] = Tables[i]
               /\ news = {} \/ \E top \in news : \E copy \in Bijection(DOMAIN S, news \ {top}) :
                    \A j \in DOMAIN S :
                      Copies(copy[j], j, IF S[j].at = 0 THEN top ELSE copy[S[j].at])]_vars
  <2>1. ASSUME EditInv, [Next]_vars, copied # NoTable, copied' = NoTable
        PROVE  /\ \A i \in DOMAIN Tables : model'.tables[i] = Tables[i]
               /\ \/ DOMAIN model'.tables \ DOMAIN Tables = {}
                  \/ \E top \in DOMAIN model'.tables \ DOMAIN Tables :
                       \E copy \in Bijection(DOMAIN copied[2], (DOMAIN model'.tables \ DOMAIN Tables) \ {top}) :
                         \A j \in DOMAIN copied[2] :
                           IsCopy(model'.tables[copy[j]], copied[2][j],
                                  IF copied[2][j].at = 0 THEN top ELSE copy[copied[2][j].at])
    <3>1. CASE model'.tables = Tables
      BY <3>1
    <3>2. CASE IsAdded(model'.tables, Tables, copied[2])
      BY <3>2 DEF IsAdded, CopiesUnder
    <3> QED
      BY <1>1, <2>1, <3>1, <3>2 DEF IsCopied
  <2> QED
    BY <2>1, Zenon DEF IsCopy
<1> QED
  BY <1>2, InitialEdit, EditInductive, PTL DEF Spec, PasteIsCopy

-----------------------------------------------------------------------------
(***************************************************************************)
(* What an open document can still be recovered from.                      *)
(***************************************************************************)
\* A file holds the model that was last opened from it or saved to it.
Holds(f) == f = SaveModel(original) \/ original = ReadModel(EmptyModel, f)

FromElsewhere == original = Imported \/ \E f \in AtfxFiles : original = AtfxModels[f]

\* The newest of the two files is the one that counts: a save that fails
\* makes the backup the newest.
DiskInv ==
  \/ file # NoFile /\ Holds(file)
  \/ file = NoFile /\ backup # NoFile /\ Holds(backup)
  \/ FromElsewhere

LEMMA SavedIsAFile == \A m : SaveModel(m) # NoFile
BY DEF SaveModel, NoFile

\* What no handler but open, import and save touches.
OnDisk == <<original, file, backup>>

LEMMA EditsLeaveDisk == EditStep => UNCHANGED OnDisk
BY DEF EditStep, OnDisk, Edit, EditAndUpdate, Change, EditOther, EditColumns, SetFlags,
       OnAddTable, OnEditTable, OnDeleteTable, OnPasteTable,
       OnAddColumn, OnEditColumn, OnDeleteColumn, OnFlag, OnNoFlag, OnColumnUp, OnColumnDown,
       OnAddEnum, OnEditEnum, OnDeleteEnum, OnPasteEnum,
       OnAddEnumItem, OnEditEnumItem, OnDeleteEnumItem,
       OnAddRelation, OnEditRelation, OnDeleteRelation

LEMMA SaveKeepsDisk ==
  ASSUME DiskInv, NEW written \in BOOLEAN, DoSaveDocument(written)
  PROVE  DiskInv'
<1>1. CASE written
  <2>1. file' = SaveModel(model) /\ original' = model
    BY <1>1 DEF DoSaveDocument
  <2> QED
    BY <2>1, SavedIsAFile DEF DiskInv, Holds
<1>2. CASE ~written
  <2>1. /\ backup' = IF file = NoFile THEN backup ELSE file
        /\ file' = NoFile /\ original' = original
    BY <1>2 DEF DoSaveDocument
  <2> QED
    BY <2>1 DEF DiskInv, Holds, FromElsewhere
<1> QED
  BY <1>1, <1>2

LEMMA DiskInductive == DiskInv /\ [Next]_vars => DiskInv'
<1> SUFFICES ASSUME DiskInv, [Next]_vars
             PROVE  DiskInv'
  OBVIOUS
<1>1. ASSUME UNCHANGED OnDisk
      PROVE  DiskInv'
  BY <1>1 DEF OnDisk, DiskInv, Holds, FromElsewhere
<1>2. CASE UNCHANGED vars
  BY <1>1, <1>2 DEF vars, OnDisk
<1>3. CASE EditStep
  BY <1>1, <1>3, EditsLeaveDisk
<1>4. CASE \E i \in DOMAIN Tables : SelectTable(Tables[i].name)
  BY <1>1, <1>4 DEF SelectTable, OnDisk
<1>5. CASE OnCopyTable \/ OnCopyEnum \/ EditPage \/ OnSaveTimer
  BY <1>1, <1>5 DEF OnCopyTable, OnCopyEnum, EditPage, OnSaveTimer, document, OnDisk
<1>6. CASE \E written \in BOOLEAN : OnSave(written) \/ OnSaveAs(written)
  BY <1>6, SaveKeepsDisk DEF OnSave, OnSaveAs
<1>7. CASE DoOpenDocument
  BY <1>7 DEF DoOpenDocument, Load, DiskInv, Holds
<1>8. CASE OnImportDatabase \/ \E f \in AtfxFiles : OnImportAtfx(f)
  BY <1>8 DEF OnImportDatabase, OnImportAtfx, Import, DiskInv, FromElsewhere
<1> QED
  BY <1>2, <1>3, <1>4, <1>5, <1>6, <1>7, <1>8 DEF Next

LEMMA DiskInitial == Init => DiskInv
BY EditorAssumption DEF Init, DiskInv, Holds

\* Whatever is edited, imported and saved in a document, with saves that fail
\* half way: the model as last opened or saved is in the file or in its newest
\* backup (DoSaveDocument moves the file to a backup before it writes).
THEOREM LastSaveIsOnDisk == Spec => []LastSaveOnDisk
<1>1. DiskInv => LastSaveOnDisk
  BY DEF DiskInv, Holds, FromElsewhere, LastSaveOnDisk
<1> QED
  BY <1>1, DiskInductive, DiskInitial, PTL DEF Spec
==============================================================================
