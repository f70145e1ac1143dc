-------------------------- MODULE ModelTables_proofs --------------------------
(***************************************************************************)
(* AllTables lists the tables of a model as long as they are a tree, and   *)
(* a model that is written to a file is a tree when it is read.            *)
(***************************************************************************)
EXTENDS ModelTables, WellFoundedInduction, FiniteSetTheorems, TLAPS

LEMMA LeastElement ==
  ASSUME NEW S \in SUBSET Nat, S # {}
  PROVE  \E x \in S : \A y \in S : x <= y
<1> DEFINE Less == {p \in Nat \X Nat : p[1] < p[2]}
<1>1. IsWellFoundedOn(Less, Nat)
  <2>1. OpToRel(<, Nat) = Less
    BY DEF OpToRel
  <2> QED
    BY <2>1, NatLessThanWellFounded
<1>2. PICK x \in S : \A y \in S : ~ (<<y, x>> \in Less)
  BY <1>1, WFMin
<1>3. ASSUME NEW y \in S
      PROVE  x <= y
  <2>1. x \in Nat /\ y \in Nat
    OBVIOUS
  <2>2. ~ (y < x)
    BY <1>2, <2>1
  <2> QED
    BY <2>1, <2>2
<1> QED
  BY <1>3

LEMMA MinIsElement == ASSUME NEW S \in SUBSET Nat, S # {} PROVE Min(S) \in S
BY LeastElement DEF Min

LEMMA UpTo ==
  ASSUME NEW N \in Nat, NEW T, 0 \in T, \A k \in 0 .. N : k + 1 \in 0 .. N /\ k \in T => k + 1 \in T
  PROVE  0 .. N \subseteq T
<1> DEFINE Missing == {k \in 0 .. N : k \notin T}
<1>1. SUFFICES ASSUME Missing # {} PROVE FALSE
  OBVIOUS
<1>2. PICK x \in Missing : \A y \in Missing : x <= y
  <2>1. Missing \in SUBSET Nat
    OBVIOUS
  <2> HIDE DEF Missing
  <2> QED
    BY <1>1, <2>1, LeastElement
<1>3. x \in 1 .. N
  BY <1>2
<1>4. x - 1 \in 0 .. N /\ x - 1 \in T
  BY <1>2, <1>3
<1>5. (x - 1) + 1 = x
  BY <1>3
<1> QED
  BY <1>2, <1>3, <1>4, <1>5

\* The values of a recursive function whose steps stay in a set.
IsIteration(f, N, S, first, next) ==
  /\ f \in [0 .. N -> S] /\ f[0] = first
  /\ \A n \in 1 .. N : f[n] = next[<<f[n - 1], n>>]

LEMMA Iterates ==
  ASSUME NEW N \in Nat, NEW S, NEW first \in S, NEW next \in [S \X (1 .. N) -> S]
  PROVE  \E f : IsIteration(f, N, S, first, next)
<1> DEFINE Holds(f, k) == /\ f \in [0 .. N -> S] /\ f[0] = first
                          /\ \A n \in 1 .. k : f[n] = next[<<f[n - 1], n>>]
           T == {k \in 0 .. N : \E f : Holds(f, k)}
<1>1. 0 \in T
  <2>1. Holds([n \in 0 .. N |-> first], 0)
    OBVIOUS
  <2>2. 0 \in 0 .. N
    OBVIOUS
  <2> HIDE DEF Holds
  <2> QED
    BY <2>1, <2>2
<1>2. ASSUME NEW k \in 0 .. N, k + 1 \in 0 .. N, k \in T
      PROVE  k + 1 \in T
  <2>1. PICK f : Holds(f, k)
    BY <1>2
  <2>2. PICK x : x = next[<<f[k], k + 1>>]
    OBVIOUS
  <2>3. f[k] \in S /\ k + 1 \in 1 .. N
    BY <1>2, <2>1
  <2>4. x \in S
    BY <2>2, <2>3
  <2>5. PICK g : g = [n \in 0 .. N |-> IF n = k + 1 THEN x ELSE f[n]]
    OBVIOUS
  <2>6. g \in [0 .. N -> S] /\ g[0] = first
    BY <2>1, <2>4, <2>5
  <2>7. ASSUME NEW n \in 1 .. (k + 1)
        PROVE  g[n] = next[<<g[n - 1], n>>]
    <3>1. n \in 0 .. N /\ n - 1 \in 0 .. N /\ n - 1 # k + 1
      BY <1>2
    <3>2. g[n - 1] = f[n - 1]
      BY <2>5, <3>1
    <3>3. CASE n = k + 1
      <4>1. n - 1 = k
        BY <3>3
      <4> QED
        BY <2>2, <2>5, <3>1, <3>2, <3>3, <4>1
    <3>4. CASE n # k + 1
      <4>1. n \in 1 .. k /\ g[n] = f[n]
        BY <2>5, <3>1, <3>4
      <4> QED
        BY <2>1, <3>2, <4>1
    <3> QED
      BY <3>3, <3>4
  <2>8. Holds(g, k + 1)
    BY <2>6, <2>7
  <2> QED
    BY <1>2, <2>8
<1>3. N \in T
  <2> HIDE DEF T
  <2>1. 0 .. N \subseteq T
    BY <1>1, <1>2, UpTo
  <2> QED
    BY <2>1
<1> QED
  BY <1>3 DEF IsIteration

-----------------------------------------------------------------------------
(***************************************************************************)
(* Lists.                                                                  *)
(***************************************************************************)
IsList(s) == Len(s) \in Nat /\ DOMAIN s = 1 .. Len(s) /\ s = [n \in 1 .. Len(s) |-> s[n]]

LEMMA ListOf ==
  ASSUME NEW N \in Nat, NEW s, s = [n \in 1 .. N |-> s[n]]
  PROVE  IsList(s) /\ Len(s) = N
<1>1. s \in Seq({s[n] : n \in 1 .. N})
  OBVIOUS
<1>2. DOMAIN s = 1 .. N
  OBVIOUS
<1> QED
  BY <1>1, <1>2 DEF IsList

LEMMA ListIsSeq ==
  ASSUME NEW S, NEW s
  PROVE  s \in Seq(S) <=> IsList(s) /\ \A n \in 1 .. Len(s) : s[n] \in S
<1>1. ASSUME s \in Seq(S)
      PROVE  IsList(s) /\ \A n \in 1 .. Len(s) : s[n] \in S
  BY <1>1 DEF IsList
<1>2. ASSUME IsList(s), \A n \in 1 .. Len(s) : s[n] \in S
      PROVE  s \in Seq(S)
  BY <1>2 DEF IsList
<1> QED
  BY <1>1, <1>2

LEMMA ListConcat ==
  ASSUME NEW s, NEW t, IsList(s), IsList(t)
  PROVE  IsList(s \o t)
<1> DEFINE X == {s[n] : n \in 1 .. Len(s)} \cup {t[n] : n \in 1 .. Len(t)}
<1>1. s \in Seq(X) /\ t \in Seq(X)
  <2>1. \A n \in 1 .. Len(s) : s[n] \in X
    OBVIOUS
  <2>2. \A n \in 1 .. Len(t) : t[n] \in X
    OBVIOUS
  <2> HIDE DEF X
  <2> QED
    BY <2>1, <2>2, ListIsSeq
<1> HIDE DEF X
<1>2. s \o t \in Seq(X)
  BY <1>1
<1> QED
  BY <1>2, ListIsSeq

LEMMA FlattenIsSeq ==
  ASSUME NEW X, NEW seqs \in Seq(Seq(X))
  PROVE  FlattenSeq(seqs) \in Seq(X)
<1> DEFINE N == Len(seqs)
           G(f) == [i \in 1 .. N |-> IF i = 1 THEN seqs[i] ELSE f[i - 1] \o seqs[i]]
           flatten == CHOOSE f : f = G(f)
<1>1. CASE N = 0
  <2>1. FlattenSeq(seqs) = seqs
    BY <1>1 DEF FlattenSeq
  <2>2. seqs = << >>
    BY <1>1
  <2> QED
    BY <2>1, <2>2
<1>2. CASE N # 0
  <2>1. FlattenSeq(seqs) = flatten[N]
    BY <1>2 DEF FlattenSeq
  <2>2. N \in Nat \ {0} /\ \A i \in 1 .. N : seqs[i] \in Seq(X)
    BY <1>2
  <2> HIDE DEF N
  <2>3. PICK f \in [0 .. N -> Seq(X)] :
          f[0] = << >> /\ \A n \in 1 .. N : f[n] = f[n - 1] \o seqs[n]
    <3> DEFINE next == [p \in Seq(X) \X (1 .. N) |-> p[1] \o seqs[p[2]]]
    <3>1. next \in [Seq(X) \X (1 .. N) -> Seq(X)]
      <4>1. ASSUME NEW p \in Seq(X) \X (1 .. N)
            PROVE  p[1] \o seqs[p[2]] \in Seq(X)
        <5>1. p[1] \in Seq(X) /\ seqs[p[2]] \in Seq(X)
          BY <2>2
        <5> QED
          BY <5>1
      <4> QED
        BY <4>1
    <3>2. << >> \in Seq(X)
      OBVIOUS
    <3>3. \A a \in Seq(X), n \in 1 .. N : next[<<a, n>>] = a \o seqs[n]
      OBVIOUS
    <3> HIDE DEF next
    <3>4. PICK f \in [0 .. N -> Seq(X)] :
            f[0] = << >> /\ \A n \in 1 .. N : f[n] = next[<<f[n - 1], n>>]
      <4>1. \E f : IsIteration(f, N, Seq(X), << >>, next)
        BY <2>2, <3>1, <3>2, Iterates
      <4> QED
        BY <4>1 DEF IsIteration
    <3>5. ASSUME NEW n \in 1 .. N
          PROVE  f[n] = f[n - 1] \o seqs[n]
      <4>1. n - 1 \in 0 .. N
        BY <2>2
      <4>2. f[n - 1] \in Seq(X)
        BY <4>1
      <4> QED
        BY <3>3, <3>4, <4>2
    <3> QED
      BY <3>4, <3>5
  <2>4. PICK g : g = [i \in 1 .. N |-> f[i]]
    OBVIOUS
  <2>5. ASSUME NEW i \in 1 .. N
        PROVE  g[i] = IF i = 1 THEN seqs[i] ELSE g[i - 1] \o seqs[i]
    <3>1. g[i] = f[i - 1] \o seqs[i]
      BY <2>3, <2>4
    <3>2. CASE i = 1
      <4>1. f[i - 1] = << >> /\ seqs[i] \in Seq(X)
        BY <2>2, <2>3, <3>2
      <4>2. << >> \o seqs[i] = seqs[i]
        BY <4>1
      <4> QED
        BY <3>1, <3>2, <4>1, <4>2
    <3>3. CASE i # 1
      <4>1. i - 1 \in 1 .. N
        BY <2>2, <3>3
      <4>2. g[i - 1] = f[i - 1]
        BY <2>4, <4>1
      <4> QED
        BY <3>1, <3>3, <4>2
    <3> QED
      BY <3>2, <3>3
  <2>6. g = G(g)
    BY <2>4, <2>5
  <2>7. flatten = G(flatten)
    BY <2>6
  <2>8. \A i \in 1 .. N : flatten[i] = IF i = 1 THEN seqs[i] ELSE flatten[i - 1] \o seqs[i]
    <3> HIDE DEF flatten
    <3> QED
      BY <2>7
  <2> HIDE DEF flatten
  <2> DEFINE T == {k \in 0 .. N : k = 0 \/ flatten[k] \in Seq(X)}
  <2>9. N \in T
    <3>1. 0 \in T
      BY <2>2
    <3>2. ASSUME NEW k \in 0 .. N, k + 1 \in 0 .. N, k \in T
          PROVE  k + 1 \in T
      <4>1. k + 1 \in 1 .. N /\ (k + 1) - 1 = k
        BY <3>2
      <4>2. flatten[k + 1] = IF k + 1 = 1 THEN seqs[k + 1] ELSE flatten[k] \o seqs[k + 1]
        BY <2>8, <4>1
      <4>3. seqs[k + 1] \in Seq(X)
        BY <2>2, <4>1
      <4>4. CASE k = 0
        BY <3>2, <4>2, <4>3, <4>4
      <4>5. CASE k # 0
        <5>1. flatten[k] \in Seq(X) /\ k + 1 # 1
          BY <3>2, <4>5
        <5>2. flatten[k] \o seqs[k + 1] \in Seq(X)
          BY <4>3, <5>1
        <5> QED
          BY <3>2, <4>2, <5>1, <5>2
      <4> QED
        BY <4>4, <4>5
    <3> HIDE DEF T
    <3>3. 0 .. N \subseteq T
      BY <2>2, <3>1, <3>2, UpTo
    <3> QED
      BY <2>2, <3>3
  <2> QED
    BY <2>1, <2>2, <2>9
<1> QED
  BY <1>1, <1>2

LEMMA FlattenIsList ==
  ASSUME NEW N \in Nat, NEW seqs, seqs = [n \in 1 .. N |-> seqs[n]], \A n \in 1 .. N : IsList(seqs[n])
  PROVE  IsList(FlattenSeq(seqs))
<1> DEFINE X == UNION {{seqs[n][k] : k \in 1 .. Len(seqs[n])} : n \in 1 .. N}
<1>1. ASSUME NEW n \in 1 .. N
      PROVE  seqs[n] \in Seq(X)
  <2>1. \A k \in 1 .. Len(seqs[n]) : seqs[n][k] \in X
    OBVIOUS
  <2> HIDE DEF X
  <2> QED
    BY <2>1, ListIsSeq
<1> HIDE DEF X
<1>2. seqs \in Seq(Seq(X))
  <2>1. IsList(seqs) /\ Len(seqs) = N
    BY ListOf
  <2> QED
    BY <1>1, <2>1, ListIsSeq
<1>3. FlattenSeq(seqs) \in Seq(X)
  BY <1>2, FlattenIsSeq
<1> QED
  BY <1>3, ListIsSeq

LEMMA SetToSeqIsList ==
  ASSUME NEW S, IsFiniteSet(S)
  PROVE  IsList(SetToSeq(S)) /\ \A n \in 1 .. Len(SetToSeq(S)) : SetToSeq(S)[n] \in S
<1> DEFINE N == Cardinality(S)
<1>1. N \in Nat /\ ExistsBijection(1 .. N, S)
  BY FS_CardinalityType
<1>2. PICK f \in Bijection(1 .. N, S) : TRUE
  BY <1>1 DEF ExistsBijection
<1>3. f \in [1 .. N -> S] /\ IsInjective(f)
  BY <1>2 DEF Bijection, Injection, IsInjective
<1>4. SetToSeq(S) \in [1 .. N -> S]
  BY <1>3 DEF SetToSeq
<1>5. PICK s : s = SetToSeq(S)
  OBVIOUS
<1>6. s = [n \in 1 .. N |-> s[n]] /\ \A n \in 1 .. N : s[n] \in S
  BY <1>4, <1>5
<1>7. IsList(s) /\ Len(s) = N
  BY <1>1, <1>6, ListOf
<1> QED
  BY <1>5, <1>6, <1>7

-----------------------------------------------------------------------------
(***************************************************************************)
(* Paths.  They are ordered by the first place at which they differ, where *)
(* one of them may end.                                                    *)
(***************************************************************************)
Splits(p, q, n) ==
  /\ n \in 1 .. Len(q) /\ n <= Len(p) + 1
  /\ \A k \in 1 .. (n - 1) : p[k] = q[k]
  /\ n <= Len(p) => p[n] < q[n]

LEMMA SamePrefix ==
  ASSUME NEW p \in Seq(Nat), NEW q \in Seq(Nat), NEW m \in Nat, m <= Len(p), m <= Len(q)
  PROVE  SubSeq(p, 1, m) = SubSeq(q, 1, m) <=> \A k \in 1 .. m : p[k] = q[k]
<1>1. PICK s, t : s = SubSeq(p, 1, m) /\ t = SubSeq(q, 1, m)
  OBVIOUS
<1>2. s \in Seq(Nat) /\ Len(s) = m /\ \A k \in 1 .. m : s[k] = p[k]
  BY <1>1, SMTT(30)
<1>3. t \in Seq(Nat) /\ Len(t) = m /\ \A k \in 1 .. m : t[k] = q[k]
  BY <1>1
<1>4. s = t <=> \A k \in 1 .. m : s[k] = t[k]
  BY <1>2, <1>3
<1> QED
  BY <1>1, <1>2, <1>3, <1>4

LEMMA BeforeSplits ==
  ASSUME NEW p \in Seq(Nat), NEW q \in Seq(Nat)
  PROVE  Before(p, q) <=> \E n : Splits(p, q, n)
<1>1. ASSUME Len(p) < Len(q), IsPrefix(p, q)
      PROVE  Splits(p, q, Len(p) + 1)
  <2>1. SubSeq(p, 1, Len(p)) = SubSeq(q, 1, Len(p)) /\ Len(p) \in Nat /\ Len(q) \in Nat
    BY <1>1 DEF IsPrefix
  <2>2. \A k \in 1 .. Len(p) : p[k] = q[k]
    BY <1>1, <2>1, SamePrefix
  <2> QED
    BY <1>1, <2>1, <2>2 DEF Splits
<1>2. ASSUME NEW n \in 1 .. Len(p) \cap 1 .. Len(q), p[n] < q[n],
             SubSeq(p, 1, n - 1) = SubSeq(q, 1, n - 1)
      PROVE  Splits(p, q, n)
  <2>1. n - 1 \in Nat /\ n - 1 <= Len(p) /\ n - 1 <= Len(q)
    OBVIOUS
  <2>2. \A k \in 1 .. (n - 1) : p[k] = q[k]
    BY <1>2, <2>1, SamePrefix
  <2> QED
    BY <1>2, <2>2 DEF Splits
<1>3. ASSUME NEW n, Splits(p, q, n)
      PROVE  Before(p, q)
  <2>1. n \in 1 .. Len(q) /\ n - 1 \in Nat /\ n - 1 <= Len(p) /\ n - 1 <= Len(q)
    BY <1>3 DEF Splits
  <2>2. SubSeq(p, 1, n - 1) = SubSeq(q, 1, n - 1)
    BY <1>3, <2>1, SamePrefix DEF Splits
  <2>3. CASE n = Len(p) + 1
    <3>1. n - 1 = Len(p)
      BY <2>3
    <3>2. Len(p) < Len(q) /\ IsPrefix(p, q)
      BY <2>1, <2>2, <3>1 DEF IsPrefix
    <3> QED
      BY <3>2 DEF Before
  <2>4. CASE n # Len(p) + 1
    <3>1. n \in 1 .. Len(p) /\ p[n] < q[n]
      BY <1>3, <2>1, <2>4 DEF Splits
    <3> QED
      BY <2>1, <2>2, <3>1 DEF Before
  <2> QED
    BY <2>3, <2>4
<1> QED
  BY <1>1, <1>2, <1>3 DEF Before

LEMMA BeforeIrreflexive ==
  ASSUME NEW p \in Seq(Nat)
  PROVE  ~Before(p, p)
<1>1. ASSUME NEW n, Splits(p, p, n)
      PROVE  FALSE
  BY <1>1 DEF Splits
<1> QED
  BY <1>1, BeforeSplits

LEMMA BeforeTransitive ==
  ASSUME NEW p \in Seq(Nat), NEW q \in Seq(Nat), NEW r \in Seq(Nat), Before(p, q), Before(q, r)
  PROVE  Before(p, r)
<1>1. PICK n : Splits(p, q, n)
  BY BeforeSplits
<1>2. PICK l : Splits(q, r, l)
  BY BeforeSplits
<1>3. n \in Nat /\ l \in Nat /\ Len(p) \in Nat /\ Len(q) \in Nat /\ Len(r) \in Nat
  BY <1>1, <1>2, SMTT(30) DEF Splits
<1>4. CASE n <= l
  <2>1. n \in 1 .. Len(r) /\ \A k \in 1 .. (n - 1) : p[k] = r[k]
    BY <1>1, <1>2, <1>3, <1>4, SMTT(30) DEF Splits
  <2>2. ASSUME n <= Len(p)
        PROVE  p[n] < r[n]
    <3>1. n \in 1 .. Len(p) /\ n \in 1 .. Len(q) /\ n \in 1 .. Len(r)
      BY <1>1, <1>3, <2>1, <2>2 DEF Splits
    <3>2. p[n] \in Nat /\ q[n] \in Nat /\ r[n] \in Nat
      BY <3>1, SMTT(30)
    <3>3. p[n] < q[n]
      BY <1>1, <2>2 DEF Splits
    <3>4. q[n] <= r[n]
      <4>1. CASE n = l
        BY <1>2, <3>1, <3>2, <4>1, SMTT(30) DEF Splits
      <4>2. CASE n # l
        <5>1. n \in 1 .. (l - 1)
          BY <1>3, <1>4, <3>1, <4>2
        <5> QED
          BY <1>2, <3>2, <5>1 DEF Splits
      <4> QED
        BY <4>1, <4>2
    <3> QED
      BY <3>2, <3>3, <3>4, SMTT(30)
  <2>3. Splits(p, r, n)
    BY <1>1, <2>1, <2>2 DEF Splits
  <2> QED
    BY <2>3, BeforeSplits
<1>5. CASE l < n
  <2>1. l \in 1 .. Len(r) /\ l <= Len(p) /\ \A k \in 1 .. (l - 1) : p[k] = r[k]
    <3>1. l \in 1 .. Len(r) /\ \A k \in 1 .. (l - 1) : q[k] = r[k]
      BY <1>2 DEF Splits
    <3>2. n <= Len(p) + 1 /\ \A k \in 1 .. (n - 1) : p[k] = q[k]
      BY <1>1 DEF Splits
    <3>3. \A k \in 1 .. (l - 1) : k \in 1 .. (n - 1)
      BY <1>3, <1>5
    <3> QED
      BY <1>3, <1>5, <3>1, <3>2, <3>3
  <2>2. p[l] = q[l] /\ l <= Len(q)
    BY <1>1, <1>2, <1>3, <1>5 DEF Splits
  <2>3. p[l] < r[l]
    BY <1>2, <2>2 DEF Splits
  <2>4. Splits(p, r, l)
    BY <1>3, <2>1, <2>3 DEF Splits
  <2> QED
    BY <2>4, BeforeSplits
<1> QED
  BY <1>3, <1>4, <1>5

LEMMA BeforeTotal ==
  ASSUME NEW p \in Seq(Nat), NEW q \in Seq(Nat), p # q
  PROVE  Before(p, q) \/ Before(q, p)
<1> DEFINE D == {n \in Nat : n \in 1 .. Len(p) /\ n \in 1 .. Len(q) /\ p[n] # q[n]}
<1>1. Len(p) \in Nat /\ Len(q) \in Nat
  OBVIOUS
<1>2. CASE D = {}
  <2>1. ASSUME NEW n \in 1 .. Len(p), n <= Len(q)
        PROVE  p[n] = q[n]
    <3>1. n \in Nat /\ n \in 1 .. Len(q) /\ n \notin D
      BY <1>1, <1>2, <2>1
    <3> QED
      BY <3>1
  <2>2. CASE Len(p) = Len(q)
    <3>1. \A n \in 1 .. Len(p) : p[n] = q[n]
      BY <1>1, <2>1, <2>2
    <3>2. p = q
      BY <2>2, <3>1, SMTT(30)
    <3> QED
      BY <3>2
  <2>3. CASE Len(p) < Len(q)
    <3>1. Splits(p, q, Len(p) + 1)
      BY <1>1, <2>1, <2>3 DEF Splits
    <3> QED
      BY <3>1, BeforeSplits
  <2>4. CASE Len(q) < Len(p)
    <3>1. \A k \in 1 .. Len(q) : q[k] = p[k]
      BY <1>1, <2>1, <2>4
    <3>2. Splits(q, p, Len(q) + 1)
      BY <1>1, <2>4, <3>1 DEF Splits
    <3> QED
      BY <3>2, BeforeSplits
  <2> QED
    BY <1>1, <2>2, <2>3, <2>4
<1>3. CASE D # {}
  <2>1. PICK n \in D : \A m \in D : n <= m
    <3>1. D \in SUBSET Nat
      OBVIOUS
    <3> HIDE DEF D
    <3> QED
      BY <1>3, <3>1, LeastElement
  <2>2. \A k \in 1 .. (n - 1) : p[k] = q[k]
    <3> SUFFICES ASSUME NEW k \in 1 .. (n - 1), p[k] # q[k] PROVE FALSE
      OBVIOUS
    <3>1. k \in D /\ ~(n <= k)
      BY <2>1, SMTT(30)
    <3> QED
      BY <2>1, <3>1
  <2>3. n \in 1 .. Len(p) /\ n \in 1 .. Len(q) /\ p[n] \in Nat /\ q[n] \in Nat /\ p[n] # q[n]
    BY <2>1
  <2>4. CASE p[n] < q[n]
    <3>1. Splits(p, q, n)
      BY <2>2, <2>3, <2>4 DEF Splits
    <3> QED
      BY <3>1, BeforeSplits
  <2>5. CASE q[n] < p[n]
    <3>1. Splits(q, p, n)
      BY <2>2, <2>3, <2>5 DEF Splits
    <3> QED
      BY <3>1, BeforeSplits
  <2> QED
    BY <2>3, <2>4, <2>5
<1> QED
  BY <1>2, <1>3

-----------------------------------------------------------------------------
(***************************************************************************)
(* In a finite set with a strict total order every number below that of    *)
(* its elements is how many elements come before one of them.              *)
(***************************************************************************)
IsOrder(S, less) ==
  /\ \A a \in S : <<a, a>> \notin less
  /\ \A a, b \in S : a # b => <<a, b>> \in less \/ <<b, a>> \in less
  /\ \A a, b, c \in S : <<a, b>> \in less /\ <<b, c>> \in less => <<a, c>> \in less

LEMMA EachPlaceIsTaken ==
  ASSUME NEW S, IsFiniteSet(S), NEW less, IsOrder(S, less)
  PROVE  /\ Cardinality(S) \in Nat
         /\ \A n \in 1 .. Cardinality(S) : \E a \in S : Cardinality({b \in S : <<b, a>> \in less}) = n - 1
         /\ \A a \in S : \E n \in 1 .. Cardinality(S) : Cardinality({b \in S : <<b, a>> \in less}) = n - 1
         /\ \A a, b \in S : Cardinality({c \in S : <<c, a>> \in less}) = Cardinality({c \in S : <<c, b>> \in less}) => a = b
<1> DEFINE N == Cardinality(S)
           Smaller(a) == {b \in S : <<b, a>> \in less}
           place == [a \in S |-> Cardinality(Smaller(a)) + 1]
<1>1. N \in Nat
  BY FS_CardinalityType
<1>2. ASSUME NEW a \in S
      PROVE  IsFiniteSet(Smaller(a)) /\ Cardinality(Smaller(a)) \in Nat /\ Cardinality(Smaller(a)) + 1 \in 1 .. N
  <2>1. Smaller(a) \in SUBSET S /\ Smaller(a) # S
    BY DEF IsOrder
  <2> HIDE DEF Smaller
  <2>2. IsFiniteSet(Smaller(a)) /\ Cardinality(Smaller(a)) <= N /\ N # Cardinality(Smaller(a))
    BY <2>1, FS_Subset
  <2>3. Cardinality(Smaller(a)) \in Nat
    BY <2>2, FS_CardinalityType
  <2> QED
    BY <1>1, <2>2, <2>3
<1>3. ASSUME NEW a \in S, NEW b \in S, <<a, b>> \in less
      PROVE  Cardinality(Smaller(a)) < Cardinality(Smaller(b))
  <2>1. Smaller(a) \in SUBSET Smaller(b)
    BY <1>3 DEF IsOrder
  <2>2. a \in Smaller(b) /\ a \notin Smaller(a)
    BY <1>3 DEF IsOrder
  <2> HIDE DEF Smaller
  <2>3. /\ Cardinality(Smaller(a)) <= Cardinality(Smaller(b))
        /\ Cardinality(Smaller(b)) # Cardinality(Smaller(a))
    BY <1>2, <2>1, <2>2, FS_Subset
  <2> QED
    BY <1>2, <2>3
<1>4. ASSUME NEW a \in S, NEW b \in S, Cardinality(Smaller(a)) = Cardinality(Smaller(b))
      PROVE  a = b
  <2> SUFFICES ASSUME a # b PROVE FALSE
    OBVIOUS
  <2>1. <<a, b>> \in less \/ <<b, a>> \in less
    BY DEF IsOrder
  <2> HIDE DEF Smaller
  <2> QED
    BY <1>2, <1>3, <1>4, <2>1
<1>5. place \in Injection(S, 1 .. N)
  <2> HIDE DEF Smaller, N
  <2>1. place \in [S -> 1 .. N]
    BY <1>2
  <2>2. ASSUME NEW a \in S, NEW b \in S, place[a] = place[b]
        PROVE  a = b
    <3>1. Cardinality(Smaller(a)) = Cardinality(Smaller(b))
      BY <1>2, <2>2
    <3> QED
      BY <1>4, <3>1
  <2>3. IsInjective(place)
    BY <2>2 DEF IsInjective
  <2> HIDE DEF place
  <2> QED
    BY <2>1, <2>2, <2>3 DEF Injection
<1>6. place \in Surjection(S, 1 .. N)
  <2>1. IsFiniteSet(1 .. N) /\ Cardinality(1 .. N) = N
    BY <1>1, FS_Interval
  <2> HIDE DEF place, N
  <2>2. Cardinality(S) = Cardinality(1 .. N)
    BY <2>1 DEF N
  <2> QED
    BY <1>5, <2>1, <2>2, FS_Injection
<1>7. ASSUME NEW n \in 1 .. N
      PROVE  \E a \in S : Cardinality(Smaller(a)) = n - 1
  <2>1. PICK a \in S : place[a] = n
    <3> HIDE DEF place
    <3> QED
      BY <1>6 DEF Surjection
  <2>2. Cardinality(Smaller(a)) + 1 = n
    BY <2>1
  <2> HIDE DEF Smaller, N
  <2> QED
    BY <1>1, <1>2, <2>2
<1>8. ASSUME NEW a \in S
      PROVE  \E n \in 1 .. N : Cardinality(Smaller(a)) = n - 1
  <2>1. PICK x : x = Cardinality(Smaller(a))
    OBVIOUS
  <2>2. x \in Nat /\ x + 1 \in 1 .. N
    BY <1>2, <2>1
  <2>3. x = (x + 1) - 1
    BY <2>2
  <2> QED
    BY <2>1, <2>2, <2>3
<1> QED
  BY <1>1, <1>4, <1>7, <1>8

-----------------------------------------------------------------------------
(***************************************************************************)
(* Trees of tables: a table hangs under one that was there before it.      *)
(***************************************************************************)
IsRank(T, rank, N) ==
  /\ rank \in [DOMAIN T -> 1 .. N]
  /\ \A i \in DOMAIN T : T[i].at = 0 \/ (T[i].at \in DOMAIN T /\ rank[T[i].at] < rank[i])

IsTree(T) ==
  /\ IsFiniteSet(DOMAIN T) /\ DOMAIN T \subseteq Nat
  /\ \E N \in Nat : \E rank : IsRank(T, rank, N)

PathAbove(path, T, j) == IF T[j].at = 0 THEN << >> ELSE path[T[j].at]

LEMMA PathExists ==
  ASSUME NEW T, IsTree(T)
  PROVE  \E path : path = [j \in DOMAIN T |-> Append(PathAbove(path, T, j), j)]
<1>0. PICK N \in Nat : \E rank : IsRank(T, rank, N)
  BY DEF IsTree
<1>1. PICK rank : IsRank(T, rank, N)
  BY <1>0
<1> DEFINE Holds(f, k) == /\ f = [j \in DOMAIN T |-> f[j]]
                          /\ \A j \in DOMAIN T : rank[j] <= k => f[j] = Append(PathAbove(f, T, j), j)
           D == {k \in 0 .. N : \E f : Holds(f, k)}
<1>2. 0 \in D
  <2>1. PICK f : f = [j \in DOMAIN T |-> << >>]
    OBVIOUS
  <2>2. \A j \in DOMAIN T : rank[j] \in 1 .. N
    BY <1>1 DEF IsRank
  <2>3. Holds(f, 0)
    BY <2>1, <2>2
  <2> HIDE DEF Holds
  <2> QED
    BY <2>3
<1>3. ASSUME NEW k \in 0 .. N, k + 1 \in 0 .. N, k \in D
      PROVE  k + 1 \in D
  <2>1. PICK f : Holds(f, k)
    BY <1>3
  <2>2. PICK g : g = [j \in DOMAIN T |-> IF rank[j] <= k THEN f[j] ELSE Append(PathAbove(f, T, j), j)]
    OBVIOUS
  <2>3. ASSUME NEW j \in DOMAIN T, rank[j] <= k + 1
        PROVE  g[j] = Append(PathAbove(g, T, j), j)
    <3>1. PathAbove(g, T, j) = PathAbove(f, T, j)
      <4>1. CASE T[j].at = 0
        BY <4>1 DEF PathAbove
      <4>2. CASE T[j].at # 0
        <5>1. T[j].at \in DOMAIN T /\ rank[T[j].at] \in 1 .. N /\ rank[j] \in 1 .. N
              /\ rank[T[j].at] < rank[j]
          BY <1>1, <4>2 DEF IsRank
        <5>2. rank[T[j].at] <= k
          BY <2>3, <5>1
        <5> QED
          BY <2>2, <4>2, <5>1, <5>2 DEF PathAbove
      <4> QED
        BY <4>1, <4>2
    <3>2. CASE rank[j] <= k
      BY <2>1, <2>2, <3>1, <3>2
    <3>3. CASE ~(rank[j] <= k)
      BY <2>2, <3>1, <3>3
    <3> QED
      BY <3>2, <3>3
  <2>4. Holds(g, k + 1)
    BY <2>2, <2>3
  <2> HIDE DEF Holds
  <2> QED
    BY <1>3, <2>4
<1>4. N \in D
  <2> HIDE DEF D
  <2>1. 0 .. N \subseteq D
    BY <1>2, <1>3, UpTo
  <2> QED
    BY <2>1
<1>5. PICK f : Holds(f, N)
  BY <1>4
<1>6. \A j \in DOMAIN T : f[j] = Append(PathAbove(f, T, j), j)
  <2>1. \A j \in DOMAIN T : rank[j] <= N
    BY <1>1 DEF IsRank
  <2> QED
    BY <1>5, <2>1
<1>7. f = [j \in DOMAIN T |-> Append(PathAbove(f, T, j), j)]
  BY <1>5, <1>6
<1> QED
  BY <1>7

LEMMA PathFacts ==
  ASSUME NEW T, IsTree(T)
  PROVE  \A i \in DOMAIN T :
           /\ Path(T, i) = Append(IF T[i].at = 0 THEN << >> ELSE Path(T, T[i].at), i)
           /\ Path(T, i) \in Seq(DOMAIN T) /\ Path(T, i) \in Seq(Nat) /\ Path(T, i) # << >>
           /\ Last(Path(T, i)) = i
<1> DEFINE G(f) == [j \in DOMAIN T |-> Append(IF T[j].at = 0 THEN << >> ELSE f[T[j].at], j)]
           path == CHOOSE f : f = G(f)
<1>1. \A i : Path(T, i) = path[i]
  BY DEF Path
<1>2. path = G(path)
  <2>1. \E f : f = G(f)
    BY PathExists DEF PathAbove
  <2> QED
    BY <2>1
<1> HIDE DEF path
<1>3. \A i \in DOMAIN T : path[i] = Append(IF T[i].at = 0 THEN << >> ELSE path[T[i].at], i)
  BY <1>2
<1>0. PICK N \in Nat : \E rank : IsRank(T, rank, N)
  BY DEF IsTree
<1>4. PICK rank : IsRank(T, rank, N)
  BY <1>0
<1> DEFINE D == {k \in 0 .. N : \A j \in DOMAIN T : rank[j] <= k => path[j] \in Seq(DOMAIN T)}
<1>5. 0 \in D
  <2>1. \A j \in DOMAIN T : rank[j] \in 1 .. N
    BY <1>4 DEF IsRank
  <2> QED
    BY <2>1
<1>6. ASSUME NEW k \in 0 .. N, k + 1 \in 0 .. N, k \in D
      PROVE  k + 1 \in D
  <2>1. ASSUME NEW j \in DOMAIN T, rank[j] <= k + 1
        PROVE  path[j] \in Seq(DOMAIN T)
    <3>2. CASE T[j].at = 0
      <4>1. path[j] = Append(<< >>, j)
        BY <1>3, <3>2
      <4> QED
        BY <4>1
    <3>3. CASE T[j].at # 0
      <4>1. T[j].at \in DOMAIN T /\ rank[T[j].at] \in 1 .. N /\ rank[j] \in 1 .. N
            /\ rank[T[j].at] < rank[j]
        BY <1>4, <3>3 DEF IsRank
      <4>2. path[T[j].at] \in Seq(DOMAIN T)
        BY <1>6, <2>1, <4>1
      <4>3. path[j] = Append(path[T[j].at], j)
        BY <1>3, <3>3
      <4> QED
        BY <4>2, <4>3
    <3> QED
      BY <3>2, <3>3
  <2> QED
    BY <1>6, <2>1
<1>7. \A j \in DOMAIN T : path[j] \in Seq(DOMAIN T)
  <2>1. N \in D
    <3> HIDE DEF D
    <3>1. 0 .. N \subseteq D
      BY <1>5, <1>6, UpTo
    <3> QED
      BY <3>1
  <2>2. \A j \in DOMAIN T : rank[j] <= N
    BY <1>4 DEF IsRank
  <2> QED
    BY <2>1, <2>2
<1>8. ASSUME NEW i \in DOMAIN T
      PROVE  path[i] # << >> /\ Last(path[i]) = i
  <2>1. PICK s : s = IF T[i].at = 0 THEN << >> ELSE path[T[i].at]
    OBVIOUS
  <2>2. s \in Seq(DOMAIN T)
    <3>1. CASE T[i].at = 0
      BY <2>1, <3>1
    <3>2. CASE T[i].at # 0
      <4>1. T[i].at \in DOMAIN T /\ s = path[T[i].at]
        BY <1>4, <2>1, <3>2 DEF IsRank
      <4> QED
        BY <1>7, <4>1
    <3> QED
      BY <3>1, <3>2
  <2>3. path[i] = Append(s, i)
    BY <1>3, <2>1
  <2>4. Len(path[i]) = Len(s) + 1 /\ path[i][Len(s) + 1] = i
    BY <2>2, <2>3
  <2>5. path[i] # << >>
    BY <2>2, <2>4
  <2> QED
    BY <2>4, <2>5 DEF Last
<1>9. \A j \in DOMAIN T : path[j] \in Seq(Nat)
  <2>1. \A s \in Seq(DOMAIN T) : s \in Seq(Nat)
    BY DEF IsTree
  <2> QED
    BY <1>7, <2>1
<1> QED
  BY <1>1, <1>3, <1>7, <1>8, <1>9

\* The walk over a set of tables has each of them once.
IsListing(s, S) ==
  /\ s \in Seq(S)
  /\ \A a \in S : \E n \in DOMAIN s : s[n] = a
  /\ \A n, k \in DOMAIN s : s[n] = s[k] => n = k

LEMMA ImageIsFinite ==
  ASSUME NEW S, IsFiniteSet(S), NEW f, DOMAIN f = S
  PROVE  IsFiniteSet({f[x] : x \in S})
<1> DEFINE R == {f[x] : x \in S}
           g == [x \in S |-> f[x]]
<1>1. g \in Surjection(S, R)
  BY DEF Surjection
<1> HIDE DEF g, R
<1>2. IsFiniteSet(R)
  BY <1>1, FS_Surjection
<1> QED
  BY <1>2 DEF R

LEMMA WalkPlaces ==
  ASSUME NEW T, IsTree(T), NEW ids \in SUBSET DOMAIN T
  PROVE  LET paths == {Path(T, i) : i \in ids}
         IN  /\ IsListing(Walk(T, ids), ids) /\ IsFiniteSet(paths)
             /\ \A n \in DOMAIN Walk(T, ids) :
                  Cardinality({q \in paths : Before(q, Path(T, Walk(T, ids)[n]))}) = n - 1
<1> DEFINE paths == {Path(T, i) : i \in ids}
           less == {e \in Seq(Nat) \X Seq(Nat) : Before(e[1], e[2])}
           Place(p) == Cardinality({q \in paths : Before(q, p)})
           Nth(n) == CHOOSE p \in paths : Place(p) = n - 1
           N == Cardinality(paths)
<1>1. Walk(T, ids) = [n \in 1 .. N |-> Last(Nth(n))]
  BY DEF Walk
<1>2. \A p \in paths : p \in Seq(Nat) /\ Last(p) \in ids /\ p = Path(T, Last(p))
  BY PathFacts
<1>3. IsFiniteSet(paths)
  <2>1. IsFiniteSet(ids)
    BY FS_Subset DEF IsTree
  <2>2. PICK f : f = [i \in ids |-> Path(T, i)]
    OBVIOUS
  <2>3. IsFiniteSet({f[i] : i \in ids})
    <3>1. DOMAIN f = ids
      BY <2>2
    <3> QED
      BY <2>1, <3>1, ImageIsFinite
  <2>4. {f[i] : i \in ids} = paths
    BY <2>2
  <2> QED
    BY <2>3, <2>4
<1>4. \A i \in ids : Path(T, i) \in paths /\ Last(Path(T, i)) = i
  BY PathFacts
<1> HIDE DEF paths
<1>5. \A p, q \in paths : <<q, p>> \in less <=> Before(q, p)
  BY <1>2
<1>6. IsOrder(paths, less)
  <2>1. \A p \in paths : ~(<<p, p>> \in less)
    BY <1>2, <1>5, BeforeIrreflexive
  <2>2. ASSUME NEW p \in paths, NEW q \in paths, p # q
        PROVE  <<p, q>> \in less \/ <<q, p>> \in less
    BY <1>2, <1>5, <2>2, BeforeTotal
  <2>3. ASSUME NEW p \in paths, NEW q \in paths, NEW r \in paths, <<p, q>> \in less, <<q, r>> \in less
        PROVE  <<p, r>> \in less
    <3>1. Before(p, q) /\ Before(q, r) /\ p \in Seq(Nat) /\ q \in Seq(Nat) /\ r \in Seq(Nat)
      BY <1>2, <1>5, <2>3
    <3>2. Before(p, r)
      BY <3>1, BeforeTransitive
    <3> QED
      BY <1>5, <3>2
  <2> HIDE DEF less
  <2> QED
    BY <2>1, <2>2, <2>3 DEF IsOrder
<1>7. \A p \in paths : {q \in paths : <<q, p>> \in less} = {q \in paths : Before(q, p)}
  BY <1>5
<1>8. /\ N \in Nat
      /\ \A n \in 1 .. N : \E p \in paths : Place(p) = n - 1
      /\ \A p \in paths : \E n \in 1 .. N : Place(p) = n - 1
      /\ \A p, q \in paths : Place(p) = Place(q) => p = q
  <2> HIDE DEF less
  <2>1. /\ N \in Nat
        /\ \A n \in 1 .. N : \E p \in paths : Cardinality({q \in paths : <<q, p>> \in less}) = n - 1
        /\ \A p \in paths : \E n \in 1 .. N : Cardinality({q \in paths : <<q, p>> \in less}) = n - 1
        /\ \A p, q \in paths : Cardinality({r \in paths : <<r, p>> \in less}) =
                               Cardinality({r \in paths : <<r, q>> \in less}) => p = q
    BY <1>3, <1>6, EachPlaceIsTaken, ZenonT(60)
  <2> QED
    BY <1>7, <2>1
<1> HIDE DEF Place, N, less
<1>9. \A n \in 1 .. N : Nth(n) \in paths /\ Place(Nth(n)) = n - 1
  BY <1>8
<1>10. PICK s : s = Walk(T, ids)
  OBVIOUS
<1>11. DOMAIN s = 1 .. N /\ \A n \in 1 .. N : s[n] = Last(Nth(n))
  BY <1>1, <1>10
<1> HIDE DEF Nth
<1>12. s \in Seq(ids)
  <2>1. s = [n \in 1 .. N |-> s[n]]
    BY <1>1, <1>10
  <2>2. IsList(s) /\ Len(s) = N
    BY <1>8, <2>1, ListOf
  <2>3. \A n \in 1 .. Len(s) : s[n] \in ids
    BY <1>2, <1>9, <1>11, <2>2
  <2> QED
    BY <2>2, <2>3, ListIsSeq
<1>13. ASSUME NEW i \in ids
       PROVE  \E n \in DOMAIN s : s[n] = i
  <2>1. PICK p : p = Path(T, i) /\ p \in paths /\ Last(p) = i
    BY <1>4
  <2>2. PICK n \in 1 .. N : Place(p) = n - 1
    BY <1>8, <2>1
  <2>3. Nth(n) = p
    BY <1>8, <1>9, <2>1, <2>2
  <2> QED
    BY <1>11, <2>1, <2>3
<1>14. ASSUME NEW n \in DOMAIN s, NEW k \in DOMAIN s, s[n] = s[k]
       PROVE  n = k
  <2>1. n \in 1 .. N /\ k \in 1 .. N
    BY <1>11
  <2>2. Nth(n) = Nth(k)
    BY <1>2, <1>9, <1>11, <1>14, <2>1
  <2>3. n - 1 = k - 1
    BY <1>9, <2>1, <2>2
  <2> QED
    BY <2>1, <2>3
<1>15. ASSUME NEW n \in DOMAIN s
       PROVE  Place(Path(T, s[n])) = n - 1
  <2>1. n \in 1 .. N
    BY <1>11
  <2>2. Nth(n) = Path(T, s[n])
    BY <1>2, <1>9, <1>11, <2>1
  <2> QED
    BY <1>9, <2>1, <2>2
<1>16. IsListing(s, ids)
  BY <1>12, <1>13, <1>14 DEF IsListing
<1> QED
  BY <1>3, <1>10, <1>15, <1>16 DEF Place, paths

LEMMA WalkLists ==
  ASSUME NEW T, IsTree(T), NEW ids \in SUBSET DOMAIN T
  PROVE  IsListing(Walk(T, ids), ids)
BY WalkPlaces

-----------------------------------------------------------------------------
(***************************************************************************)
(* AllTables: however the tables refer to one another, each is listed once.*)
(***************************************************************************)
\* The lists s and t have together each element of L once.
Once(s, t, L) ==
  /\ s \in Seq(L) /\ t \in Seq(L)
  /\ \A n, k \in DOMAIN s : s[n] = s[k] => n = k
  /\ \A n, k \in DOMAIN t : t[n] = t[k] => n = k
  /\ \A n \in DOMAIN s : \A k \in DOMAIN t : s[n] # t[k]
  /\ \A a \in L : a \in ToSet(s) \/ a \in ToSet(t)

LEMMA OnceConcat ==
  ASSUME NEW L, NEW s, NEW t, Once(s, t, L)
  PROVE  IsListing(s \o t, L)
<1>1. s \in Seq(L) /\ t \in Seq(L)
  BY DEF Once
<1>2. PICK N \in Nat, K \in Nat : N = Len(s) /\ K = Len(t) /\ DOMAIN s = 1 .. N /\ DOMAIN t = 1 .. K
  BY <1>1
<1>3. PICK u : u = s \o t
  OBVIOUS
<1>4. /\ u \in Seq(L) /\ DOMAIN u = 1 .. (N + K)
      /\ \A n \in 1 .. (N + K) : u[n] = IF n <= N THEN s[n] ELSE t[n - N]
  BY <1>1, <1>2, <1>3
<1>5. ASSUME NEW a \in L
      PROVE  \E n \in DOMAIN u : u[n] = a
  <2>1. CASE a \in ToSet(s)
    <3>1. PICK n \in 1 .. N : s[n] = a
      BY <1>2, <2>1 DEF ToSet
    <3>2. n \in 1 .. (N + K) /\ n <= N
      BY <1>2
    <3> QED
      BY <1>4, <3>1, <3>2
  <2>2. CASE a \in ToSet(t)
    <3>1. PICK n \in 1 .. K : t[n] = a
      BY <1>2, <2>2 DEF ToSet
    <3>2. n + N \in 1 .. (N + K) /\ ~(n + N <= N) /\ (n + N) - N = n
      BY <1>2
    <3> QED
      BY <1>4, <3>1, <3>2
  <2> QED
    BY <2>1, <2>2 DEF Once
<1>6. ASSUME NEW n \in DOMAIN u, NEW k \in DOMAIN u, u[n] = u[k]
      PROVE  n = k
  <2>1. n \in 1 .. (N + K) /\ k \in 1 .. (N + K)
    BY <1>4
  <2>2. \A i \in 1 .. (N + K) : i <= N => i \in DOMAIN s /\ u[i] = s[i]
    BY <1>2, <1>4
  <2>3. \A i \in 1 .. (N + K) : ~(i <= N) => i - N \in DOMAIN t /\ u[i] = t[i - N]
    BY <1>2, <1>4
  <2>4. CASE n <= N /\ k <= N
    BY <1>6, <2>1, <2>2, <2>4 DEF Once
  <2>5. CASE ~(n <= N) /\ ~(k <= N)
    <3>1. n - N = k - N
      BY <1>6, <2>1, <2>3, <2>5 DEF Once
    <3> QED
      BY <2>1, <3>1
  <2>6. CASE n <= N /\ ~(k <= N)
    BY <1>6, <2>1, <2>2, <2>3, <2>6 DEF Once
  <2>7. CASE ~(n <= N) /\ k <= N
    BY <1>6, <2>1, <2>2, <2>3, <2>7 DEF Once
  <2> QED
    BY <2>4, <2>5, <2>6, <2>7
<1> QED
  BY <1>3, <1>4, <1>5, <1>6 DEF IsListing

LEMMA OnceMore ==
  ASSUME NEW L, NEW s, NEW t, Once(s, t, L), NEW a, a \notin L
  PROVE  Once(Append(s, a), t, L \cup {a}) /\ Once(s, Append(t, a), L \cup {a})
<1>1. s \in Seq(L) /\ t \in Seq(L)
  BY DEF Once
<1>2. s \in Seq(L \cup {a}) /\ t \in Seq(L \cup {a})
  BY <1>1
<1>3. \A l \in Seq(L) : /\ Append(l, a) \in Seq(L \cup {a}) /\ Len(l) \in Nat
                        /\ DOMAIN l = 1 .. Len(l) /\ DOMAIN Append(l, a) = 1 .. (Len(l) + 1)
                        /\ Append(l, a)[Len(l) + 1] = a
                        /\ \A n \in 1 .. Len(l) : Append(l, a)[n] = l[n] /\ l[n] \in L
  OBVIOUS
<1>4. ASSUME NEW l \in Seq(L), \A n, k \in DOMAIN l : l[n] = l[k] => n = k,
             NEW n \in DOMAIN Append(l, a), NEW k \in DOMAIN Append(l, a), Append(l, a)[n] = Append(l, a)[k]
      PROVE  n = k
  BY <1>3, <1>4
<1>5. \A l \in Seq(L) : ToSet(Append(l, a)) = ToSet(l) \cup {a}
  BY <1>3 DEF ToSet
<1>6. \A l \in Seq(L) : \A n \in DOMAIN Append(l, a) : Append(l, a)[n] = a \/ (n \in DOMAIN l /\ Append(l, a)[n] = l[n])
  BY <1>3
<1>7. \A l \in Seq(L) : \A n \in DOMAIN l : l[n] # a
  OBVIOUS
<1>8. ASSUME NEW x \in L \cup {a}
      PROVE  /\ x \in ToSet(Append(s, a)) \/ x \in ToSet(t)
             /\ x \in ToSet(s) \/ x \in ToSet(Append(t, a))
  BY <1>1, <1>5 DEF Once
<1>9. \A n \in DOMAIN Append(s, a) : \A k \in DOMAIN t : Append(s, a)[n] # t[k]
  BY <1>1, <1>6, <1>7 DEF Once
<1>10. \A n \in DOMAIN s : \A k \in DOMAIN Append(t, a) : s[n] # Append(t, a)[k]
  BY <1>1, <1>6, <1>7 DEF Once
<1>11. Once(Append(s, a), t, L \cup {a})
  BY <1>1, <1>2, <1>3, <1>4, <1>8, <1>9 DEF Once
<1>12. Once(s, Append(t, a), L \cup {a})
  BY <1>1, <1>2, <1>3, <1>4, <1>8, <1>10 DEF Once
<1> QED
  BY <1>11, <1>12

PassStart(s) == [left |-> ToSet(s.rest), rest |-> << >>, out |-> s.out]

IsPass(after, S, L, s) ==
  /\ after \in [0 .. Len(s.rest) -> [left : SUBSET L, rest : Seq(L), out : Seq(L)]]
  /\ after[0] = PassStart(s)
  /\ \A n \in 1 .. Len(s.rest) : after[n] = Take(S, after[n - 1], s.rest[n])
  /\ Pass(S, s) = [rest |-> after[Len(s.rest)].rest, out |-> after[Len(s.rest)].out]

LEMMA PassSteps ==
  ASSUME NEW S, NEW L, NEW s, s.rest \in Seq(L), s.out \in Seq(L)
  PROVE  \E after : IsPass(after, S, L, s)
<1> DEFINE N == Len(s.rest)
           X == [left : SUBSET L, rest : Seq(L), out : Seq(L)]
<1>1. PICK first : first = PassStart(s)
  OBVIOUS
<1> DEFINE G(f) == [n \in 0 .. N |-> IF n = 0 THEN first ELSE Take(S, f[n - 1], s.rest[n])]
           after == CHOOSE f : f = G(f)
           next == [p \in X \X (1 .. N) |-> Take(S, p[1], s.rest[p[2]])]
<1>2. Pass(S, s) = [rest |-> after[N].rest, out |-> after[N].out]
  BY <1>1 DEF Pass, PassStart
<1>3. N \in Nat /\ \A n \in 1 .. N : s.rest[n] \in L
  OBVIOUS
<1>4. first \in X
  <2>1. ToSet(s.rest) \in SUBSET L
    BY DEF ToSet
  <2>2. << >> \in Seq(L)
    OBVIOUS
  <2> QED
    BY <1>1, <2>1, <2>2 DEF PassStart
<1>5. ASSUME NEW x \in X, NEW n \in 1 .. N
      PROVE  Take(S, x, s.rest[n]) \in X
  <2>1. PICK i : i = s.rest[n] /\ i \in L
    BY <1>3
  <2>2. Append(x.rest, i) \in Seq(L) /\ Append(x.out, i) \in Seq(L) /\ x.left \ {i} \in SUBSET L
    BY <2>1
  <2>3. PICK l, r, o : l = x.left \ {i} /\ r = Append(x.rest, i) /\ o = Append(x.out, i)
    OBVIOUS
  <2>4. [x EXCEPT !.rest = r] \in X /\ [x EXCEPT !.left = l, !.out = o] \in X
    BY <2>2, <2>3
  <2>5. Take(S, x, i) = [x EXCEPT !.rest = r] \/ Take(S, x, i) = [x EXCEPT !.left = l, !.out = o]
    BY <2>3 DEF Take
  <2> QED
    BY <2>1, <2>4, <2>5
<1> HIDE DEF N, X
<1>6. next \in [X \X (1 .. N) -> X] /\ \A x \in X : \A n \in 1 .. N : next[<<x, n>>] = Take(S, x, s.rest[n])
  BY <1>5
<1> HIDE DEF next
<1>7. PICK f : IsIteration(f, N, X, first, next)
  BY <1>3, <1>4, <1>6, Iterates
<1>8. /\ f \in [0 .. N -> X] /\ f[0] = first
      /\ \A n \in 1 .. N : f[n] = Take(S, f[n - 1], s.rest[n])
  <2>1. f \in [0 .. N -> X] /\ f[0] = first /\ \A n \in 1 .. N : f[n] = next[<<f[n - 1], n>>]
    BY <1>7 DEF IsIteration
  <2>2. \A n \in 1 .. N : f[n - 1] \in X
    <3>1. \A n \in 1 .. N : n - 1 \in 0 .. N
      BY <1>3
    <3> QED
      BY <2>1, <3>1
  <2> QED
    BY <1>6, <2>1, <2>2
<1>9. f = G(f)
  <2>1. ASSUME NEW n \in 0 .. N
        PROVE  f[n] = IF n = 0 THEN first ELSE Take(S, f[n - 1], s.rest[n])
    <3>1. n # 0 => n \in 1 .. N
      BY <1>3
    <3> QED
      BY <1>8, <3>1
  <2> QED
    BY <1>8, <2>1
<1>10. after = G(after)
  BY <1>9
<1> HIDE DEF after
<1>11. /\ after[0] = first
       /\ \A n \in 1 .. N : after[n] = Take(S, after[n - 1], s.rest[n])
  <2>1. 0 \in 0 .. N /\ \A n \in 1 .. N : n \in 0 .. N /\ n # 0
    BY <1>3
  <2> QED
    BY <1>10, <2>1
<1>12. after \in [0 .. N -> X]
  <2> DEFINE T == {k \in 0 .. N : after[k] \in X}
  <2>1. 0 \in T
    BY <1>3, <1>4, <1>11
  <2>2. ASSUME NEW k \in 0 .. N, k + 1 \in 0 .. N, k \in T
        PROVE  k + 1 \in T
    <3>1. k + 1 \in 1 .. N /\ (k + 1) - 1 = k
      BY <1>3, <2>2
    <3> QED
      BY <1>5, <1>11, <2>2, <3>1
  <2>3. 0 .. N \subseteq T
    <3> HIDE DEF T
    <3> QED
      BY <1>3, <2>1, <2>2, UpTo
  <2>4. DOMAIN after = 0 .. N /\ after = [n \in 0 .. N |-> after[n]]
    <3>1. after = [n \in 0 .. N |-> IF n = 0 THEN first ELSE Take(S, after[n - 1], s.rest[n])]
      BY <1>10
    <3> QED
      BY <3>1
  <2> QED
    BY <2>3, <2>4
<1> QED
  BY <1>1, <1>2, <1>11, <1>12 DEF N, X, IsPass

LEMMA PassKeeps ==
  ASSUME NEW S, NEW L, NEW s, Once(s.out, s.rest, L)
  PROVE  /\ Once(Pass(S, s).out, Pass(S, s).rest, L)
         /\ Pass(S, s) \in [rest : Seq(L), out : Seq(L)]
<1>1. s.out \in Seq(L) /\ s.rest \in Seq(L)
  BY DEF Once
<1>a. PICK after : IsPass(after, S, L, s)
  BY <1>1, PassSteps
<1>2. /\ after \in [0 .. Len(s.rest) -> [left : SUBSET L, rest : Seq(L), out : Seq(L)]]
      /\ after[0] = PassStart(s)
      /\ \A n \in 1 .. Len(s.rest) : after[n] = Take(S, after[n - 1], s.rest[n])
      /\ Pass(S, s) = [rest |-> after[Len(s.rest)].rest, out |-> after[Len(s.rest)].out]
  BY <1>a DEF IsPass
<1> DEFINE N == Len(s.rest)
           Seen(n) == ToSet(s.out) \cup {s.rest[k] : k \in 1 .. n}
           T == {n \in 0 .. N : Once(after[n].out, after[n].rest, Seen(n))}
<1>3. N \in Nat /\ DOMAIN s.rest = 1 .. N
  BY <1>1
<1>4. 0 \in T
  <2>1. Seen(0) = ToSet(s.out)
    OBVIOUS
  <2>2. after[0].out = s.out /\ after[0].rest = << >>
    BY <1>2 DEF PassStart
  <2>3. s.out \in Seq(ToSet(s.out)) /\ << >> \in Seq(ToSet(s.out))
    BY <1>1 DEF ToSet
  <2>4. Once(s.out, << >>, ToSet(s.out))
    BY <2>3 DEF Once
  <2>5. 0 \in 0 .. N
    BY <1>3
  <2> HIDE DEF Seen
  <2> QED
    BY <2>1, <2>2, <2>4, <2>5
<1>5. ASSUME NEW n \in 0 .. N, n + 1 \in 0 .. N, n \in T
      PROVE  n + 1 \in T
  <2>1. n + 1 \in 1 .. N /\ (n + 1) - 1 = n
    BY <1>3, <1>5
  <2>2. PICK a, b, i : a = after[n] /\ b = after[n + 1] /\ i = s.rest[n + 1]
    OBVIOUS
  <2>3. b = Take(S, a, i) /\ a \in [left : SUBSET L, rest : Seq(L), out : Seq(L)]
    BY <1>2, <2>1, <2>2
  <2>4. i \notin Seen(n)
    <3>1. \A k \in 1 .. n : k \in DOMAIN s.rest /\ k # n + 1
      BY <1>3, <2>1
    <3>2. n + 1 \in DOMAIN s.rest
      BY <1>3, <2>1
    <3>3. i \notin ToSet(s.out)
      BY <2>2, <3>2 DEF Once, ToSet
    <3>4. \A k \in 1 .. n : s.rest[k] # i
      BY <2>2, <3>1, <3>2 DEF Once
    <3> QED
      BY <3>3, <3>4
  <2>5. Seen(n + 1) = Seen(n) \cup {i}
    <3>1. 1 .. (n + 1) = (1 .. n) \cup {n + 1}
      BY <1>3
    <3> QED
      BY <2>2, <3>1
  <2>6. Once(a.out, a.rest, Seen(n))
    BY <1>5, <2>2
  <2> HIDE DEF Seen
  <2>7. /\ Once(Append(a.out, i), a.rest, Seen(n) \cup {i})
        /\ Once(a.out, Append(a.rest, i), Seen(n) \cup {i})
    BY <2>4, <2>6, OnceMore
  <2>8. \/ b.out = a.out /\ b.rest = Append(a.rest, i)
        \/ b.out = Append(a.out, i) /\ b.rest = a.rest
    <3>1. PICK l, r, o : l = a.left \ {i} /\ r = Append(a.rest, i) /\ o = Append(a.out, i)
      OBVIOUS
    <3>2. b = [a EXCEPT !.rest = r] \/ b = [a EXCEPT !.left = l, !.out = o]
      BY <2>3, <3>1 DEF Take
    <3>3. DOMAIN a = {"left", "rest", "out"}
      BY <2>3
    <3> QED
      BY <3>1, <3>2, <3>3
  <2> QED
    BY <1>5, <2>2, <2>5, <2>7, <2>8
<1>6. N \in T
  <2> HIDE DEF T
  <2>1. 0 .. N \subseteq T
    BY <1>3, <1>4, <1>5, UpTo
  <2> QED
    BY <1>3, <2>1
<1>7. Seen(N) = L
  <2>1. ToSet(s.out) \subseteq L /\ {s.rest[k] : k \in 1 .. N} = ToSet(s.rest) /\ ToSet(s.rest) \subseteq L
    BY <1>1, <1>3 DEF ToSet
  <2> QED
    BY <2>1 DEF Once
<1>8. PICK p : p = after[N] /\ Pass(S, s) = [rest |-> p.rest, out |-> p.out]
  BY <1>2
<1>9. Once(p.out, p.rest, L)
  BY <1>6, <1>7, <1>8
<1>10. p.out \in Seq(L) /\ p.rest \in Seq(L)
  BY <1>9 DEF Once
<1>11. PICK q : q = Pass(S, s) /\ q = [rest |-> p.rest, out |-> p.out]
  BY <1>8
<1>12. q.rest = p.rest /\ q.out = p.out /\ q \in [rest : Seq(L), out : Seq(L)]
  BY <1>10, <1>11
<1> QED
  BY <1>9, <1>11, <1>12

IsPasses(after, S, L, start) ==
  /\ after[0] = [rest |-> start, out |-> << >>] /\ Passes(S, start) = after[Len(start)]
  /\ \A n \in 1 .. Len(start) : after[n] = Pass(S, after[n - 1])
  /\ \A n \in 0 .. Len(start) : Once(after[n].out, after[n].rest, L)

LEMMA PassesSteps ==
  ASSUME NEW S, NEW L, NEW start, IsListing(start, L)
  PROVE  \E after : IsPasses(after, S, L, start)
<1> DEFINE N == Len(start)
           X == {x \in [rest : Seq(L), out : Seq(L)] : Once(x.out, x.rest, L)}
<1>1. PICK first : first = [rest |-> start, out |-> << >>]
  OBVIOUS
<1> DEFINE G(f) == [n \in 0 .. N |-> IF n = 0 THEN first ELSE Pass(S, f[n - 1])]
           after == CHOOSE f : f = G(f)
           next == [p \in X \X (1 .. N) |-> Pass(S, p[1])]
<1>2. Passes(S, start) = after[N]
  BY <1>1 DEF Passes
<1>3. N \in Nat /\ start \in Seq(L)
  BY DEF IsListing
<1>4. first \in X
  <2>1. << >> \in Seq(L)
    OBVIOUS
  <2>2. first \in [rest : Seq(L), out : Seq(L)] /\ first.rest = start /\ first.out = << >>
    BY <1>1, <1>3, <2>1
  <2>3. Once(<< >>, start, L)
    <3>1. \A a \in L : a \in ToSet(start)
      BY DEF IsListing, ToSet
    <3> QED
      BY <2>1, <3>1 DEF Once, IsListing
  <2> QED
    BY <2>2, <2>3
<1>5. ASSUME NEW x \in X
      PROVE  Pass(S, x) \in X
  BY PassKeeps
<1> HIDE DEF N, X
<1>6. next \in [X \X (1 .. N) -> X] /\ \A x \in X : \A n \in 1 .. N : next[<<x, n>>] = Pass(S, x)
  BY <1>5
<1> HIDE DEF next
<1>7. PICK f : IsIteration(f, N, X, first, next)
  BY <1>3, <1>4, <1>6, Iterates
<1>8. f \in [0 .. N -> X] /\ f[0] = first /\ \A n \in 1 .. N : f[n] = Pass(S, f[n - 1])
  <2>1. f \in [0 .. N -> X] /\ f[0] = first /\ \A n \in 1 .. N : f[n] = next[<<f[n - 1], n>>]
    BY <1>7 DEF IsIteration
  <2>2. \A n \in 1 .. N : f[n - 1] \in X
    <3>1. \A n \in 1 .. N : n - 1 \in 0 .. N
      BY <1>3
    <3> QED
      BY <2>1, <3>1
  <2> QED
    BY <1>6, <2>1, <2>2
<1>9. f = G(f)
  <2>1. ASSUME NEW n \in 0 .. N
        PROVE  f[n] = IF n = 0 THEN first ELSE Pass(S, f[n - 1])
    <3>1. n # 0 => n \in 1 .. N
      BY <1>3
    <3> QED
      BY <1>8, <3>1
  <2> QED
    BY <1>8, <2>1
<1>10. after = G(after)
  BY <1>9
<1> HIDE DEF after
<1>11. \A n \in 0 .. N : after[n] = IF n = 0 THEN first ELSE Pass(S, after[n - 1])
  BY <1>10
<1> DEFINE T == {k \in 0 .. N : after[k] \in X}
<1>12. 0 \in T
  BY <1>3, <1>4, <1>11
<1>13. ASSUME NEW k \in 0 .. N, k + 1 \in 0 .. N, k \in T
       PROVE  k + 1 \in T
  <2>1. k + 1 # 0 /\ (k + 1) - 1 = k
    BY <1>3
  <2> QED
    BY <1>5, <1>11, <1>13, <2>1
<1>14. \A n \in 0 .. N : Once(after[n].out, after[n].rest, L)
  <2>1. 0 .. N \subseteq T
    <3> HIDE DEF T
    <3> QED
      BY <1>3, <1>12, <1>13, UpTo
  <2> QED
    BY <2>1 DEF X
<1>15. after[0] = first /\ \A n \in 1 .. N : after[n] = Pass(S, after[n - 1])
  <2>1. 0 \in 0 .. N /\ \A n \in 1 .. N : n \in 0 .. N /\ n # 0
    BY <1>3
  <2> QED
    BY <1>11, <2>1
<1> QED
  BY <1>1, <1>2, <1>14, <1>15 DEF IsPasses, N

LEMMA PassesKeep ==
  ASSUME NEW S, NEW L, NEW start, IsListing(start, L)
  PROVE  IsListing(Ended(Passes(S, start)), L)
<1>1. PICK after : IsPasses(after, S, L, start)
  BY PassesSteps
<1>2. PICK p : p = Passes(S, start) /\ p = after[Len(start)]
  BY <1>1 DEF IsPasses
<1>3. Len(start) \in 0 .. Len(start)
  BY DEF IsListing
<1>4. Once(p.out, p.rest, L)
  BY <1>1, <1>2, <1>3 DEF IsPasses
<1> QED
  BY <1>2, <1>4, OnceConcat DEF Ended

LEMMA ShapeWalks ==
  ASSUME NEW T, IsTree(T)
  PROVE  IsListing(Walk(Shape(T), Listed(Shape(T))), Listed(T))
<1> DEFINE S == Shape(T)
<1>1. DOMAIN S = DOMAIN T /\ \A i \in DOMAIN T : S[i].at = T[i].at /\ S[i].db = T[i].db
  BY DEF Shape
<1> HIDE DEF S
<1>2. IsTree(S)
  <2>0. PICK N \in Nat : \E rank : IsRank(T, rank, N)
    BY DEF IsTree
  <2>1. PICK rank : IsRank(T, rank, N)
    BY <2>0
  <2>2. IsRank(S, rank, N)
    BY <1>1, <2>1 DEF IsRank
  <2> QED
    BY <1>1, <2>2 DEF IsTree
<1>3. \A i : Path(S, i) = Path(T, i)
  <2> DEFINE G(f) == [j \in DOMAIN T |-> Append(IF T[j].at = 0 THEN << >> ELSE f[T[j].at], j)]
             H(f) == [j \in DOMAIN S |-> Append(IF S[j].at = 0 THEN << >> ELSE f[S[j].at], j)]
  <2>1. \A f : G(f) = H(f)
    BY <1>1
  <2>2. \A i : Path(T, i) = (CHOOSE f : f = G(f))[i]
    BY DEF Path
  <2>3. \A i : Path(S, i) = (CHOOSE f : f = H(f))[i]
    BY DEF Path
  <2> HIDE DEF G, H
  <2>4. (CHOOSE f : f = G(f)) = (CHOOSE f : f = H(f))
    BY <2>1
  <2> QED
    BY <2>2, <2>3, <2>4
<1>4. Listed(S) = Listed(T)
  <2>1. \A i \in DOMAIN T : Head(Path(T, i)) \in DOMAIN T
    BY PathFacts
  <2> QED
    BY <1>1, <1>3, <2>1 DEF Listed
<1>5. IsListing(Walk(S, Listed(S)), Listed(S))
  <2>1. Listed(S) \in SUBSET DOMAIN S
    BY DEF Listed
  <2> QED
    BY <1>2, <2>1, WalkLists
<1> QED
  BY <1>4, <1>5 DEF S

\* AllTables answers every table that it walks to, each once, whatever the tables refer to: a
\* circle of references is cut by its last round.
THEOREM AllTablesListsEach ==
  ASSUME NEW T, IsTree(T)
  PROVE  IsListing(AllTables(T), Listed(T))
BY ShapeWalks, PassesKeep DEF AllTables, Ordered

LEMMA AllTablesIsList ==
  ASSUME NEW T, IsTree(T)
  PROVE  LET list == AllTables(T)
         IN  /\ IsList(list) /\ \A n \in DOMAIN list : list[n] \in DOMAIN T
             /\ \A n, k \in DOMAIN list : list[n] = list[k] => n = k
<1>1. PICK list : list = AllTables(T)
  OBVIOUS
<1>2. IsListing(list, Listed(T))
  BY <1>1, AllTablesListsEach
<1>3. Listed(T) \subseteq DOMAIN T /\ list \in Seq(Listed(T))
  BY <1>2 DEF Listed, IsListing
<1>4. IsList(list)
  BY <1>3, ListIsSeq
<1>5. \A n \in DOMAIN list : list[n] \in DOMAIN T
  BY <1>3
<1> QED
  BY <1>1, <1>2, <1>4, <1>5 DEF IsListing

-----------------------------------------------------------------------------
(***************************************************************************)
(* The tables that a table needs: the least set that has what it refers to *)
(* and, with a listed table, what that refers to.                          *)
(***************************************************************************)
Wider(T, near) == near \cup UNION {References(T[j]) : j \in near \cap Listed(T)}

IsClosed(T, near) == \A j \in near \cap Listed(T) : References(T[j]) \subseteq near

IsReach(step, T, i) ==
  /\ step[0] = References(T[i]) \ {i} /\ step[Cardinality(DOMAIN T)] = Reached(T, i)
  /\ \A n \in 1 .. Cardinality(DOMAIN T) : step[n] = Wider(T, step[n - 1])

LEMMA ReachedSteps ==
  ASSUME NEW T, IsFiniteSet(DOMAIN T), NEW i
  PROVE  \E step : IsReach(step, T, i)
<1> DEFINE N == Cardinality(DOMAIN T)
<1>1. PICK first : first = References(T[i]) \ {i}
  OBVIOUS
<1> DEFINE G(f) == [n \in 0 .. N |-> IF n = 0 THEN first ELSE Wider(T, f[n - 1])]
           step == CHOOSE f : f = G(f)
           Holds(f, k) == /\ f = [n \in 0 .. k |-> f[n]] /\ f[0] = first
                          /\ \A n \in 1 .. k : f[n] = Wider(T, f[n - 1])
           K == {k \in 0 .. N : \E f : Holds(f, k)}
<1>2. Reached(T, i) = step[N]
  BY <1>1 DEF Reached, Wider
<1>3. N \in Nat
  BY FS_CardinalityType
<1> HIDE DEF N
<1>4. 0 \in K
  <2>1. PICK g : g = [n \in 0 .. 0 |-> first]
    OBVIOUS
  <2>2. Holds(g, 0)
    BY <2>1
  <2>3. 0 \in 0 .. N
    BY <1>3
  <2> HIDE DEF Holds
  <2> QED
    BY <2>2, <2>3
<1>5. ASSUME NEW k \in 0 .. N, k + 1 \in 0 .. N, k \in K
      PROVE  k + 1 \in K
  <2>1. PICK f : Holds(f, k)
    BY <1>5
  <2>2. PICK x : x = Wider(T, f[k])
    OBVIOUS
  <2>3. PICK g : g = [n \in 0 .. (k + 1) |-> IF n = k + 1 THEN x ELSE f[n]]
    OBVIOUS
  <2>4. k \in Nat
    BY <1>3
  <2>5. g = [n \in 0 .. (k + 1) |-> g[n]] /\ g[0] = first
    BY <2>1, <2>3, <2>4
  <2>6. ASSUME NEW n \in 1 .. (k + 1)
        PROVE  g[n] = Wider(T, g[n - 1])
    <3>1. g[n - 1] = f[n - 1]
      BY <2>3, <2>4
    <3>2. CASE n = k + 1
      <4>1. n - 1 = k
        BY <2>4, <3>2
      <4>2. g[n] = x
        BY <2>3, <3>2
      <4> QED
        BY <2>2, <3>1, <4>1, <4>2
    <3>3. CASE n # k + 1
      <4>1. n \in 1 .. k /\ g[n] = f[n]
        BY <2>3, <2>4, <3>3
      <4> QED
        BY <2>1, <3>1, <4>1
    <3> QED
      BY <3>2, <3>3
  <2>7. Holds(g, k + 1)
    BY <2>5, <2>6
  <2> QED
    BY <1>5, <2>7
<1>6. N \in K
  <2> HIDE DEF K
  <2>1. 0 .. N \subseteq K
    BY <1>3, <1>4, <1>5, UpTo
  <2> QED
    BY <1>3, <2>1
<1>7. PICK f : Holds(f, N)
  BY <1>6
<1>8. f = G(f)
  <2>1. ASSUME NEW n \in 0 .. N
        PROVE  f[n] = IF n = 0 THEN first ELSE Wider(T, f[n - 1])
    <3>1. n # 0 => n \in 1 .. N
      BY <1>3
    <3> QED
      BY <1>7, <3>1
  <2>2. f = [n \in 0 .. N |-> f[n]]
    BY <1>7
  <2> QED
    BY <2>1, <2>2
<1>9. step = G(step)
  BY <1>8
<1> HIDE DEF step
<1>10. \A n \in 0 .. N : step[n] = IF n = 0 THEN first ELSE Wider(T, step[n - 1])
  BY <1>9
<1>11. step[0] = first /\ \A n \in 1 .. N : step[n] = Wider(T, step[n - 1])
  <2>1. 0 \in 0 .. N /\ \A n \in 1 .. N : n \in 0 .. N /\ n # 0
    BY <1>3
  <2> QED
    BY <1>10, <2>1
<1> QED
  BY <1>1, <1>2, <1>11 DEF N, IsReach

\* As many rounds as there are tables are enough: each but the last finds another table.
LEMMA ReachedIsClosed ==
  ASSUME NEW T, IsFiniteSet(DOMAIN T), NEW i
  PROVE  References(T[i]) \ {i} \subseteq Reached(T, i) /\ IsClosed(T, Reached(T, i))
<1> DEFINE N == Cardinality(DOMAIN T)
           L == Listed(T)
<1>1. N \in Nat /\ L \subseteq DOMAIN T
  BY FS_CardinalityType DEF Listed
<1>a. PICK step : IsReach(step, T, i)
  BY ReachedSteps
<1>2. /\ step[0] = References(T[i]) \ {i} /\ step[N] = Reached(T, i)
      /\ \A n \in 1 .. N : step[n] = Wider(T, step[n - 1])
  BY <1>a DEF IsReach
<1> HIDE DEF N
<1>3. \A X : IsFiniteSet(X \cap L) /\ Cardinality(X \cap L) \in Nat /\ Cardinality(X \cap L) <= N
  <2> TAKE X
  <2>1. X \cap L \in SUBSET DOMAIN T
    BY <1>1
  <2> QED
    BY <2>1, FS_Subset, FS_CardinalityType DEF N
<1> DEFINE K == {n \in 0 .. N : /\ References(T[i]) \ {i} \subseteq step[n]
                                /\ IsClosed(T, step[n]) \/ Cardinality(step[n] \cap L) > n}
<1>4. 0 \in K
  <2>1. CASE step[0] \cap L = {}
    BY <1>1, <1>2, <2>1 DEF IsClosed
  <2>2. CASE step[0] \cap L # {}
    <3>1. Cardinality(step[0] \cap L) # 0
      BY <1>3, <2>2, FS_EmptySet
    <3>2. Cardinality(step[0] \cap L) > 0
      BY <1>3, <3>1
    <3> QED
      BY <1>1, <1>2, <3>2
  <2> QED
    BY <2>1, <2>2
<1>5. ASSUME NEW n \in 0 .. N, n + 1 \in 0 .. N, n \in K
      PROVE  n + 1 \in K
  <2>1. n + 1 \in 1 .. N /\ (n + 1) - 1 = n
    BY <1>1, <1>5
  <2>2. PICK a, b : a = step[n] /\ b = step[n + 1]
    OBVIOUS
  <2>3. b = Wider(T, a) /\ References(T[i]) \ {i} \subseteq a
    BY <1>2, <1>5, <2>1, <2>2
  <2>4. a \subseteq b /\ References(T[i]) \ {i} \subseteq b
    BY <2>3 DEF Wider
  <2>5. CASE IsClosed(T, a)
    <3>1. b = a
      BY <2>3, <2>5 DEF Wider, IsClosed
    <3> QED
      BY <1>5, <2>2, <2>4, <2>5, <3>1
  <2>6. CASE b \cap L = a \cap L
    <3>1. IsClosed(T, b)
      BY <2>3, <2>6 DEF Wider, IsClosed
    <3> QED
      BY <1>5, <2>2, <2>4, <3>1
  <2>7. CASE ~IsClosed(T, a) /\ b \cap L # a \cap L
    <3>1. Cardinality(a \cap L) > n
      BY <1>5, <2>2, <2>7
    <3>2. a \cap L \in SUBSET (b \cap L)
      BY <2>4
    <3>3. PICK A, B : A = a \cap L /\ B = b \cap L
      OBVIOUS
    <3>4. IsFiniteSet(A) /\ IsFiniteSet(B) /\ Cardinality(A) \in Nat /\ Cardinality(B) \in Nat
      BY <1>3, <3>3
    <3>5. Cardinality(A) <= Cardinality(B) /\ (Cardinality(B) = Cardinality(A) => B = A)
      BY <3>2, <3>3, <3>4, FS_Subset
    <3>6. Cardinality(B) > n + 1
      BY <2>7, <3>1, <3>3, <3>4, <3>5
    <3> QED
      BY <1>5, <2>2, <2>4, <3>3, <3>6
  <2> QED
    BY <2>5, <2>6, <2>7
<1>6. N \in K
  <2> HIDE DEF K
  <2>1. 0 .. N \subseteq K
    BY <1>1, <1>4, <1>5, UpTo
  <2> QED
    BY <1>1, <2>1
<1>7. ~(Cardinality(step[N] \cap L) > N)
  BY <1>1, <1>3
<1> QED
  BY <1>2, <1>6, <1>7

LEMMA ReachedIsLeast ==
  ASSUME NEW T, IsFiniteSet(DOMAIN T), NEW i, NEW X, References(T[i]) \ {i} \subseteq X, IsClosed(T, X)
  PROVE  Reached(T, i) \subseteq X
<1> DEFINE N == Cardinality(DOMAIN T)
<1>1. N \in Nat
  BY FS_CardinalityType
<1>a. PICK step : IsReach(step, T, i)
  BY ReachedSteps
<1>2. /\ step[0] = References(T[i]) \ {i} /\ step[N] = Reached(T, i)
      /\ \A n \in 1 .. N : step[n] = Wider(T, step[n - 1])
  BY <1>a DEF IsReach
<1> HIDE DEF N
<1> DEFINE K == {n \in 0 .. N : step[n] \subseteq X}
<1>3. 0 \in K
  BY <1>1, <1>2
<1>4. ASSUME NEW n \in 0 .. N, n + 1 \in 0 .. N, n \in K
      PROVE  n + 1 \in K
  <2>1. n + 1 \in 1 .. N /\ (n + 1) - 1 = n
    BY <1>1, <1>4
  <2>2. step[n + 1] = Wider(T, step[n])
    BY <1>2, <2>1
  <2>3. Wider(T, step[n]) \subseteq X
    BY <1>4 DEF Wider, IsClosed
  <2> QED
    BY <1>4, <2>2, <2>3
<1>5. N \in K
  <2> HIDE DEF K
  <2>1. 0 .. N \subseteq K
    BY <1>1, <1>3, <1>4, UpTo
  <2> QED
    BY <1>1, <2>1
<1> QED
  BY <1>2, <1>5

\* Tables of which each waits for another one of them are held back by a circle.
LEMMA WaitingIsHeldBack ==
  ASSUME NEW T, IsFiniteSet(DOMAIN T), NEW R \in SUBSET Listed(T),
         \A j \in R : \E k \in R \ {j} : k \in References(T[j]),
         NEW i \in R
  PROVE  HeldBack(T, i)
<1> DEFINE Near == ({i} \cup Reached(T, i)) \cap R
           Size(j) == Cardinality(Reached(T, j) \cap R)
           Sizes == {Size(j) : j \in Near}
<1>1. IsFiniteSet(R)
  <2>1. R \in SUBSET DOMAIN T
    BY DEF Listed
  <2> QED
    BY <2>1, FS_Subset
<1>2. \A j : IsFiniteSet(Reached(T, j) \cap R) /\ Size(j) \in Nat
  <2> TAKE j
  <2>1. Reached(T, j) \cap R \in SUBSET R
    OBVIOUS
  <2>2. IsFiniteSet(Reached(T, j) \cap R)
    BY <1>1, <2>1, FS_Subset
  <2> QED
    BY <2>2, FS_CardinalityType
<1>3. PICK j \in Near : \A k \in Near : Size(j) <= Size(k)
  <2>1. Sizes \in SUBSET Nat /\ Sizes # {}
    BY <1>2
  <2> HIDE DEF Sizes
  <2>2. PICK x \in Sizes : \A y \in Sizes : x <= y
    BY <2>1, LeastElement
  <2> QED
    BY <2>2 DEF Sizes
<1> HIDE DEF Size
<1>4. PICK k \in R \ {j} : k \in References(T[j])
  BY <1>3
<1>5. /\ References(T[i]) \ {i} \subseteq Reached(T, i) /\ IsClosed(T, Reached(T, i))
      /\ References(T[j]) \ {j} \subseteq Reached(T, j) /\ IsClosed(T, Reached(T, j))
  BY ReachedIsClosed
<1>6. k \in Reached(T, j)
  BY <1>4, <1>5
<1>7. k \in Near
  <2>1. j = i => k \in Reached(T, i)
    BY <1>4, <1>5
  <2>2. j # i => k \in Reached(T, i)
    <3>1. j # i => j \in Reached(T, i) \cap Listed(T)
      BY <1>3
    <3> QED
      BY <1>4, <1>5, <3>1 DEF IsClosed
  <2> QED
    BY <1>4, <2>1, <2>2
<1>8. Reached(T, k) \subseteq Reached(T, j)
  <2>1. References(T[k]) \subseteq Reached(T, j)
    BY <1>4, <1>5, <1>6 DEF IsClosed
  <2> QED
    BY <1>5, <2>1, ReachedIsLeast
<1>9. Reached(T, k) \cap R = Reached(T, j) \cap R
  <2>1. PICK A, B : A = Reached(T, j) \cap R /\ B = Reached(T, k) \cap R
    OBVIOUS
  <2>2. B \in SUBSET A /\ IsFiniteSet(A)
    BY <1>2, <1>8, <2>1
  <2>3. Cardinality(B) <= Cardinality(A) /\ (Cardinality(A) = Cardinality(B) => A = B)
    BY <2>2, FS_Subset
  <2>4. Cardinality(A) = Size(j) /\ Cardinality(B) = Size(k)
    BY <2>1 DEF Size
  <2>5. Size(j) <= Size(k) /\ Size(j) \in Nat /\ Size(k) \in Nat
    BY <1>2, <1>3, <1>7 DEF Size
  <2> QED
    BY <2>1, <2>3, <2>4, <2>5
<1>10. k \in Reached(T, k)
  BY <1>4, <1>6, <1>9
<1>11. k \in {i} \cup (Reached(T, i) \cap Listed(T))
  BY <1>4, <1>7
<1> QED
  BY <1>10, <1>11 DEF HeldBack

-----------------------------------------------------------------------------
(***************************************************************************)
(* The order of AllTables.                                                 *)
(***************************************************************************)
\* What is out came after what it needs; what is left waits for what is left.
Fits(S, L, out) ==
  \A n \in DOMAIN out : \A j \in S[out[n]].needs \cap L :
    j = out[n] \/ \E k \in 1 .. (n - 1) : out[k] = j

Stuck(S, rest) == \A n \in DOMAIN rest : Waits(S, rest[n], ToSet(rest))

\* A pass that has put n tables back, so far.
AllBack(S, s, a, n) ==
  /\ a.left = ToSet(s.rest) /\ Len(a.rest) = n
  /\ \A k \in 1 .. n : a.rest[k] = s.rest[k] /\ Waits(S, s.rest[k], ToSet(s.rest))

InPass(S, L, s, a, n) ==
  /\ \A j \in L \ a.left : \E k \in DOMAIN a.out : a.out[k] = j
  /\ Fits(S, L, a.out)
  /\ AllBack(S, s, a, n) \/ (Len(a.rest) < n /\ ~Stuck(S, s.rest))

LEMMA TakeOrders ==
  ASSUME NEW S, NEW L, NEW s, s.rest \in Seq(L), NEW n \in 1 .. Len(s.rest),
         NEW a \in [left : SUBSET L, rest : Seq(L), out : Seq(L)], InPass(S, L, s, a, n - 1)
  PROVE  InPass(S, L, s, Take(S, a, s.rest[n]), n)
<1>1. PICK i \in L : i = s.rest[n]
  OBVIOUS
<1>2. PICK N \in Nat : N = Len(s.rest) /\ DOMAIN s.rest = 1 .. N /\ n \in 1 .. N
  OBVIOUS
<1>3. PICK l, r, o, b : l = a.left \ {i} /\ r = Append(a.rest, i) /\ o = Append(a.out, i) /\ b = Take(S, a, i)
  OBVIOUS
<1>4. DOMAIN a = {"left", "rest", "out"} /\ a.rest \in Seq(L) /\ a.out \in Seq(L)
  OBVIOUS
<1>5. CASE Waits(S, i, a.left)
  <2>1. b = [a EXCEPT !.rest = r]
    BY <1>3, <1>5 DEF Take
  <2>2. b.left = a.left /\ b.rest = r /\ b.out = a.out
    BY <1>4, <2>1
  <2>3. Len(r) = Len(a.rest) + 1 /\ r[Len(a.rest) + 1] = i /\ \A k \in 1 .. Len(a.rest) : r[k] = a.rest[k]
    BY <1>3, <1>4
  <2>4. Len(a.rest) \in Nat
    BY <1>4
  <2>5. CASE AllBack(S, s, a, n - 1)
    <3>1. a.left = ToSet(s.rest) /\ Len(a.rest) = n - 1
      BY <2>5 DEF AllBack
    <3>2. Len(r) = n /\ r[n] = i
      BY <1>2, <2>3, <3>1
    <3>3. ASSUME NEW k \in 1 .. n
          PROVE  r[k] = s.rest[k] /\ Waits(S, s.rest[k], ToSet(s.rest))
      <4>1. CASE k = n
        BY <1>1, <1>5, <3>1, <3>2, <4>1
      <4>2. CASE k # n
        <5>1. k \in 1 .. (n - 1)
          BY <1>2, <4>2
        <5> QED
          BY <2>3, <2>5, <3>1, <5>1 DEF AllBack
      <4> QED
        BY <4>1, <4>2
    <3>4. AllBack(S, s, b, n)
      BY <2>2, <3>1, <3>2, <3>3 DEF AllBack
    <3> QED
      BY <1>1, <1>3, <2>2, <3>4 DEF InPass
  <2>6. CASE Len(a.rest) < n - 1 /\ ~Stuck(S, s.rest)
    <3>1. Len(b.rest) < n
      BY <1>2, <2>2, <2>3, <2>4, <2>6
    <3> QED
      BY <1>1, <1>3, <2>2, <2>6, <3>1 DEF InPass
  <2> QED
    BY <2>5, <2>6 DEF InPass
<1>6. CASE ~Waits(S, i, a.left)
  <2>1. b = [a EXCEPT !.left = l, !.out = o]
    BY <1>3, <1>6 DEF Take
  <2>2. b.left = l /\ b.rest = a.rest /\ b.out = o
    BY <1>4, <2>1
  <2>3. PICK K \in Nat : K = Len(a.out) /\ DOMAIN a.out = 1 .. K /\ DOMAIN o = 1 .. (K + 1)
    BY <1>3, <1>4
  <2>4. o[K + 1] = i /\ \A k \in 1 .. K : o[k] = a.out[k]
    BY <1>3, <1>4, <2>3
  <2>5. ASSUME NEW j \in L \ b.left
        PROVE  \E k \in DOMAIN b.out : b.out[k] = j
    <3>1. CASE j = i
      <4>1. K + 1 \in DOMAIN o
        BY <2>3
      <4> QED
        BY <2>2, <2>4, <3>1, <4>1
    <3>2. CASE j # i
      <4>1. j \in L \ a.left
        BY <1>3, <2>2, <2>5, <3>2
      <4>2. PICK k \in DOMAIN a.out : a.out[k] = j
        BY <4>1 DEF InPass
      <4>3. k \in 1 .. K /\ k \in DOMAIN o
        BY <2>3, <4>2
      <4> QED
        BY <2>2, <2>4, <4>2, <4>3
    <3> QED
      BY <3>1, <3>2
  <2>6. ASSUME NEW m \in DOMAIN o, NEW j \in S[o[m]].needs \cap L
        PROVE  j = o[m] \/ \E k \in 1 .. (m - 1) : o[k] = j
    <3>1. CASE m = K + 1
      <4>1. j = i \/ j \notin a.left
        BY <1>6, <2>4, <2>6, <3>1 DEF Waits
      <4>2. CASE j \notin a.left
        <5>1. PICK k \in DOMAIN a.out : a.out[k] = j
          BY <2>6, <4>2 DEF InPass
        <5>2. k \in 1 .. K /\ k \in 1 .. (m - 1)
          BY <2>3, <3>1, <5>1
        <5> QED
          BY <2>4, <5>1, <5>2
      <4> QED
        BY <2>4, <3>1, <4>1, <4>2
    <3>2. CASE m # K + 1
      <4>1. m \in 1 .. K /\ o[m] = a.out[m]
        BY <2>3, <2>4, <2>6, <3>2
      <4>2. j = a.out[m] \/ \E k \in 1 .. (m - 1) : a.out[k] = j
        BY <2>3, <2>6, <4>1 DEF InPass, Fits
      <4>3. \A k \in 1 .. (m - 1) : k \in 1 .. K
        BY <2>3, <4>1
      <4> QED
        BY <2>4, <4>1, <4>2, <4>3
    <3> QED
      BY <3>1, <3>2
  <2>7. Fits(S, L, b.out)
    BY <2>2, <2>6 DEF Fits
  <2>8. Len(b.rest) < n /\ ~Stuck(S, s.rest)
    <3>1. CASE AllBack(S, s, a, n - 1)
      <4>1. ~Waits(S, s.rest[n], ToSet(s.rest))
        BY <1>1, <1>6, <3>1 DEF AllBack
      <4>2. n \in DOMAIN s.rest
        BY <1>2
      <4>3. Len(a.rest) = n - 1 /\ ~Stuck(S, s.rest)
        BY <3>1, <4>1, <4>2 DEF AllBack, Stuck
      <4> QED
        BY <1>2, <2>2, <4>3
    <3>2. CASE Len(a.rest) < n - 1 /\ ~Stuck(S, s.rest)
      <4>1. Len(a.rest) \in Nat
        BY <1>4
      <4> QED
        BY <1>2, <2>2, <3>2, <4>1
    <3> QED
      BY <3>1, <3>2 DEF InPass
  <2> QED
    BY <1>1, <1>3, <2>5, <2>7, <2>8 DEF InPass
<1> QED
  BY <1>5, <1>6

\* A pass lists a table after what it needs, and it lists one unless all that are left wait.
LEMMA PassOrders ==
  ASSUME NEW S, NEW L, NEW s, Once(s.out, s.rest, L), Fits(S, L, s.out)
  PROVE  LET p == Pass(S, s)
         IN  /\ Fits(S, L, p.out)
             /\ Stuck(S, p.rest) \/ (Len(p.rest) < Len(s.rest) /\ ~Stuck(S, s.rest))
<1>1. s.out \in Seq(L) /\ s.rest \in Seq(L)
  BY DEF Once
<1>2. PICK after : IsPass(after, S, L, s)
  BY <1>1, PassSteps
<1> DEFINE N == Len(s.rest)
           T == {n \in 0 .. N : InPass(S, L, s, after[n], n)}
<1>3. N \in Nat /\ DOMAIN s.rest = 1 .. N
  BY <1>1
<1>4. 0 \in T
  <2>1. PICK a : a = after[0] /\ a.left = ToSet(s.rest) /\ a.rest = << >> /\ a.out = s.out
    BY <1>2 DEF IsPass, PassStart
  <2>2. ASSUME NEW j \in L \ a.left
        PROVE  \E k \in DOMAIN a.out : a.out[k] = j
    <3>1. j \in ToSet(s.out)
      BY <2>1, <2>2 DEF Once
    <3> QED
      BY <2>1, <3>1 DEF ToSet
  <2>3. AllBack(S, s, a, 0)
    BY <2>1 DEF AllBack
  <2>4. InPass(S, L, s, a, 0)
    BY <2>1, <2>2, <2>3 DEF InPass
  <2> QED
    BY <1>3, <2>1, <2>4
<1>5. ASSUME NEW n \in 0 .. N, n + 1 \in 0 .. N, n \in T
      PROVE  n + 1 \in T
  <2>1. n + 1 \in 1 .. N /\ (n + 1) - 1 = n
    BY <1>3, <1>5
  <2>2. /\ after[n] \in [left : SUBSET L, rest : Seq(L), out : Seq(L)]
        /\ after[n + 1] = Take(S, after[n], s.rest[n + 1])
    BY <1>2, <2>1 DEF IsPass
  <2>3. PICK a : a = after[n] /\ InPass(S, L, s, a, (n + 1) - 1)
    BY <1>5, <2>1
  <2>4. InPass(S, L, s, Take(S, a, s.rest[n + 1]), n + 1)
    BY <1>1, <2>1, <2>2, <2>3, TakeOrders
  <2> QED
    BY <1>5, <2>2, <2>3, <2>4
<1>6. N \in T
  <2> HIDE DEF T
  <2>1. 0 .. N \subseteq T
    BY <1>3, <1>4, <1>5, UpTo
  <2> QED
    BY <1>3, <2>1
<1>7. PICK a : a = after[N] /\ a \in [left : SUBSET L, rest : Seq(L), out : Seq(L)]
  BY <1>2, <1>3 DEF IsPass
<1>8. PICK p : p = [rest |-> a.rest, out |-> a.out] /\ p = Pass(S, s)
  BY <1>2, <1>7 DEF IsPass
<1>9. p.rest = a.rest /\ p.out = a.out
  BY <1>8
<1>10. InPass(S, L, s, a, N)
  BY <1>6, <1>7
<1>11. CASE AllBack(S, s, a, N)
  <2>1. a.rest \in Seq(L)
    BY <1>7
  <2>2. DOMAIN a.rest = 1 .. N /\ \A k \in 1 .. N : a.rest[k] = s.rest[k]
    BY <1>3, <1>11, <2>1 DEF AllBack
  <2>3. ToSet(a.rest) = ToSet(s.rest)
    BY <1>3, <2>2 DEF ToSet
  <2>4. Stuck(S, a.rest)
    BY <1>11, <2>2, <2>3 DEF Stuck, AllBack
  <2> QED
    BY <1>8, <1>9, <1>10, <2>4 DEF InPass
<1>12. CASE Len(a.rest) < N /\ ~Stuck(S, s.rest)
  BY <1>8, <1>9, <1>10, <1>12 DEF InPass
<1> QED
  BY <1>10, <1>11, <1>12 DEF InPass

\* After as many passes as there are tables, what is left waits for one another.
LEMMA PassesOrder ==
  ASSUME NEW S, NEW L, NEW start, IsListing(start, L)
  PROVE  LET p == Passes(S, start)
         IN  Once(p.out, p.rest, L) /\ Fits(S, L, p.out) /\ Stuck(S, p.rest)
<1>1. PICK after : IsPasses(after, S, L, start)
  BY PassesSteps
<1> DEFINE N == Len(start)
           T == {n \in 0 .. N : /\ Fits(S, L, after[n].out)
                                /\ Stuck(S, after[n].rest) \/ Len(after[n].rest) <= N - n}
<1>2. N \in Nat
  BY DEF IsListing
<1>3. 0 \in T
  <2>1. after[0].out = << >> /\ after[0].rest = start
    BY <1>1 DEF IsPasses
  <2>2. Fits(S, L, << >>)
    BY DEF Fits
  <2> QED
    BY <1>2, <2>1, <2>2
<1>4. ASSUME NEW n \in 0 .. N, n + 1 \in 0 .. N, n \in T
      PROVE  n + 1 \in T
  <2>1. n + 1 \in 1 .. N /\ (n + 1) - 1 = n
    BY <1>2, <1>4
  <2>2. PICK s, p : s = after[n] /\ p = after[n + 1]
    OBVIOUS
  <2>3. p = Pass(S, s) /\ Once(s.out, s.rest, L) /\ Once(p.out, p.rest, L)
    BY <1>1, <1>4, <2>1, <2>2 DEF IsPasses
  <2>4. Fits(S, L, s.out)
    BY <1>4, <2>2
  <2>5. Fits(S, L, p.out) /\ (Stuck(S, p.rest) \/ (Len(p.rest) < Len(s.rest) /\ ~Stuck(S, s.rest)))
    BY <2>3, <2>4, PassOrders
  <2>6. Len(p.rest) \in Nat /\ Len(s.rest) \in Nat
    BY <2>3 DEF Once
  <2>7. Stuck(S, p.rest) \/ Len(p.rest) <= N - (n + 1)
    BY <1>2, <1>4, <2>2, <2>5, <2>6
  <2> QED
    BY <1>4, <2>2, <2>5, <2>7
<1>5. N \in T
  <2> HIDE DEF T
  <2>1. 0 .. N \subseteq T
    BY <1>2, <1>3, <1>4, UpTo
  <2> QED
    BY <1>2, <2>1
<1>6. PICK p : p = Passes(S, start) /\ p = after[N] /\ Once(p.out, p.rest, L)
  BY <1>1, <1>2 DEF IsPasses
<1>7. CASE Len(p.rest) <= N - N
  <2>1. p.rest \in Seq(L)
    BY <1>6 DEF Once
  <2>2. DOMAIN p.rest = {}
    BY <1>2, <1>7, <2>1
  <2>3. Stuck(S, p.rest)
    BY <2>2 DEF Stuck
  <2> QED
    BY <1>5, <1>6, <2>3
<1> QED
  BY <1>5, <1>6, <1>7

LEMMA EndedOrder ==
  ASSUME NEW S, NEW L, NEW s, NEW t, Once(s, t, L), Fits(S, L, s), NEW list, list = s \o t,
         NEW n \in DOMAIN list, NEW k \in DOMAIN list, n < k, list[k] \in S[list[n]].needs
  PROVE  list[n] \in ToSet(t)
<1>1. s \in Seq(L) /\ t \in Seq(L)
  BY DEF Once
<1>2. PICK N \in Nat, K \in Nat : N = Len(s) /\ K = Len(t) /\ DOMAIN s = 1 .. N /\ DOMAIN t = 1 .. K
  BY <1>1
<1>3. /\ DOMAIN list = 1 .. (N + K)
      /\ \A i \in 1 .. (N + K) : list[i] \in L /\ list[i] = IF i <= N THEN s[i] ELSE t[i - N]
  BY <1>1, <1>2
<1>4. \A i, j \in DOMAIN list : list[i] = list[j] => i = j
  BY OnceConcat DEF IsListing
<1>5. CASE n <= N
  <2>1. n \in DOMAIN s /\ list[n] = s[n]
    BY <1>2, <1>3, <1>5
  <2>2. list[k] = s[n] \/ \E i \in 1 .. (n - 1) : s[i] = list[k]
    BY <1>3, <2>1 DEF Fits
  <2>3. list[k] # s[n]
    BY <1>3, <1>4, <2>1
  <2>4. PICK i \in 1 .. (n - 1) : s[i] = list[k]
    BY <2>2, <2>3
  <2>5. i \in DOMAIN list /\ i <= N /\ i # k
    BY <1>2, <1>3, <1>5
  <2>6. list[i] = list[k]
    BY <1>3, <2>4, <2>5
  <2> QED
    BY <1>4, <2>5, <2>6
<1>6. CASE ~(n <= N)
  <2>1. n - N \in DOMAIN t /\ list[n] = t[n - N]
    BY <1>2, <1>3, <1>6
  <2> QED
    BY <2>1 DEF ToSet
<1> QED
  BY <1>5, <1>6

\* AllTables lists a table after the tables that it refers to, unless a circle of references
\* keeps it waiting: the order in which Create makes the tables of a database.
THEOREM AllTablesInOrder ==
  ASSUME NEW T, IsTree(T), NEW n \in DOMAIN AllTables(T), NEW k \in DOMAIN AllTables(T), n < k,
         AllTables(T)[k] \in References(T[AllTables(T)[n]])
  PROVE  HeldBack(T, AllTables(T)[n])
<1> DEFINE S == Shape(T)
           L == Listed(T)
           walk == Walk(S, Listed(S))
<1>1. PICK p, list : p = Passes(S, walk) /\ list = AllTables(T)
  OBVIOUS
<1>2. IsListing(walk, L)
  BY ShapeWalks
<1>3. Once(p.out, p.rest, L) /\ Fits(S, L, p.out) /\ Stuck(S, p.rest)
  BY <1>1, <1>2, PassesOrder
<1>4. list = p.out \o p.rest
  BY <1>1 DEF AllTables, Ordered, Ended
<1>5. IsListing(list, L)
  BY <1>3, <1>4, OnceConcat
<1>6. L \subseteq DOMAIN T /\ \A i \in DOMAIN T : S[i].needs = References(T[i])
  BY DEF Listed, Shape
<1>7. n \in DOMAIN list /\ k \in DOMAIN list /\ list[n] \in L /\ list[k] \in S[list[n]].needs
  <2>1. n \in DOMAIN list /\ list[n] \in L
    BY <1>1, <1>5 DEF IsListing
  <2> QED
    BY <1>1, <1>6, <2>1
<1> HIDE DEF S, L, walk
<1>8. list[n] \in ToSet(p.rest)
  BY <1>3, <1>4, <1>7, EndedOrder
<1> DEFINE R == ToSet(p.rest)
<1>9. R \in SUBSET L
  BY <1>3 DEF Once, ToSet
<1>10. ASSUME NEW j \in R
       PROVE  \E i \in R \ {j} : i \in References(T[j])
  <2>1. PICK m \in DOMAIN p.rest : p.rest[m] = j
    BY DEF ToSet
  <2>2. S[j].needs \cap (R \ {j}) # {}
    BY <1>3, <2>1 DEF Stuck, Waits
  <2>3. j \in DOMAIN T
    BY <1>6, <1>9
  <2> QED
    BY <1>6, <2>2, <2>3
<1>11. IsFiniteSet(DOMAIN T)
  BY DEF IsTree
<1> HIDE DEF R
<1>12. HeldBack(T, list[n])
  BY <1>8, <1>9, <1>10, <1>11, WaitingIsHeldBack DEF L, R
<1> QED
  BY <1>1, <1>12

-----------------------------------------------------------------------------
(***************************************************************************)
(* The tables that ReadModel places under one another.                     *)
(***************************************************************************)
IsPlaced(parents, P) ==
  /\ P \subseteq DOMAIN parents
  /\ \E N \in Nat : \E rank \in [P -> 1 .. N] :
       \A i \in P : parents[i] = 0 \/ (parents[i] \in P /\ rank[parents[i]] < rank[i])

LEMMA PlacedIsPlaced ==
  ASSUME NEW parents, IsFiniteSet(DOMAIN parents)
  PROVE  IsPlaced(parents, Placed(parents))
<1> DEFINE N == Cardinality(DOMAIN parents)
           X == SUBSET DOMAIN parents
           Under(ids) == {i \in DOMAIN parents : parents[i] \in ids \cup {0}}
           G(f) == [n \in 0 .. N |-> IF n = 0 THEN {} ELSE Under(f[n - 1])]
           placed == CHOOSE f : f = G(f)
           next == [p \in X \X (1 .. N) |-> Under(p[1])]
<1>1. Placed(parents) = Under(placed[N])
  BY DEF Placed
<1>2. N \in Nat
  BY FS_CardinalityType
<1>3. \A ids \in X : Under(ids) \in X
  OBVIOUS
<1>4. \A a, b \in X : a \subseteq b => Under(a) \subseteq Under(b)
  OBVIOUS
<1>5. {} \in X
  OBVIOUS
<1>6. \A a \in X : \A i \in Under(a) : i \in DOMAIN parents /\ (parents[i] = 0 \/ parents[i] \in a)
  OBVIOUS
<1> HIDE DEF N, Under
<1>7. next \in [X \X (1 .. N) -> X] /\ \A x \in X : \A n \in 1 .. N : next[<<x, n>>] = Under(x)
  BY <1>3
<1> HIDE DEF next, X
<1>8. PICK f : IsIteration(f, N, X, {}, next)
  BY <1>2, <1>5, <1>7, Iterates
<1>9. f \in [0 .. N -> X] /\ f[0] = {} /\ \A n \in 1 .. N : f[n] = Under(f[n - 1])
  <2>1. f \in [0 .. N -> X] /\ f[0] = {} /\ \A n \in 1 .. N : f[n] = next[<<f[n - 1], n>>]
    BY <1>8 DEF IsIteration
  <2>2. \A n \in 1 .. N : n - 1 \in 0 .. N
    BY <1>2
  <2> QED
    BY <1>7, <2>1, <2>2
<1>10. f = G(f)
  <2>1. ASSUME NEW n \in 0 .. N
        PROVE  f[n] = IF n = 0 THEN {} ELSE Under(f[n - 1])
    <3>1. n # 0 => n \in 1 .. N
      BY <1>2
    <3> QED
      BY <1>9, <3>1
  <2> QED
    BY <1>9, <2>1
<1>11. placed = G(placed)
  BY <1>10
<1> HIDE DEF placed
<1>12. \A n \in 0 .. N : placed[n] = IF n = 0 THEN {} ELSE Under(placed[n - 1])
  BY <1>11
<1> DEFINE Q(n) == IF n \in 0 .. N THEN placed[n] ELSE Under(placed[N])
           T == {n \in 0 .. (N + 1) : Q(n) \in X /\ (n # 0 => Q(n) = Under(Q(n - 1)) /\ Q(n - 1) \subseteq Q(n))}
<1>13. 0 \in T
  BY <1>2, <1>5, <1>12
<1>14. ASSUME NEW n \in 0 .. (N + 1), n + 1 \in 0 .. (N + 1), n \in T
       PROVE  n + 1 \in T
  <2>1. n \in 0 .. N /\ (n + 1) - 1 = n /\ n + 1 # 0
    BY <1>2, <1>14
  <2>2. Q(n + 1) = Under(Q(n))
    <3>1. CASE n + 1 \in 0 .. N
      BY <1>12, <2>1, <3>1
    <3>2. CASE n + 1 \notin 0 .. N
      <4>1. n = N
        BY <1>2, <2>1, <3>2
      <4> QED
        BY <2>1, <3>2, <4>1
    <3> QED
      BY <3>1, <3>2
  <2>3. Q(n) \in X
    BY <1>14
  <2>4. Q(n + 1) \in X
    BY <1>3, <2>2, <2>3
  <2>5. Q(n) \subseteq Q(n + 1)
    <3>1. CASE n = 0
      <4>1. Q(0) = {}
        BY <1>2, <1>12
      <4> QED
        BY <3>1, <4>1
    <3>2. CASE n # 0
      <4>1. Q(n) = Under(Q(n - 1)) /\ Q(n - 1) \subseteq Q(n)
        BY <1>14, <3>2
      <4>2. Q(n - 1) \in X
        <5>1. Q(n - 1) \subseteq DOMAIN parents
          BY <2>3, <4>1 DEF X
        <5> HIDE DEF Q
        <5> QED
          BY <5>1 DEF X
      <4> HIDE DEF Q
      <4> QED
        BY <1>4, <2>2, <2>3, <4>1, <4>2
    <3> QED
      BY <3>1, <3>2
  <2> HIDE DEF Q
  <2> QED
    BY <1>14, <2>1, <2>2, <2>4, <2>5
<1>15. \A n \in 0 .. (N + 1) : Q(n) \in X /\ (n # 0 => Q(n) = Under(Q(n - 1)) /\ Q(n - 1) \subseteq Q(n))
  <2>1. N + 1 \in Nat
    BY <1>2
  <2>2. 0 .. (N + 1) \subseteq T
    <3> HIDE DEF T
    <3> QED
      BY <1>13, <1>14, <2>1, UpTo
  <2> QED
    BY <2>2
<1>16. Q(0) = {} /\ Q(N + 1) = Placed(parents)
  <2>1. 0 \in 0 .. N /\ N + 1 \notin 0 .. N
    BY <1>2
  <2> QED
    BY <1>1, <1>12, <2>1
<1> HIDE DEF Q
<1> DEFINE P == Placed(parents)
<1>17. P \subseteq DOMAIN parents
  <2>1. N + 1 \in 0 .. (N + 1)
    BY <1>2
  <2> QED
    BY <1>15, <1>16, <2>1 DEF X
<1>18. \A i \in P : \E n \in 0 .. (N + 1) : i \in Q(n) /\ \A k \in 0 .. (N + 1) : i \in Q(k) => n <= k
  <2> SUFFICES ASSUME NEW i \in P
               PROVE  \E n \in 0 .. (N + 1) : i \in Q(n) /\ \A k \in 0 .. (N + 1) : i \in Q(k) => n <= k
    OBVIOUS
  <2> DEFINE In == {n \in 0 .. (N + 1) : i \in Q(n)}
  <2>1. In \in SUBSET Nat /\ In # {}
    <3>1. N + 1 \in In
      BY <1>2, <1>16
    <3> QED
      BY <1>2, <3>1
  <2> HIDE DEF In
  <2>2. PICK n \in In : \A k \in In : n <= k
    BY <2>1, LeastElement
  <2> QED
    BY <2>2 DEF In
<1>19. PICK rank : rank = [i \in P |-> CHOOSE n \in 0 .. (N + 1) :
                                         i \in Q(n) /\ \A k \in 0 .. (N + 1) : i \in Q(k) => n <= k]
  OBVIOUS
<1>20. \A i \in P : /\ rank[i] \in 0 .. (N + 1) /\ i \in Q(rank[i])
                    /\ \A k \in 0 .. (N + 1) : i \in Q(k) => rank[i] <= k
  BY <1>18, <1>19
<1>21. \A i \in P : rank[i] \in 1 .. (N + 1)
  BY <1>2, <1>16, <1>20
<1>22. ASSUME NEW i \in P, parents[i] # 0
       PROVE  parents[i] \in P /\ rank[parents[i]] < rank[i]
  <2>1. rank[i] \in 0 .. (N + 1) /\ rank[i] # 0 /\ rank[i] - 1 \in 0 .. (N + 1)
    BY <1>2, <1>21
  <2>2. Q(rank[i] - 1) \in X /\ i \in Under(Q(rank[i] - 1))
    BY <1>15, <1>20, <2>1
  <2>3. parents[i] \in Q(rank[i] - 1)
    BY <1>6, <1>22, <2>2
  <2>4. \A n \in 0 .. (N + 1) : Q(n) \subseteq P
    <3> DEFINE U == {k \in 0 .. (N + 1) : Q(N + 1 - k) \subseteq P}
    <3>1. 0 \in U
      BY <1>2, <1>16
    <3>2. ASSUME NEW k \in 0 .. (N + 1), k + 1 \in 0 .. (N + 1), k \in U
          PROVE  k + 1 \in U
      <4>1. N + 1 - k \in 0 .. (N + 1) /\ N + 1 - k # 0 /\ (N + 1 - k) - 1 = N + 1 - (k + 1)
        BY <1>2, <3>2
      <4>2. Q(N + 1 - (k + 1)) \subseteq Q(N + 1 - k)
        BY <1>15, <4>1
      <4> QED
        BY <3>2, <4>2
    <3>3. 0 .. (N + 1) \subseteq U
      <4>1. N + 1 \in Nat
        BY <1>2
      <4> HIDE DEF U
      <4> QED
        BY <3>1, <3>2, <4>1, UpTo
    <3>4. \A n \in 0 .. (N + 1) : N + 1 - n \in 0 .. (N + 1) /\ N + 1 - (N + 1 - n) = n
      BY <1>2
    <3> QED
      BY <3>3, <3>4
  <2>5. parents[i] \in P
    BY <2>1, <2>3, <2>4
  <2>6. rank[parents[i]] <= rank[i] - 1 /\ rank[parents[i]] \in 0 .. (N + 1)
    BY <1>20, <2>1, <2>3, <2>5
  <2> QED
    BY <1>2, <2>1, <2>5, <2>6
<1>23. N + 1 \in Nat /\ rank \in [P -> 1 .. (N + 1)]
  BY <1>2, <1>19, <1>21
<1> HIDE DEF P
<1> QED
  BY <1>17, <1>22, <1>23 DEF IsPlaced, P

-----------------------------------------------------------------------------
(***************************************************************************)
(* Models and the files that they are saved in.                            *)
(***************************************************************************)
HasColumns(t) == {"at", "parent", "columns"} \subseteq DOMAIN t /\ IsList(t.columns)

HasEnums(enums) == IsFiniteSet(DOMAIN enums) /\ \A e \in DOMAIN enums : IsFiniteSet(enums[e])

SoundTables(T) == IsTree(T) /\ 0 \notin DOMAIN T /\ \A i \in DOMAIN T : HasColumns(T[i])

IsSound(m) == SoundTables(m.tables) /\ HasEnums(m.enums) /\ IsFiniteSet(DOMAIN m.relations)

\* The tables of a file: each has an id of its own.
AreListed(list) ==
  /\ IsList(list)
  /\ \A n \in 1 .. Len(list) : list[n].id \in Nat \ {0} /\ HasColumns(list[n].table)
  /\ \A n, k \in 1 .. Len(list) : list[n].id = list[k].id => n = k

IsFile(file) ==
  AreListed(file.tables) /\ HasEnums(file.enums) /\ IsFiniteSet(DOMAIN file.relations)

LEMMA RankedIsTree ==
  ASSUME NEW T, NEW parents, IsPlaced(parents, DOMAIN T), IsFiniteSet(DOMAIN T), DOMAIN T \subseteq Nat,
         \A i \in DOMAIN T : T[i].at = parents[i]
  PROVE  IsTree(T)
<1>1. PICK N \in Nat : \E rank \in [DOMAIN T -> 1 .. N] :
        \A i \in DOMAIN T : parents[i] = 0 \/ (parents[i] \in DOMAIN T /\ rank[parents[i]] < rank[i])
  BY DEF IsPlaced
<1>3. PICK rank \in [DOMAIN T -> 1 .. N] :
        \A i \in DOMAIN T : parents[i] = 0 \/ (parents[i] \in DOMAIN T /\ rank[parents[i]] < rank[i])
  BY <1>1
<1>2. IsRank(T, rank, N)
  BY <1>3 DEF IsRank
<1> QED
  BY <1>2 DEF IsTree

LEMMA TablesAreSound == ASSUME NEW T, AreTables(T) PROVE SoundTables(T)
<1> DEFINE parents == [i \in DOMAIN T |-> T[i].at]
<1>1. IsFiniteSet(DOMAIN T) /\ DOMAIN T \subseteq Nat \ {0} /\ Placed(parents) = DOMAIN T
  BY DEF AreTables
<1>2. IsPlaced(parents, DOMAIN T)
  <2>1. DOMAIN parents = DOMAIN T
    OBVIOUS
  <2> HIDE DEF parents
  <2> QED
    BY <1>1, <2>1, PlacedIsPlaced
<1>3. \A i \in DOMAIN T : T[i].at = parents[i]
  OBVIOUS
<1>4. IsTree(T)
  <2> HIDE DEF parents
  <2>1. DOMAIN T \subseteq Nat
    BY <1>1
  <2> QED
    BY <1>1, <1>2, <1>3, <2>1, RankedIsTree
<1>5. ASSUME NEW i \in DOMAIN T
      PROVE  HasColumns(T[i])
  <2>1. PICK cols : cols = T[i].columns
    OBVIOUS
  <2>2. cols \in Seq(ToSet(cols)) /\ {"at", "parent", "columns"} \subseteq DOMAIN T[i]
    BY <2>1 DEF AreTables, HasColumnList
  <2>3. IsList(cols)
    BY <2>2, ListIsSeq
  <2> QED
    BY <2>1, <2>2, <2>3 DEF HasColumns
<1> QED
  BY <1>1, <1>4, <1>5 DEF SoundTables

\* The file of a model has the tables that AllTables lists, in that order.
LEMMA SavedTables ==
  ASSUME NEW m, SoundTables(m.tables)
  PROVE  LET list == AllTables(m.tables)
             s == SaveModel(m).tables
         IN  /\ AreListed(s) /\ Len(s) = Len(list)
             /\ \A n \in 1 .. Len(s) : s[n] = SaveTable(m.tables, list[n])
<1> DEFINE T == m.tables
           list == AllTables(T)
           N == Len(list)
<1>1. PICK file : file = SaveModel(m)
  OBVIOUS
<1>2. file.tables = [n \in DOMAIN list |-> SaveTable(T, list[n])]
  BY <1>1 DEF SaveModel, SaveTables
<1>3. /\ IsList(list) /\ \A n \in DOMAIN list : list[n] \in DOMAIN T
      /\ \A n, k \in DOMAIN list : list[n] = list[k] => n = k
  BY AllTablesIsList DEF SoundTables
<1>4. N = Len(list) /\ N \in Nat /\ DOMAIN list = 1 .. N /\ \A n \in 1 .. N : list[n] \in DOMAIN T
  <2> HIDE DEF list
  <2> QED
    BY <1>3 DEF IsList
<1> HIDE DEF N
<1>5. PICK s : s = file.tables
  OBVIOUS
<1>6. DOMAIN s = 1 .. N /\ \A n \in 1 .. N : s[n] = SaveTable(T, list[n])
  BY <1>2, <1>4, <1>5
<1>7. IsList(s) /\ Len(s) = N
  <2>1. s = [n \in 1 .. N |-> s[n]]
    BY <1>2, <1>4, <1>5
  <2> QED
    BY <1>4, <2>1, ListOf
<1>8. ASSUME NEW n \in 1 .. N
      PROVE  s[n].id = list[n] /\ s[n].id \in Nat \ {0} /\ HasColumns(s[n].table)
  <2>1. list[n] \in DOMAIN T /\ HasColumns(T[list[n]]) /\ list[n] \in Nat \ {0}
    BY <1>4 DEF SoundTables, IsTree
  <2>2. s[n].id = list[n] /\ s[n].table = [T[list[n]] EXCEPT !.at = 0]
    BY <1>6 DEF SaveTable
  <2>3. PICK t, u : t = T[list[n]] /\ u = s[n].table
    OBVIOUS
  <2>4. u = [t EXCEPT !.at = 0] /\ HasColumns(t)
    BY <2>1, <2>2, <2>3
  <2>5. HasColumns(u)
    BY <2>4 DEF HasColumns
  <2> QED
    BY <2>1, <2>2, <2>3, <2>5
<1>9. \A n, k \in 1 .. N : s[n].id = s[k].id => n = k
  BY <1>3, <1>4, <1>8
<1> QED
  BY <1>1, <1>4, <1>5, <1>6, <1>7, <1>8, <1>9 DEF AreListed, N


LEMMA SavedIsFile ==
  ASSUME NEW m, IsSound(m)
  PROVE  IsFile(SaveModel(m))
<1>1. PICK file : file = SaveModel(m)
  OBVIOUS
<1>2. file.enums = m.enums /\ file.relations = m.relations
  BY <1>1 DEF SaveModel
<1>3. AreListed(file.tables)
  BY <1>1, SavedTables DEF IsSound
<1> QED
  BY <1>1, <1>2, <1>3 DEF IsFile, IsSound

-----------------------------------------------------------------------------
(***************************************************************************)
(* One more table.                                                         *)
(***************************************************************************)
Fields == {"title", "tables", "enums", "relations"}

\* Table t as it is put among the tables T.
Under(T, t) == [t EXCEPT !.at = IF t.parent \in DOMAIN T THEN t.parent ELSE 0]

LEMMA PutTableFacts ==
  ASSUME NEW m, DOMAIN m = Fields, NEW id, NEW t
  PROVE  LET new == PutTable(m, id, t)
         IN  /\ DOMAIN new = Fields /\ new.title = m.title /\ new.relations = m.relations
             /\ DOMAIN new.tables = DOMAIN m.tables \cup {id} /\ new.tables[id] = Under(m.tables, t)
             /\ \A i \in DOMAIN m.tables \ {id} : new.tables[i] = m.tables[i]
             /\ DOMAIN new.enums = DOMAIN m.enums \cup MissingEnums(m, t)
             /\ \A e \in DOMAIN new.enums : new.enums[e] = IF e \in DOMAIN m.enums THEN m.enums[e] ELSE {}
<1>1. PICK u, tables, enums :
        /\ u = Under(m.tables, t)
        /\ tables = [i \in DOMAIN m.tables \cup {id} |-> IF i # id THEN m.tables[i] ELSE u]
        /\ enums = [e \in DOMAIN m.enums \cup MissingEnums(m, t) |-> IF e \in DOMAIN m.enums THEN m.enums[e] ELSE {}]
  OBVIOUS
<1>2. PICK new : new = PutTable(m, id, t)
  OBVIOUS
<1>3. new = [m EXCEPT !.tables = tables, !.enums = enums]
  BY <1>1, <1>2 DEF PutTable, Under
<1>4. /\ DOMAIN new = Fields /\ new.title = m.title /\ new.relations = m.relations
      /\ new.tables = tables /\ new.enums = enums
  BY <1>3 DEF Fields
<1> QED
  BY <1>1, <1>2, <1>4

LEMMA UnderFacts ==
  ASSUME NEW T, NEW t, HasColumns(t)
  PROVE  LET u == Under(T, t)
         IN  /\ HasColumns(u) /\ u.at \in DOMAIN T \cup {0} /\ u.columns = t.columns /\ u.parent = t.parent
             /\ (t.parent \in DOMAIN T => u.at = t.parent) /\ DOMAIN u = DOMAIN t
             /\ \A f \in DOMAIN t \ {"at"} : u[f] = t[f]
<1>1. PICK a : a = IF t.parent \in DOMAIN T THEN t.parent ELSE 0
  OBVIOUS
<1>2. PICK u : u = [t EXCEPT !.at = a]
  OBVIOUS
<1>3. u = Under(T, t)
  BY <1>1, <1>2 DEF Under
<1>4. DOMAIN u = DOMAIN t /\ u.at = a /\ \A f \in DOMAIN t \ {"at"} : u[f] = t[f]
  BY <1>2 DEF HasColumns
<1>5. u.columns = t.columns /\ u.parent = t.parent
  BY <1>4 DEF HasColumns
<1>6. HasColumns(u)
  BY <1>4, <1>5 DEF HasColumns
<1> QED
  BY <1>1, <1>3, <1>4, <1>5, <1>6

LEMMA TreeGrows ==
  ASSUME NEW T, IsTree(T), NEW U, NEW id \in Nat \ DOMAIN T, DOMAIN U = DOMAIN T \cup {id},
         \A i \in DOMAIN T : U[i].at = T[i].at, U[id].at \in DOMAIN T \cup {0}
  PROVE  IsTree(U)
<1>1. PICK N \in Nat : \E rank : IsRank(T, rank, N)
  BY DEF IsTree
<1>2. PICK rank : IsRank(T, rank, N)
  BY <1>1
<1>3. PICK r : r = [i \in DOMAIN U |-> IF i = id THEN N + 1 ELSE rank[i]]
  OBVIOUS
<1>4. \A i \in DOMAIN T : i # id /\ r[i] = rank[i] /\ rank[i] \in 1 .. N
  BY <1>2, <1>3 DEF IsRank
<1>5. r[id] = N + 1
  BY <1>3
<1>6. \A i \in DOMAIN U : r[i] \in 1 .. (N + 1)
  BY <1>1, <1>4, <1>5
<1>7. r \in [DOMAIN U -> 1 .. (N + 1)]
  BY <1>3, <1>6
<1>8. ASSUME NEW i \in DOMAIN U, U[i].at # 0
      PROVE  U[i].at \in DOMAIN U /\ r[U[i].at] < r[i]
  <2>1. CASE i = id
    <3>1. U[i].at \in DOMAIN T
      BY <1>8, <2>1
    <3>2. r[U[i].at] \in 1 .. N
      BY <1>4, <3>1
    <3> QED
      BY <1>1, <1>5, <2>1, <3>1, <3>2
  <2>2. CASE i # id
    <3>1. i \in DOMAIN T /\ U[i].at = T[i].at
      BY <2>2
    <3>2. T[i].at \in DOMAIN T /\ rank[T[i].at] < rank[i]
      BY <1>2, <1>8, <3>1 DEF IsRank
    <3> QED
      BY <1>4, <3>1, <3>2
  <2> QED
    BY <2>1, <2>2
<1>9. IsRank(U, r, N + 1)
  BY <1>7, <1>8 DEF IsRank
<1>10. IsFiniteSet(DOMAIN U) /\ DOMAIN U \subseteq Nat
  BY FS_AddElement DEF IsTree
<1>11. N + 1 \in Nat
  BY <1>1
<1> QED
  BY <1>9, <1>10, <1>11 DEF IsTree

LEMMA TablesGrow ==
  ASSUME NEW m, DOMAIN m = Fields, SoundTables(m.tables), NEW t, HasColumns(t),
         NEW id \in Nat \ {0}, id \notin DOMAIN m.tables
  PROVE  SoundTables(PutTable(m, id, t).tables)
<1>1. PICK T, U : T = m.tables /\ U = PutTable(m, id, t).tables
  OBVIOUS
<1>2. DOMAIN U = DOMAIN T \cup {id} /\ U[id] = Under(T, t) /\ \A i \in DOMAIN T : U[i] = T[i]
  BY <1>1, PutTableFacts
<1>3. HasColumns(U[id]) /\ U[id].at \in DOMAIN T \cup {0}
  BY <1>2, UnderFacts
<1>4. IsTree(U)
  <2>1. IsTree(T) /\ id \in Nat \ DOMAIN T
    BY <1>1 DEF SoundTables
  <2> QED
    BY <1>2, <1>3, <2>1, TreeGrows
<1> QED
  BY <1>1, <1>2, <1>3, <1>4 DEF SoundTables

LEMMA EnumsAreFinite == ASSUME NEW m, NEW t, IsList(t.columns) PROVE IsFiniteSet(MissingEnums(m, t))
<1>1. PICK c : c = t.columns
  OBVIOUS
<1>2. PICK f : f = [k \in DOMAIN c |-> c[k].enum]
  OBVIOUS
<1>3. IsFiniteSet(DOMAIN c)
  BY <1>1, FS_Interval DEF IsList
<1>4. IsFiniteSet({f[k] : k \in DOMAIN c})
  <2>1. DOMAIN f = DOMAIN c
    BY <1>2
  <2> QED
    BY <1>3, <2>1, ImageIsFinite
<1>5. MissingEnums(m, t) \in SUBSET {f[k] : k \in DOMAIN c}
  BY <1>1, <1>2 DEF MissingEnums
<1> QED
  BY <1>4, <1>5, FS_Subset

\* A model file that is read: the model before the first table.
NoTables(into, file) ==
  [title |-> file.title, tables |-> << >>, enums |-> file.enums,
   relations |-> ReadRelations(into.relations, file.relations)]

LEMMA ReadSteps ==
  ASSUME NEW into, NEW file, Len(file.tables) \in Nat
  PROVE  \E after :
           /\ after[0] = NoTables(into, file) /\ after[Len(file.tables)] = ReadModel(into, file)
           /\ \A n \in 1 .. Len(file.tables) : after[n] = ReadTable(after[n - 1], file.tables[n])
<1> DEFINE N == Len(file.tables)
<1>1. PICK first : first = NoTables(into, file)
  OBVIOUS
<1> DEFINE G(f) == [n \in 0 .. N |-> IF n = 0 THEN first ELSE ReadTable(f[n - 1], file.tables[n])]
           after == CHOOSE f : f = G(f)
           Holds(f, k) == /\ f = [i \in 0 .. k |-> f[i]] /\ f[0] = first
                          /\ \A i \in 1 .. k : f[i] = ReadTable(f[i - 1], file.tables[i])
           T == {k \in 0 .. N : \E f : Holds(f, k)}
<1>2. ReadModel(into, file) = after[N]
  BY <1>1 DEF ReadModel, NoTables
<1>3. N \in Nat
  OBVIOUS
<1> HIDE DEF N
<1>4. 0 \in T
  <2>1. PICK g : g = [i \in 0 .. 0 |-> first]
    OBVIOUS
  <2>2. Holds(g, 0)
    BY <2>1
  <2>3. 0 \in 0 .. N
    BY <1>3
  <2> HIDE DEF Holds
  <2> QED
    BY <2>2, <2>3
<1>5. ASSUME NEW k \in 0 .. N, k + 1 \in 0 .. N, k \in T
      PROVE  k + 1 \in T
  <2>1. PICK f : Holds(f, k)
    BY <1>5
  <2>2. PICK x : x = ReadTable(f[k], file.tables[k + 1])
    OBVIOUS
  <2>3. PICK g : g = [i \in 0 .. (k + 1) |-> IF i = k + 1 THEN x ELSE f[i]]
    OBVIOUS
  <2>4. k \in Nat
    BY <1>3
  <2>5. g = [i \in 0 .. (k + 1) |-> g[i]] /\ g[0] = first
    BY <2>1, <2>3, <2>4
  <2>6. ASSUME NEW i \in 1 .. (k + 1)
        PROVE  g[i] = ReadTable(g[i - 1], file.tables[i])
    <3>1. g[i - 1] = f[i - 1]
      BY <2>3, <2>4
    <3>2. CASE i = k + 1
      <4>1. i - 1 = k
        BY <2>4, <3>2
      <4>2. g[i] = x
        BY <2>3, <3>2
      <4> QED
        BY <2>2, <3>1, <3>2, <4>1, <4>2
    <3>3. CASE i # k + 1
      <4>1. i \in 1 .. k /\ g[i] = f[i]
        BY <2>3, <2>4, <3>3
      <4> QED
        BY <2>1, <3>1, <4>1
    <3> QED
      BY <3>2, <3>3
  <2>7. Holds(g, k + 1)
    BY <2>5, <2>6
  <2> QED
    BY <1>5, <2>7
<1>6. N \in T
  <2> HIDE DEF T
  <2>1. 0 .. N \subseteq T
    BY <1>3, <1>4, <1>5, UpTo
  <2> QED
    BY <1>3, <2>1
<1>7. PICK f : Holds(f, N)
  BY <1>6
<1>8. f = G(f)
  <2>1. DOMAIN f = DOMAIN G(f)
    BY <1>7
  <2>2. ASSUME NEW n \in 0 .. N
        PROVE  f[n] = G(f)[n]
    <3>1. CASE n = 0
      BY <1>7, <3>1
    <3>2. CASE n # 0
      <4>1. n \in 1 .. N
        BY <1>3, <3>2
      <4> QED
        BY <1>7, <3>2, <4>1
    <3> QED
      BY <3>1, <3>2
  <2>3. f = [n \in 0 .. N |-> f[n]]
    BY <1>7
  <2> QED
    BY <2>1, <2>2, <2>3
<1>9. after = G(after)
  BY <1>8
<1>10. /\ after[0] = first
       /\ \A n \in 0 .. N : n # 0 => after[n] = ReadTable(after[n - 1], file.tables[n])
  <2> HIDE DEF after
  <2> QED
    BY <1>3, <1>9, SMTT(30)
<1>11. /\ after[N] = ReadModel(into, file)
       /\ \A n \in 1 .. N : after[n] = ReadTable(after[n - 1], file.tables[n])
  <2> HIDE DEF after
  <2> QED
    BY <1>2, <1>3, <1>10
<1> HIDE DEF after
<1> QED
  BY <1>1, <1>10, <1>11 DEF N


\* Table n of a file as it is read: under its parent if that is before it in the file.
Ids(file, n) == {file.tables[k].id : k \in 1 .. n}

Undescribed(t) == [t EXCEPT !.desc = ""]

AsRead(file, n) ==
  LET t == Undescribed(file.tables[n].table)
  IN  [t EXCEPT !.at = IF t.parent \in Ids(file, n - 1) THEN t.parent ELSE 0]

EnumsOf(t) == {t.columns[n].enum : n \in DOMAIN t.columns} \ {""}

\* What has been read after n tables.
Read(m, file, n) ==
  /\ DOMAIN m = Fields /\ SoundTables(m.tables)
  /\ DOMAIN m.tables = Ids(file, n)
  /\ \A k \in 1 .. n : m.tables[file.tables[k].id] = AsRead(file, k)
  /\ \A e \in DOMAIN file.enums : e \in DOMAIN m.enums /\ m.enums[e] = file.enums[e]
  /\ \A k \in 1 .. n : EnumsOf(file.tables[k].table) \subseteq DOMAIN m.enums
  /\ HasEnums(file.enums) => HasEnums(m.enums)
  /\ m.relations = ReadRelations(<< >>, file.relations)

LEMMA UndescribedFacts ==
  ASSUME NEW t, HasColumns(t)
  PROVE  LET u == Undescribed(t)
         IN  HasColumns(u) /\ u.parent = t.parent /\ u.columns = t.columns
<1>1. PICK u : u = [t EXCEPT !.desc = ""]
  OBVIOUS
<1>2. DOMAIN u = DOMAIN t /\ u.parent = t.parent /\ u.columns = t.columns
  BY <1>1 DEF HasColumns
<1> QED
  BY <1>1, <1>2 DEF HasColumns, Undescribed

LEMMA ReadTableKeeps ==
  ASSUME NEW file, AreListed(file.tables), NEW n \in 1 .. Len(file.tables), NEW m, Read(m, file, n - 1)
  PROVE  Read(ReadTable(m, file.tables[n]), file, n)
<1> DEFINE node == file.tables[n]
           id == node.id
<1>1. PICK N : N = Len(file.tables) /\ N \in Nat
  BY DEF AreListed, IsList
<1>2. id \in Nat \ {0} /\ HasColumns(node.table)
  BY DEF AreListed
<1>3. ASSUME NEW k \in 1 .. (n - 1)
      PROVE  file.tables[k].id # id
  <2>1. k \in 1 .. N /\ n \in 1 .. N /\ k # n
    BY <1>1
  <2> QED
    BY <1>1, <2>1 DEF AreListed
<1>4. id \notin DOMAIN m.tables
  BY <1>3 DEF Read, Ids
<1>5. PICK t : t = Undescribed(node.table)
  OBVIOUS
<1>6. HasColumns(t) /\ t.columns = node.table.columns
  BY <1>2, <1>5, UndescribedFacts
<1>7. PICK new : new = ReadTable(m, node)
  OBVIOUS
<1>8. new = PutTable(m, id, t)
  <2>1. new = AddOne(m, id, t)
    BY <1>5, <1>7 DEF ReadTable, Undescribed
  <2>2. ~(id <= 0 \/ id \in DOMAIN m.tables)
    BY <1>2, <1>4
  <2> HIDE DEF id, node
  <2> QED
    BY <2>1, <2>2 DEF AddOne
<1>9. DOMAIN m = Fields /\ SoundTables(m.tables) /\ DOMAIN m.tables = Ids(file, n - 1)
  BY DEF Read
<1>10. /\ DOMAIN new = Fields /\ new.relations = m.relations
       /\ DOMAIN new.tables = DOMAIN m.tables \cup {id} /\ new.tables[id] = Under(m.tables, t)
       /\ \A i \in DOMAIN m.tables \ {id} : new.tables[i] = m.tables[i]
       /\ DOMAIN new.enums = DOMAIN m.enums \cup MissingEnums(m, t)
       /\ \A e \in DOMAIN new.enums : new.enums[e] = IF e \in DOMAIN m.enums THEN m.enums[e] ELSE {}
  <2> HIDE DEF id
  <2> QED
    BY <1>8, <1>9, PutTableFacts
<1>11. SoundTables(new.tables)
  <2> HIDE DEF id
  <2> QED
    BY <1>2, <1>4, <1>6, <1>8, <1>9, TablesGrow
<1>12. Ids(file, n) = Ids(file, n - 1) \cup {id}
  <2>1. 1 .. n = (1 .. (n - 1)) \cup {n}
    BY <1>1
  <2> QED
    BY <2>1 DEF Ids
<1>13. ASSUME NEW k \in 1 .. n
       PROVE  new.tables[file.tables[k].id] = AsRead(file, k)
  <2>1. CASE k = n
    <3>1. Under(m.tables, t) = AsRead(file, n)
      BY <1>5, <1>9 DEF Under, AsRead
    <3> QED
      BY <1>10, <2>1, <3>1
  <2>2. CASE k # n
    <3>1. k \in 1 .. (n - 1)
      BY <1>1, <2>2
    <3>2. file.tables[k].id \in DOMAIN m.tables /\ file.tables[k].id # id
      BY <1>3, <1>9, <3>1 DEF Ids
    <3> QED
      BY <1>10, <3>1, <3>2 DEF Read
  <2> QED
    BY <2>1, <2>2
<1>14. \A e \in DOMAIN file.enums : e \in DOMAIN new.enums /\ new.enums[e] = file.enums[e]
  BY <1>10 DEF Read
<1>15. ASSUME NEW k \in 1 .. n
       PROVE  EnumsOf(file.tables[k].table) \subseteq DOMAIN new.enums
  <2>1. CASE k = n
    <3>1. EnumsOf(node.table) \subseteq DOMAIN m.enums \cup MissingEnums(m, t)
      BY <1>6 DEF EnumsOf, MissingEnums
    <3> QED
      BY <1>10, <2>1, <3>1
  <2>2. CASE k # n
    <3>1. k \in 1 .. (n - 1)
      BY <1>1, <2>2
    <3>2. EnumsOf(file.tables[k].table) \subseteq DOMAIN m.enums
      BY <3>1 DEF Read
    <3> QED
      BY <1>10, <3>2
  <2> QED
    BY <2>1, <2>2
<1>16. ASSUME HasEnums(file.enums)
       PROVE  HasEnums(new.enums)
  <2>1. HasEnums(m.enums)
    BY <1>16 DEF Read
  <2>2. IsFiniteSet(MissingEnums(m, t))
    BY <1>6, EnumsAreFinite DEF HasColumns
  <2>3. IsFiniteSet(DOMAIN new.enums)
    <3>1. IsFiniteSet(DOMAIN m.enums)
      BY <2>1 DEF HasEnums
    <3>2. IsFiniteSet(DOMAIN m.enums \cup MissingEnums(m, t))
      BY <2>2, <3>1, FS_Union
    <3> QED
      BY <1>10, <3>2
  <2> QED
    BY <1>10, <2>1, <2>3, FS_EmptySet DEF HasEnums
<1> HIDE DEF id
<1>17. new.relations = ReadRelations(<< >>, file.relations) /\ DOMAIN new.tables = Ids(file, n)
  BY <1>9, <1>10, <1>12 DEF Read
<1>18. Read(new, file, n)
  BY <1>10, <1>11, <1>13, <1>14, <1>15, <1>16, <1>17 DEF Read
<1> QED
  BY <1>7, <1>18

\* A file is read table by table, each under its own id and under its parent.
LEMMA FileIsRead ==
  ASSUME NEW file, AreListed(file.tables)
  PROVE  Read(ReadModel(EmptyModel, file), file, Len(file.tables))
<1>1. PICK N : N = Len(file.tables) /\ N \in Nat
  BY DEF AreListed, IsList
<1>2. PICK after :
        /\ after[0] = NoTables(EmptyModel, file) /\ after[N] = ReadModel(EmptyModel, file)
        /\ \A n \in 1 .. N : after[n] = ReadTable(after[n - 1], file.tables[n])
  BY <1>1, ReadSteps
<1> DEFINE T == {n \in 0 .. N : Read(after[n], file, n)}
<1>3. 0 \in T
  <2>1. PICK m : m = NoTables(EmptyModel, file)
    OBVIOUS
  <2>2. /\ DOMAIN m = Fields /\ m.tables = << >> /\ m.enums = file.enums
        /\ m.relations = ReadRelations(<< >>, file.relations)
    BY <2>1 DEF NoTables, EmptyModel, Fields
  <2>3. DOMAIN m.tables = {} /\ Ids(file, 0) = {} /\ 1 .. 0 = {}
    BY <2>2 DEF Ids
  <2>4. SoundTables(m.tables)
    <3>1. PICK rank : rank = [i \in {} |-> 1]
      OBVIOUS
    <3>2. IsRank(m.tables, rank, 0)
      BY <2>3, <3>1 DEF IsRank
    <3> QED
      BY <2>3, <3>2, FS_EmptySet DEF SoundTables, IsTree
  <2>5. Read(m, file, 0)
    BY <2>2, <2>3, <2>4 DEF Read
  <2> QED
    BY <1>1, <1>2, <2>1, <2>5
<1>4. ASSUME NEW n \in 0 .. N, n + 1 \in 0 .. N, n \in T
      PROVE  n + 1 \in T
  <2>1. n + 1 \in 1 .. N /\ (n + 1) - 1 = n
    BY <1>1, <1>4
  <2>2. Read(after[n], file, n) /\ after[n + 1] = ReadTable(after[n], file.tables[n + 1])
    BY <1>2, <1>4, <2>1
  <2>3. Read(after[n + 1], file, n + 1)
    BY <1>1, <2>1, <2>2, ReadTableKeeps
  <2> QED
    BY <1>4, <2>3
<1>5. N \in T
  <2> HIDE DEF T
  <2>1. 0 .. N \subseteq T
    BY <1>1, <1>3, <1>4, UpTo
  <2> QED
    BY <1>1, <2>1
<1> QED
  BY <1>1, <1>2, <1>5

-----------------------------------------------------------------------------
(***************************************************************************)
(* Tables that are edited: the ids and the parents of a model.             *)
(***************************************************************************)
\* The parent of a table, and what its columns refer to, are ids or 0.
Numbered(t) ==
  /\ HasColumns(t) /\ "name" \in DOMAIN t /\ t.parent \in Nat
  /\ \A n \in 1 .. Len(t.columns) : "ref" \in DOMAIN t.columns[n] /\ t.columns[n].ref \in Nat

NumberedTables(T) == SoundTables(T) /\ \A i \in DOMAIN T : Numbered(T[i])

IsEdited(m) == DOMAIN m = Fields /\ NumberedTables(m.tables)

\* A table is looked up by its name.
LEMMA FirstIsOne ==
  ASSUME NEW T, IsTree(T), NEW ids \in SUBSET DOMAIN T, ids # {}
  PROVE  FirstOf(T, ids) \in ids
<1>1. PICK s : s = Walk(T, ids) /\ s \in Seq(ids)
  BY WalkLists DEF IsListing
<1>2. PICK a \in ids : \E n \in DOMAIN s : s[n] = a
  BY <1>1, WalkLists DEF IsListing
<1>3. s # << >>
  BY <1>2
<1>4. Head(s) \in ids
  BY <1>1, <1>3
<1> QED
  BY <1>1, <1>4 DEF FirstOf

LEMMA FirstOfIsOne ==
  ASSUME NEW T, IsTree(T), NEW ids \in SUBSET DOMAIN T
  PROVE  FirstOf(T, ids) \in ids \cup {0}
<1>1. CASE ids = {}
  BY <1>1 DEF FirstOf
<1>2. CASE ids # {}
  BY <1>2, FirstIsOne
<1> QED
  BY <1>1, <1>2

LEMMA NamedIsTable ==
  ASSUME NEW T, IsTree(T), NEW name
  PROVE  GetTableByName(T, name) \in DOMAIN T \cup {0} /\ GetTableByName(T, name) \in Nat
<1>1. PICK named, db : named = {i \in DOMAIN T : T[i].name = name} /\ db = {i \in DOMAIN T : T[i].db = name}
  OBVIOUS
<1>2. FirstOf(T, named) \in DOMAIN T \cup {0} /\ FirstOf(T, db) \in DOMAIN T \cup {0}
  <2>1. named \in SUBSET DOMAIN T /\ db \in SUBSET DOMAIN T
    BY <1>1
  <2> QED
    BY <2>1, FirstOfIsOne
<1>3. GetTableByName(T, name) \in {FirstOf(T, named), FirstOf(T, db)}
  BY <1>1 DEF GetTableByName, GetTableByDbName
<1>4. GetTableByName(T, name) \in DOMAIN T \cup {0}
  BY <1>2, <1>3
<1> QED
  BY <1>4 DEF IsTree

\* The next id is free: there are 999 ids to choose from.
LEMMA LeastFreeIsFree ==
  ASSUME NEW T, NEW ids \in SUBSET Nat, ~(ids \subseteq DOMAIN T)
  PROVE  LeastFree(T, ids) \in ids \ DOMAIN T
<1>1. ids \ DOMAIN T \in SUBSET Nat /\ ids \ DOMAIN T # {}
  OBVIOUS
<1>2. \E i \in ids \ DOMAIN T : \A j \in ids \ DOMAIN T : i <= j
  BY <1>1, LeastElement
<1> QED
  BY <1>2 DEF LeastFree

LEMMA TooFewTables ==
  ASSUME NEW D, IsFiniteSet(D), NEW ids, IsFiniteSet(ids), Cardinality(D) < Cardinality(ids)
  PROVE  ~(ids \subseteq D)
<1>1. Cardinality(D) \in Nat /\ Cardinality(ids) \in Nat
  BY FS_CardinalityType
<1>2. ids \subseteq D => Cardinality(ids) <= Cardinality(D)
  BY FS_Subset
<1> QED
  BY <1>1, <1>2

LEMMA CountUpTo == ASSUME NEW N \in Nat PROVE IsFiniteSet(1 .. N) /\ Cardinality(1 .. N) = N
BY FS_Interval

LEMMA CountOfTenths == IsFiniteSet(Tenths) /\ Cardinality(Tenths) = 999
<1>0. PICK N \in Nat : N = 999
  OBVIOUS
<1>1. PICK f : f = [n \in 1 .. N |-> 10 * n]
  OBVIOUS
<1>2. Tenths = {10 * n : n \in 1 .. N}
  BY <1>0 DEF Tenths
<1>3. f \in [1 .. N -> Tenths] /\ DOMAIN f = 1 .. N
  BY <1>1, <1>2
<1>4. f \in Injection(1 .. N, Tenths)
  <2>1. \A a, b \in DOMAIN f : f[a] = f[b] => a = b
    BY <1>1
  <2>2. IsInjective(f)
    BY <2>1 DEF IsInjective
  <2> QED
    BY <1>3, <2>2 DEF Injection
<1>5. f \in Surjection(1 .. N, Tenths)
  <2>1. \A x \in Tenths : \E n \in 1 .. N : f[n] = x
    BY <1>1, <1>2
  <2> QED
    BY <1>3, <2>1 DEF Surjection
<1>6. IsFiniteSet(1 .. N) /\ Cardinality(1 .. N) = N
  BY CountUpTo
<1>7. ExistsBijection(1 .. N, Tenths)
  BY <1>4, <1>5 DEF ExistsBijection, Bijection
<1> QED
  BY <1>0, <1>6, <1>7, FS_Bijection

LEMMA TreeHasTop ==
  ASSUME NEW T, IsTree(T), SubTables(T, 0) = {}
  PROVE  DOMAIN T = {}
<1>1. PICK N \in Nat : \E rank : IsRank(T, rank, N)
  BY DEF IsTree
<1>2. PICK rank : IsRank(T, rank, N)
  BY <1>1
<1> DEFINE R == {rank[i] : i \in DOMAIN T}
<1>3. SUFFICES ASSUME DOMAIN T # {} PROVE FALSE
  OBVIOUS
<1>4. R \in SUBSET Nat /\ R # {}
  BY <1>2, <1>3 DEF IsRank
<1>5. PICK x \in R : \A y \in R : x <= y
  <2> HIDE DEF R
  <2> QED
    BY <1>4, LeastElement
<1>6. PICK i \in DOMAIN T : x = rank[i]
  OBVIOUS
<1>7. T[i].at # 0
  BY DEF SubTables
<1>8. T[i].at \in DOMAIN T /\ rank[T[i].at] < rank[i] /\ rank[i] \in 1 .. N /\ rank[T[i].at] \in 1 .. N
  BY <1>2, <1>7 DEF IsRank
<1>9. rank[i] <= rank[T[i].at]
  BY <1>5, <1>6, <1>8
<1> QED
  BY <1>8, <1>9

LEMMA NextIdIsFree ==
  ASSUME NEW T, SoundTables(T), Cardinality(DOMAIN T) <= 998, NEW parent \in Nat
  PROVE  FindNextTableId(T, parent) \in Nat \ {0} /\ FindNextTableId(T, parent) \notin DOMAIN T
<1>1. IsTree(T) /\ IsFiniteSet(DOMAIN T) /\ Cardinality(DOMAIN T) \in Nat
  BY FS_CardinalityType DEF SoundTables, IsTree
<1>2. PICK N \in Nat : N = 999
  OBVIOUS
<1>3. PICK ids : ids = 1 .. N
  OBVIOUS
<1>4. IsFiniteSet(ids) /\ Cardinality(ids) = 999 /\ ids \in SUBSET (Nat \ {0})
  <2>1. IsFiniteSet(1 .. N) /\ Cardinality(1 .. N) = N
    BY CountUpTo
  <2> QED
    BY <1>2, <1>3, <2>1
<1>5. ~(ids \subseteq DOMAIN T) /\ ~(Tenths \subseteq DOMAIN T)
  <2>1. Cardinality(DOMAIN T) < 999
    BY <1>1
  <2>2. Cardinality(DOMAIN T) < Cardinality(ids) /\ Cardinality(DOMAIN T) < Cardinality(Tenths)
    BY <1>4, <2>1, CountOfTenths
  <2>3. IsFiniteSet(ids) /\ IsFiniteSet(Tenths) /\ IsFiniteSet(DOMAIN T)
    BY <1>1, <1>4, CountOfTenths
  <2>4. ~(ids \subseteq DOMAIN T)
    BY <2>2, <2>3, TooFewTables
  <2>5. ~(Tenths \subseteq DOMAIN T)
    BY <2>2, <2>3, TooFewTables
  <2> QED
    BY <2>4, <2>5
<1>6. Tenths \in SUBSET (Nat \ {0})
  BY DEF Tenths
<1>7. PICK near : near = parent .. (parent + 99)
  OBVIOUS
<1>8. \A S \in SUBSET (Nat \ {0}) : ~(S \subseteq DOMAIN T) => LeastFree(T, S) \in (Nat \ {0}) \ DOMAIN T
  BY LeastFreeIsFree
<1>9. CASE parent = 0 /\ SubTables(T, 0) = {}
  <2>1. FindNextTableId(T, parent) = 1
    BY <1>9 DEF FindNextTableId
  <2>2. DOMAIN T = {}
    BY <1>1, <1>9, TreeHasTop
  <2> QED
    BY <2>1, <2>2
<1>10. CASE parent = 0 /\ SubTables(T, 0) # {}
  <2>1. FindNextTableId(T, parent) = LeastFree(T, Tenths)
    BY <1>5, <1>10 DEF FindNextTableId
  <2> QED
    BY <1>5, <1>6, <1>8, <2>1
<1>11. CASE parent # 0
  <2>1. FindNextTableId(T, parent) = IF ~(near \subseteq DOMAIN T) THEN LeastFree(T, near) ELSE LeastFree(T, ids)
    BY <1>2, <1>3, <1>5, <1>7, <1>11 DEF FindNextTableId
  <2>2. near \in SUBSET (Nat \ {0})
    BY <1>7, <1>11
  <2>3. LeastFree(T, ids) \in (Nat \ {0}) \ DOMAIN T
    BY <1>4, <1>5, <1>8
  <2>4. ~(near \subseteq DOMAIN T) => LeastFree(T, near) \in (Nat \ {0}) \ DOMAIN T
    BY <1>8, <2>2
  <2> QED
    BY <2>1, <2>3, <2>4
<1> QED
  BY <1>9, <1>10, <1>11

LEMMA ParentIdFacts ==
  ASSUME NEW t, Numbered(t), NEW id \in Nat
  PROVE  LET u == ParentId(t, id)
         IN  /\ Numbered(u) /\ u.parent = id /\ u.at = t.at /\ u.name = t.name
             /\ Len(u.columns) = Len(t.columns)
             /\ \A n \in 1 .. Len(t.columns) :
                  u.columns[n].ref = IF t.columns[n].ref > 0 /\ t.columns[n].ref = t.parent
                                     THEN id ELSE t.columns[n].ref
<1>1. PICK c, N : c = t.columns /\ N = Len(c) /\ N \in Nat /\ DOMAIN c = 1 .. N /\ c = [n \in 1 .. N |-> c[n]]
  BY DEF Numbered, HasColumns, IsList
<1>2. \A n \in 1 .. N : "ref" \in DOMAIN c[n] /\ c[n].ref \in Nat
  BY <1>1 DEF Numbered
<1>3. PICK d : d = [n \in 1 .. N |-> IF c[n].ref > 0 /\ c[n].ref = t.parent THEN [c[n] EXCEPT !.ref = id] ELSE c[n]]
  OBVIOUS
<1>4. PICK u : u = [t EXCEPT !.parent = id, !.columns = d]
  OBVIOUS
<1>5. u = ParentId(t, id)
  BY <1>1, <1>3, <1>4 DEF ParentId
<1>6. IsList(d) /\ Len(d) = N
  <2>1. d = [n \in 1 .. N |-> d[n]]
    BY <1>3
  <2> QED
    BY <1>1, <2>1, ListOf
<1>7. ASSUME NEW n \in 1 .. N
      PROVE  /\ "ref" \in DOMAIN d[n] /\ d[n].ref \in Nat
             /\ d[n].ref = IF c[n].ref > 0 /\ c[n].ref = t.parent THEN id ELSE c[n].ref
  <2>1. PICK e : e = [c[n] EXCEPT !.ref = id]
    OBVIOUS
  <2>2. "ref" \in DOMAIN e /\ e.ref = id
    BY <1>2, <2>1
  <2>3. d[n] = IF c[n].ref > 0 /\ c[n].ref = t.parent THEN e ELSE c[n]
    BY <1>3, <2>1
  <2> QED
    BY <1>2, <2>2, <2>3
<1>8. {"name", "at", "parent", "columns"} \subseteq DOMAIN t
  BY DEF Numbered, HasColumns
<1>9. /\ DOMAIN u = DOMAIN t /\ u.parent = id /\ u.columns = d
      /\ u.at = t.at /\ u.name = t.name
  BY <1>4, <1>8
<1>10. Numbered(u)
  BY <1>6, <1>7, <1>8, <1>9 DEF Numbered, HasColumns
<1> QED
  BY <1>1, <1>5, <1>6, <1>7, <1>9, <1>10

\* A table is added under an id that no table has.
LEMMA PutIsEdited ==
  ASSUME NEW m, IsEdited(m), NEW t, Numbered(t), NEW id \in Nat \ {0}, id \notin DOMAIN m.tables
  PROVE  /\ IsEdited(PutTable(m, id, t))
         /\ Cardinality(DOMAIN PutTable(m, id, t).tables) = Cardinality(DOMAIN m.tables) + 1
<1>1. PICK new : new = PutTable(m, id, t)
  OBVIOUS
<1>2. DOMAIN m = Fields /\ SoundTables(m.tables) /\ HasColumns(t)
  BY DEF IsEdited, NumberedTables, Numbered
<1>3. /\ DOMAIN new = Fields /\ DOMAIN new.tables = DOMAIN m.tables \cup {id}
      /\ new.tables[id] = Under(m.tables, t)
      /\ \A i \in DOMAIN m.tables : new.tables[i] = m.tables[i]
  BY <1>1, <1>2, PutTableFacts
<1>4. SoundTables(new.tables)
  BY <1>1, <1>2, TablesGrow
<1>5. Numbered(new.tables[id])
  <2>1. PICK u : u = Under(m.tables, t)
    OBVIOUS
  <2>2. /\ HasColumns(u) /\ u.columns = t.columns /\ u.parent = t.parent /\ DOMAIN u = DOMAIN t
    BY <1>2, <2>1, UnderFacts
  <2> QED
    BY <1>3, <2>1, <2>2 DEF Numbered
<1>6. Cardinality(DOMAIN new.tables) = Cardinality(DOMAIN m.tables) + 1
  <2>1. IsFiniteSet(DOMAIN m.tables)
    BY <1>2 DEF SoundTables, IsTree
  <2> QED
    BY <1>3, <2>1, FS_AddElement
<1>7. IsEdited(new)
  BY <1>3, <1>4, <1>5 DEF IsEdited, NumberedTables
<1> QED
  BY <1>1, <1>6, <1>7

LEMMA AddOneIsPut ==
  ASSUME NEW m, IsEdited(m), Cardinality(DOMAIN m.tables) <= 998, NEW t, Numbered(t), NEW id \in Int
  PROVE  \E new \in Nat \ {0} : new \notin DOMAIN m.tables /\ AddOne(m, id, t) = PutTable(m, new, t)
<1>1. CASE id <= 0 \/ id \in DOMAIN m.tables
  <2>1. PICK new : new = FindNextTableId(m.tables, t.parent)
    OBVIOUS
  <2>2. new \in Nat \ {0} /\ new \notin DOMAIN m.tables
    BY <2>1, NextIdIsFree DEF IsEdited, NumberedTables, Numbered
  <2>3. AddOne(m, id, t) = PutTable(m, new, t)
    BY <1>1, <2>1 DEF AddOne
  <2> QED
    BY <2>2, <2>3
<1>2. CASE ~(id <= 0 \/ id \in DOMAIN m.tables)
  <2>1. AddOne(m, id, t) = PutTable(m, id, t)
    BY <1>2 DEF AddOne
  <2> QED
    BY <1>2, <2>1
<1> QED
  BY <1>1, <1>2

LEMMA AddOneIsEdited ==
  ASSUME NEW m, IsEdited(m), Cardinality(DOMAIN m.tables) <= 998, NEW t, Numbered(t), NEW id \in Int
  PROVE  /\ IsEdited(AddOne(m, id, t))
         /\ Cardinality(DOMAIN AddOne(m, id, t).tables) = Cardinality(DOMAIN m.tables) + 1
BY AddOneIsPut, PutIsEdited

\* Tables that hang where they did.
LEMMA SameTree ==
  ASSUME NEW T, SoundTables(T), NEW U, DOMAIN U = DOMAIN T,
         \A i \in DOMAIN T : U[i].at = T[i].at /\ Numbered(U[i])
  PROVE  NumberedTables(U)
<1>1. PICK N \in Nat : \E rank : IsRank(T, rank, N)
  BY DEF SoundTables, IsTree
<1>2. PICK rank : IsRank(T, rank, N)
  BY <1>1
<1>3. IsRank(U, rank, N)
  BY <1>2 DEF IsRank
<1>4. IsTree(U)
  BY <1>3 DEF SoundTables, IsTree
<1> QED
  BY <1>4 DEF NumberedTables, SoundTables, Numbered

\* Some of the tables of a tree, each under its parent or at the top.
LEMMA PartOfTree ==
  ASSUME NEW T, IsTree(T), NEW U, DOMAIN U \subseteq DOMAIN T,
         \A i \in DOMAIN U : U[i].at = 0 \/ (U[i].at = T[i].at /\ U[i].at \in DOMAIN U)
  PROVE  IsTree(U)
<1>1. PICK N \in Nat : \E rank : IsRank(T, rank, N)
  BY DEF IsTree
<1>2. PICK rank : IsRank(T, rank, N)
  BY <1>1
<1>3. PICK r : r = [i \in DOMAIN U |-> rank[i]]
  OBVIOUS
<1>4. r \in [DOMAIN U -> 1 .. N]
  BY <1>2, <1>3 DEF IsRank
<1>5. ASSUME NEW i \in DOMAIN U, U[i].at # 0
      PROVE  U[i].at \in DOMAIN U /\ r[U[i].at] < r[i]
  <2>1. U[i].at = T[i].at /\ U[i].at \in DOMAIN U /\ i \in DOMAIN T
    BY <1>5
  <2>2. rank[T[i].at] < rank[i]
    BY <1>2, <1>5, <2>1 DEF IsRank
  <2> QED
    BY <1>3, <2>1, <2>2
<1>6. IsRank(U, r, N)
  BY <1>4, <1>5 DEF IsRank
<1>7. IsFiniteSet(DOMAIN U) /\ DOMAIN U \subseteq Nat
  BY FS_Subset DEF IsTree
<1> QED
  BY <1>6, <1>7 DEF IsTree

\* A table is below i if its parent is.
LEMMA BelowParent ==
  ASSUME NEW T, IsTree(T), 0 \notin DOMAIN T, NEW i, NEW j \in DOMAIN T
  PROVE  /\ T[j].at \in DOMAIN T \cup {0}
         /\ j \in Subtree(T, i) <=> (j = i \/ T[j].at \in Subtree(T, i))
<1>1. T[j].at \in DOMAIN T \cup {0}
  BY DEF IsTree, IsRank
<1>2. PICK s : s = IF T[j].at = 0 THEN << >> ELSE Path(T, T[j].at)
  OBVIOUS
<1>3. Path(T, j) = Append(s, j)
  BY <1>2, PathFacts
<1>4. s \in Seq(DOMAIN T)
  <2>1. CASE T[j].at = 0
    BY <1>2, <2>1
  <2>2. CASE T[j].at # 0
    <3>1. T[j].at \in DOMAIN T
      BY <1>1, <2>2
    <3> QED
      BY <1>2, <2>2, <3>1, PathFacts
  <2> QED
    BY <2>1, <2>2
<1>5. Contains(Append(s, j), i) <=> (Contains(s, i) \/ j = i)
  <2>1. PICK N \in Nat : N = Len(s) /\ Len(Append(s, j)) = N + 1
    BY <1>4
  <2>2. Append(s, j)[N + 1] = j /\ \A n \in 1 .. N : Append(s, j)[n] = s[n]
    BY <1>4, <2>1
  <2>3. \A n \in 1 .. (N + 1) : n = N + 1 \/ n \in 1 .. N
    OBVIOUS
  <2>4. N + 1 \in 1 .. (N + 1) /\ \A n \in 1 .. N : n \in 1 .. (N + 1)
    OBVIOUS
  <2> QED
    BY <2>1, <2>2, <2>3, <2>4 DEF Contains
<1>6. j \in Subtree(T, i) <=> Contains(Path(T, j), i)
  BY DEF Subtree
<1>7. CASE T[j].at = 0
  <2>1. ~Contains(s, i)
    BY <1>2, <1>7 DEF Contains
  <2>2. T[j].at \notin Subtree(T, i)
    BY <1>7 DEF Subtree
  <2> QED
    BY <1>1, <1>3, <1>5, <1>6, <2>1, <2>2
<1>8. CASE T[j].at # 0
  <2>1. T[j].at \in DOMAIN T
    BY <1>1, <1>8
  <2>2. T[j].at \in Subtree(T, i) <=> Contains(s, i)
    BY <1>2, <1>8, <2>1 DEF Subtree
  <2> QED
    BY <1>1, <1>3, <1>5, <1>6, <2>2
<1> QED
  BY <1>7, <1>8

LEMMA DeletedIsEdited ==
  ASSUME NEW m, IsEdited(m), NEW id
  PROVE  /\ IsEdited(DeleteTable(m, id))
         /\ Cardinality(DOMAIN DeleteTable(m, id).tables) <= Cardinality(DOMAIN m.tables)
<1>1. PICK T : T = m.tables /\ SoundTables(T) /\ \A i \in DOMAIN T : Numbered(T[i])
  BY DEF IsEdited, NumberedTables
<1>2. PICK U : U = [i \in DOMAIN T \ Subtree(T, id) |-> T[i]]
  OBVIOUS
<1>3. PICK new : new = [m EXCEPT !.tables = U]
  OBVIOUS
<1>4. new = DeleteTable(m, id)
  BY <1>1, <1>2, <1>3 DEF DeleteTable
<1>5. DOMAIN new = Fields /\ new.tables = U
  BY <1>3 DEF IsEdited, Fields
<1>6. DOMAIN U = DOMAIN T \ Subtree(T, id) /\ \A i \in DOMAIN U : U[i] = T[i]
  BY <1>2
<1>7. ASSUME NEW i \in DOMAIN U
      PROVE  U[i].at = 0 \/ (U[i].at = T[i].at /\ U[i].at \in DOMAIN U)
  <2>1. i \in DOMAIN T /\ i \notin Subtree(T, id) /\ U[i] = T[i]
    BY <1>6
  <2>2. T[i].at \in DOMAIN T \cup {0} /\ T[i].at \notin Subtree(T, id)
    BY <1>1, <2>1, BelowParent DEF SoundTables
  <2> QED
    BY <1>6, <2>1, <2>2
<1>8. IsTree(U)
  BY <1>1, <1>6, <1>7, PartOfTree DEF SoundTables
<1>9. NumberedTables(U)
  BY <1>1, <1>6, <1>8 DEF NumberedTables, SoundTables
<1>10. Cardinality(DOMAIN U) <= Cardinality(DOMAIN T)
  <2>1. IsFiniteSet(DOMAIN T) /\ DOMAIN U \in SUBSET DOMAIN T
    BY <1>1, <1>6 DEF SoundTables, IsTree
  <2> QED
    BY <2>1, FS_Subset
<1> QED
  BY <1>1, <1>4, <1>5, <1>9, <1>10 DEF IsEdited

LEMMA BelowIsNumbered ==
  ASSUME NEW T, NumberedTables(T), NEW i \in DOMAIN T
  PROVE  NumberedTables(Below(T, i))
<1>1. SoundTables(T) /\ \A j \in DOMAIN T : Numbered(T[j])
  BY DEF NumberedTables
<1>2. PICK U : U = Below(T, i)
  OBVIOUS
<1>3. /\ DOMAIN U = Subtree(T, i) \ {i}
      /\ \A j \in DOMAIN U : U[j] = IF T[j].at = i THEN [T[j] EXCEPT !.at = 0] ELSE T[j]
  BY <1>2 DEF Below
<1>4. DOMAIN U \subseteq DOMAIN T
  BY <1>3 DEF Subtree
<1>5. ASSUME NEW j \in DOMAIN U
      PROVE  Numbered(U[j]) /\ (U[j].at = 0 \/ (U[j].at = T[j].at /\ U[j].at \in DOMAIN U))
  <2>1. j \in DOMAIN T /\ Numbered(T[j])
    BY <1>1, <1>4
  <2>2. CASE T[j].at = i
    <3>1. PICK u : u = [T[j] EXCEPT !.at = 0]
      OBVIOUS
    <3>2. U[j] = u
      BY <1>3, <2>2, <3>1
    <3>3. DOMAIN u = DOMAIN T[j] /\ u.at = 0 /\ u.parent = T[j].parent /\ u.columns = T[j].columns
      BY <2>1, <3>1 DEF Numbered, HasColumns
    <3> QED
      BY <2>1, <3>2, <3>3 DEF Numbered, HasColumns
  <2>3. CASE T[j].at # i
    <3>1. U[j] = T[j]
      BY <1>3, <2>3
    <3>2. T[j].at \in Subtree(T, i)
      BY <1>1, <1>3, <2>1, BelowParent DEF SoundTables
    <3> QED
      BY <1>3, <2>1, <2>3, <3>1, <3>2
  <2> QED
    BY <2>2, <2>3
<1>6. IsTree(U)
  BY <1>1, <1>4, <1>5, PartOfTree DEF SoundTables
<1>7. NumberedTables(U)
  BY <1>1, <1>4, <1>5, <1>6 DEF NumberedTables, SoundTables, Numbered
<1> QED
  BY <1>2, <1>7

\* A model file, whatever ids its tables have.
IsNumberedFile(file) ==
  /\ IsList(file.tables)
  /\ \A n \in 1 .. Len(file.tables) : file.tables[n].id \in Int /\ Numbered(file.tables[n].table)

LEMMA NoTablesIsEdited ==
  ASSUME NEW m, DOMAIN m = Fields, m.tables = << >>
  PROVE  IsEdited(m) /\ Cardinality(DOMAIN m.tables) = 0
<1>1. PICK T : T = m.tables /\ DOMAIN T = {}
  OBVIOUS
<1>2. PICK rank : rank = [i \in {} |-> 1]
  OBVIOUS
<1>3. IsRank(T, rank, 0)
  BY <1>1, <1>2 DEF IsRank
<1>4. IsTree(T)
  BY <1>1, <1>3, FS_EmptySet DEF IsTree
<1>5. NumberedTables(T)
  BY <1>1, <1>4 DEF NumberedTables, SoundTables
<1>6. Cardinality(DOMAIN T) = 0
  BY <1>1, FS_EmptySet
<1> QED
  BY <1>1, <1>5, <1>6 DEF IsEdited

LEMMA ReadTableIsEdited ==
  ASSUME NEW m, IsEdited(m), Cardinality(DOMAIN m.tables) <= 998,
         NEW node, node.id \in Int, Numbered(node.table)
  PROVE  /\ IsEdited(ReadTable(m, node))
         /\ Cardinality(DOMAIN ReadTable(m, node).tables) = Cardinality(DOMAIN m.tables) + 1
<1>1. PICK t : t = Undescribed(node.table)
  OBVIOUS
<1>2. Numbered(t)
  <2>1. HasColumns(node.table)
    BY DEF Numbered
  <2>2. HasColumns(t) /\ t.parent = node.table.parent /\ t.columns = node.table.columns
    BY <1>1, <2>1, UndescribedFacts
  <2>3. DOMAIN t = DOMAIN node.table
    BY <1>1 DEF Undescribed
  <2> QED
    BY <2>2, <2>3 DEF Numbered
<1>3. ReadTable(m, node) = AddOne(m, node.id, t)
  BY <1>1 DEF ReadTable, Undescribed
<1> QED
  BY <1>2, <1>3, AddOneIsEdited

LEMMA FileIsEdited ==
  ASSUME NEW file, IsNumberedFile(file), Len(file.tables) <= 998
  PROVE  /\ IsEdited(ReadModel(EmptyModel, file))
         /\ Cardinality(DOMAIN ReadModel(EmptyModel, file).tables) = Len(file.tables)
<1>1. PICK N : N = Len(file.tables) /\ N \in Nat /\ N <= 998
  BY DEF IsNumberedFile, IsList
<1>2. PICK after :
        /\ after[0] = NoTables(EmptyModel, file) /\ after[N] = ReadModel(EmptyModel, file)
        /\ \A n \in 1 .. N : after[n] = ReadTable(after[n - 1], file.tables[n])
  BY <1>1, ReadSteps
<1> DEFINE T == {n \in 0 .. N : IsEdited(after[n]) /\ Cardinality(DOMAIN after[n].tables) = n}
<1>3. 0 \in T
  <2>1. PICK m : m = NoTables(EmptyModel, file)
    OBVIOUS
  <2>2. DOMAIN m = Fields /\ m.tables = << >>
    BY <2>1 DEF NoTables, Fields
  <2> QED
    BY <1>1, <1>2, <2>1, <2>2, NoTablesIsEdited
<1>4. ASSUME NEW n \in 0 .. N, n + 1 \in 0 .. N, n \in T
      PROVE  n + 1 \in T
  <2>1. n + 1 \in 1 .. N /\ (n + 1) - 1 = n /\ n <= 998
    BY <1>1, <1>4
  <2>2. PICK m : m = after[n] /\ IsEdited(m) /\ Cardinality(DOMAIN m.tables) = n
    BY <1>4
  <2>3. PICK node : node = file.tables[n + 1] /\ node.id \in Int /\ Numbered(node.table)
    BY <1>1, <2>1 DEF IsNumberedFile
  <2>4. after[n + 1] = ReadTable(m, node)
    BY <1>2, <2>1, <2>2, <2>3
  <2>5. IsEdited(after[n + 1]) /\ Cardinality(DOMAIN after[n + 1].tables) = n + 1
    BY <2>1, <2>2, <2>3, <2>4, ReadTableIsEdited
  <2> QED
    BY <1>4, <2>5
<1>5. N \in T
  <2> HIDE DEF T
  <2>1. 0 .. N \subseteq T
    BY <1>1, <1>3, <1>4, UpTo
  <2> QED
    BY <1>1, <2>1
<1> QED
  BY <1>1, <1>2, <1>5

\* A list that has each element of a set once is as long as the set is large.
LEMMA ListingCounts ==
  ASSUME NEW S, IsFiniteSet(S), NEW s, IsListing(s, S)
  PROVE  Len(s) = Cardinality(S) /\ Len(s) \in Nat
<1>1. PICK N \in Nat : N = Len(s) /\ DOMAIN s = 1 .. N /\ s \in [1 .. N -> S]
  BY DEF IsListing
<1>2. s \in Injection(1 .. N, S)
  <2>1. IsInjective(s)
    BY <1>1 DEF IsInjective, IsListing
  <2> QED
    BY <1>1, <2>1 DEF Injection
<1>3. s \in Surjection(1 .. N, S)
  <2>1. \A a \in S : \E n \in 1 .. N : s[n] = a
    BY <1>1 DEF IsListing
  <2> QED
    BY <1>1, <2>1 DEF Surjection
<1>4. ExistsBijection(1 .. N, S)
  BY <1>2, <1>3 DEF ExistsBijection, Bijection
<1>5. IsFiniteSet(1 .. N) /\ Cardinality(1 .. N) = N
  BY CountUpTo
<1> QED
  BY <1>1, <1>4, <1>5, FS_Bijection

LEMMA SavedIsNumbered ==
  ASSUME NEW m, IsEdited(m)
  PROVE  /\ IsNumberedFile(SaveModel(m)) /\ AreListed(SaveModel(m).tables)
         /\ Len(SaveModel(m).tables) <= Cardinality(DOMAIN m.tables)
<1>1. PICK T : T = m.tables /\ SoundTables(T) /\ IsTree(T) /\ \A i \in DOMAIN T : Numbered(T[i])
  BY DEF IsEdited, NumberedTables, SoundTables
<1>2. PICK list : list = AllTables(T) /\ IsListing(list, Listed(T))
  BY <1>1, AllTablesListsEach
<1>3. PICK s : s = SaveModel(m).tables
  OBVIOUS
<1>4. /\ AreListed(s) /\ Len(s) = Len(list)
      /\ \A n \in 1 .. Len(s) : s[n] = SaveTable(T, list[n])
  BY <1>1, <1>2, <1>3, SavedTables
<1>5. Listed(T) \in SUBSET DOMAIN T
  BY DEF Listed
<1>6. Len(list) \in Nat /\ Len(list) <= Cardinality(DOMAIN T)
  <2>1. IsFiniteSet(DOMAIN T)
    BY <1>1 DEF IsTree
  <2>2. IsFiniteSet(Listed(T)) /\ Cardinality(Listed(T)) <= Cardinality(DOMAIN T)
    BY <1>5, <2>1, FS_Subset
  <2> QED
    BY <1>2, <2>2, ListingCounts
<1>7. ASSUME NEW n \in 1 .. Len(s)
      PROVE  s[n].id \in Int /\ Numbered(s[n].table)
  <2>1. PICK i : i = list[n] /\ i \in DOMAIN T
    <3>1. n \in DOMAIN list
      BY <1>2, <1>4 DEF IsListing
    <3> QED
      BY <1>2, <1>5, <3>1 DEF IsListing
  <2>2. PICK t : t = [T[i] EXCEPT !.at = 0]
    OBVIOUS
  <2>3. s[n] = [id |-> i, table |-> t]
    BY <1>4, <2>1, <2>2 DEF SaveTable
  <2>4. Numbered(T[i])
    BY <1>1, <2>1
  <2>5. DOMAIN t = DOMAIN T[i] /\ t.parent = T[i].parent /\ t.columns = T[i].columns
    BY <2>2, <2>4 DEF Numbered, HasColumns
  <2>6. Numbered(t)
    BY <2>4, <2>5 DEF Numbered, HasColumns
  <2>7. i \in Int
    BY <1>1, <2>1 DEF IsTree
  <2> QED
    BY <2>3, <2>6, <2>7
<1>8. IsNumberedFile(SaveModel(m))
  BY <1>3, <1>4, <1>7 DEF IsNumberedFile, AreListed
<1> QED
  BY <1>1, <1>3, <1>4, <1>6, <1>8

-----------------------------------------------------------------------------
(***************************************************************************)
(* A table that is added with its sub tables.                              *)
(***************************************************************************)
LEMMA WalkIsDown ==
  ASSUME NEW T, SoundTables(T), NEW s, s = Walk(T, DOMAIN T), NEW n \in DOMAIN s, T[s[n]].at # 0
  PROVE  \E k \in DOMAIN s : k < n /\ s[k] = T[s[n]].at
<1> DEFINE paths == {Path(T, i) : i \in DOMAIN T}
           Smaller(p) == {q \in paths : Before(q, p)}
<1>1. IsTree(T) /\ 0 \notin DOMAIN T
  BY DEF SoundTables
<1>2. /\ IsListing(s, DOMAIN T) /\ IsFiniteSet(paths)
      /\ \A k \in DOMAIN s : Cardinality(Smaller(Path(T, s[k]))) = k - 1
  BY <1>1, WalkPlaces
<1>3. s[n] \in DOMAIN T /\ T[s[n]].at \in DOMAIN T
  <2>1. s[n] \in DOMAIN T
    BY <1>2 DEF IsListing
  <2> QED
    BY <1>1, <2>1, BelowParent
<1>4. PICK k \in DOMAIN s : s[k] = T[s[n]].at
  BY <1>2, <1>3 DEF IsListing
<1>5. PICK p, q : p = Path(T, s[n]) /\ q = Path(T, s[k])
  OBVIOUS
<1>6. /\ p = Append(q, s[n]) /\ p \in Seq(Nat) /\ q \in Seq(Nat) /\ p \in paths /\ q \in paths
  BY <1>1, <1>3, <1>4, <1>5, PathFacts
<1>7. Before(q, p)
  <2>1. s[n] \in Nat
    BY <1>1, <1>3 DEF IsTree
  <2>2. PICK N \in Nat : N = Len(q) /\ Len(p) = N + 1 /\ \A j \in 1 .. N : p[j] = q[j]
    BY <1>6, <2>1
  <2>3. Splits(q, p, N + 1)
    BY <2>2 DEF Splits
  <2> QED
    BY <1>6, <2>3, BeforeSplits
<1>8. Smaller(q) \subseteq Smaller(p) \ {q}
  <2>1. ASSUME NEW r \in paths, Before(r, q)
        PROVE  Before(r, p) /\ r # q
    <3>1. r \in Seq(Nat)
      BY <1>1, PathFacts
    <3> QED
      BY <1>6, <1>7, <2>1, <3>1, BeforeTransitive, BeforeIrreflexive
  <2> QED
    BY <2>1
<1>9. q \in Smaller(p)
  BY <1>6, <1>7
<1>10. IsFiniteSet(Smaller(p))
  <2>1. Smaller(p) \in SUBSET paths
    OBVIOUS
  <2> HIDE DEF Smaller, paths
  <2> QED
    BY <1>2, <2>1, FS_Subset
<1> HIDE DEF Smaller, paths
<1>11. Cardinality(Smaller(q)) < Cardinality(Smaller(p))
  <2>1. Cardinality(Smaller(p)) \in Nat
    BY <1>10, FS_CardinalityType
  <2>2. IsFiniteSet(Smaller(p) \ {q}) /\ Cardinality(Smaller(p) \ {q}) = Cardinality(Smaller(p)) - 1
    BY <1>9, <1>10, FS_RemoveElement
  <2>3. Cardinality(Smaller(q)) <= Cardinality(Smaller(p) \ {q})
    BY <1>8, <2>2, FS_Subset
  <2>4. Cardinality(Smaller(q)) \in Nat
    BY <1>8, <2>2, FS_Subset, FS_CardinalityType
  <2> QED
    BY <2>1, <2>2, <2>3, <2>4
<1>12. n \in Nat /\ k \in Nat
  BY <1>2 DEF IsListing
<1>13. k - 1 < n - 1
  BY <1>2, <1>5, <1>11
<1> QED
  BY <1>4, <1>12, <1>13

\* The top of the tree that is added.
Added(m, id, t) == [model |-> PutTable(m, id, t), ids |-> [i \in {0} |-> id]]

LEMMA AddTableSteps ==
  ASSUME NEW m, NEW id, NEW t, NEW S, NEW order, order = Walk(S, DOMAIN S), Len(order) \in Nat
  PROVE  \E after :
           /\ after[0] = Added(m, id, t) /\ AddTable(m, id, t, S) = after[Len(order)].model
           /\ \A n \in 1 .. Len(order) : after[n] = AddSubTable(after[n - 1], S, order[n])
<1>1. PICK first : first = Added(m, id, t)
  OBVIOUS
<1>2. PICK N \in Nat : N = Len(order)
  OBVIOUS
<1> DEFINE after == CHOOSE f : f = [n \in 0 .. N |-> IF n = 0 THEN first ELSE AddSubTable(f[n - 1], S, order[n])]
           Holds(f, k) == f[0] = first /\ \A n \in 1 .. k : f[n] = AddSubTable(f[n - 1], S, order[n])
           T == {k \in 0 .. N : \E f : Holds(f, k)}
<1>3. 0 \in T
  <2>1. PICK f : f = [n \in 0 .. 0 |-> first]
    OBVIOUS
  <2>2. Holds(f, 0)
    BY <2>1
  <2> QED
    BY <2>2, <1>2
<1>4. ASSUME NEW k \in 0 .. N, k + 1 \in 0 .. N, k \in T
      PROVE  k + 1 \in T
  <2>1. PICK f : Holds(f, k)
    BY <1>4
  <2>2. PICK x : x = AddSubTable(f[k], S, order[k + 1])
    OBVIOUS
  <2>3. k \in Nat
    BY <1>2
  <2>4. PICK g : g = [n \in 0 .. (k + 1) |-> IF n = k + 1 THEN x ELSE f[n]]
    OBVIOUS
  <2>5. g[k + 1] = x /\ \A n \in 0 .. k : g[n] = f[n]
    BY <2>3, <2>4
  <2>6. ASSUME NEW n \in 1 .. (k + 1)
        PROVE  g[n] = AddSubTable(g[n - 1], S, order[n])
    <3>1. g[n - 1] = f[n - 1]
      BY <2>3, <2>5
    <3>2. n = k + 1 \/ n \in 1 .. k
      BY <2>3
    <3>3. n = k + 1 => n - 1 = k
      BY <2>3
    <3>4. n \in 1 .. k => g[n] = f[n]
      BY <2>3, <2>5
    <3> QED
      BY <2>1, <2>2, <2>5, <3>1, <3>2, <3>3, <3>4
  <2>7. Holds(g, k + 1)
    BY <2>1, <2>3, <2>5, <2>6
  <2> QED
    BY <1>4, <2>7
<1>5. PICK f : Holds(f, N)
  <2>1. 0 .. N \subseteq T
    <3> HIDE DEF T
    <3> QED
      BY <1>2, <1>3, <1>4, UpTo
  <2> QED
    BY <1>2, <2>1
<1>6. PICK g : g = [n \in 0 .. N |-> f[n]]
  OBVIOUS
<1>7. g = [n \in 0 .. N |-> IF n = 0 THEN first ELSE AddSubTable(g[n - 1], S, order[n])]
  <2>1. ASSUME NEW n \in 0 .. N, n # 0
        PROVE  g[n] = AddSubTable(g[n - 1], S, order[n])
    <3>1. n \in 1 .. N /\ n - 1 \in 0 .. N
      BY <1>2, <2>1
    <3> QED
      BY <1>5, <1>6, <3>1
  <2>2. g[0] = first
    BY <1>2, <1>5, <1>6
  <2> QED
    BY <1>6, <2>1, <2>2
<1>8. after = [n \in 0 .. N |-> IF n = 0 THEN first ELSE AddSubTable(after[n - 1], S, order[n])]
  BY <1>7
<1> HIDE DEF after
<1>9. after[0] = first /\ \A n \in 1 .. N : after[n] = AddSubTable(after[n - 1], S, order[n])
  <2>1. 0 \in 0 .. N /\ \A n \in 1 .. N : n \in 0 .. N /\ n # 0
    BY <1>2
  <2> QED
    BY <1>8, <2>1
<1>10. AddTable(m, id, t, S) = after[N].model
  BY <1>1, <1>2 DEF AddTable, Added, after
<1> QED
  BY <1>1, <1>2, <1>9, <1>10

\* Table t is the copy of u under another table.
IsCopy(t, u, under) ==
  /\ t.at = under /\ t.parent = under /\ t.name = u.name
  /\ \A n \in DOMAIN u.columns :
       t.columns[n].ref = IF u.columns[n].ref \in {u.parent} \ {0} THEN under ELSE u.columns[n].ref

LEMMA CopyIsPut ==
  ASSUME NEW m, IsEdited(m), NEW u, Numbered(u), NEW under \in DOMAIN m.tables,
         NEW id \in Nat \ {0}, id \notin DOMAIN m.tables
  PROVE  LET new == PutTable(m, id, ParentId(u, under))
         IN  /\ IsEdited(new) /\ Cardinality(DOMAIN new.tables) = Cardinality(DOMAIN m.tables) + 1
             /\ DOMAIN new.tables = DOMAIN m.tables \cup {id}
             /\ \A i \in DOMAIN m.tables : new.tables[i] = m.tables[i]
             /\ IsCopy(new.tables[id], u, under)
<1>1. PICK t : t = ParentId(u, under)
  OBVIOUS
<1>2. under \in Nat
  BY DEF IsEdited, NumberedTables, SoundTables, IsTree
<1>3. /\ Numbered(t) /\ t.parent = under /\ t.at = u.at /\ t.name = u.name
      /\ Len(t.columns) = Len(u.columns)
      /\ \A n \in 1 .. Len(u.columns) :
           t.columns[n].ref = IF u.columns[n].ref > 0 /\ u.columns[n].ref = u.parent
                              THEN under ELSE u.columns[n].ref
  BY <1>1, <1>2, ParentIdFacts
<1>4. PICK new : new = PutTable(m, id, t)
  OBVIOUS
<1>5. IsEdited(new) /\ Cardinality(DOMAIN new.tables) = Cardinality(DOMAIN m.tables) + 1
  BY <1>3, <1>4, PutIsEdited
<1>6. /\ DOMAIN new.tables = DOMAIN m.tables \cup {id} /\ new.tables[id] = Under(m.tables, t)
      /\ \A i \in DOMAIN m.tables : new.tables[i] = m.tables[i]
  BY <1>4, PutTableFacts DEF IsEdited
<1>7. PICK v : v = Under(m.tables, t)
  OBVIOUS
<1>8. v.columns = t.columns /\ v.parent = under /\ v.at = under /\ v.name = t.name
  <2>1. HasColumns(t) /\ "name" \in DOMAIN t \ {"at"}
    BY <1>3 DEF Numbered
  <2> QED
    BY <1>3, <1>7, <2>1, UnderFacts
<1>9. ASSUME NEW n \in DOMAIN u.columns
      PROVE  v.columns[n].ref = IF u.columns[n].ref \in {u.parent} \ {0} THEN under ELSE u.columns[n].ref
  <2>1. n \in 1 .. Len(u.columns)
    BY DEF Numbered, HasColumns, IsList
  <2>2. u.columns[n].ref \in Nat
    BY <2>1 DEF Numbered
  <2> QED
    BY <1>3, <1>8, <2>1, <2>2
<1>10. IsCopy(v, u, under)
  BY <1>3, <1>8, <1>9 DEF IsCopy
<1> QED
  BY <1>1, <1>4, <1>5, <1>6, <1>7, <1>10

\* What has been added after n sub tables: "ids" names their copies.
PastedAs(model, ids, m, id, S, order, n) ==
  /\ IsEdited(model)
  /\ Cardinality(DOMAIN model.tables) = Cardinality(DOMAIN m.tables) + 1 + n
  /\ DOMAIN ids = {0} \cup {order[k] : k \in 1 .. n} /\ ids[0] = id
  /\ \A i \in DOMAIN ids : ids[i] \notin DOMAIN m.tables
  /\ \A i, j \in DOMAIN ids : ids[i] = ids[j] => i = j
  /\ DOMAIN model.tables = DOMAIN m.tables \cup {ids[i] : i \in DOMAIN ids}
  /\ \A i \in DOMAIN m.tables : model.tables[i] = m.tables[i]
  /\ \A i \in DOMAIN ids \ {0} :
       /\ S[i].at \in DOMAIN ids
       /\ IsCopy(model.tables[ids[i]], S[i], ids[S[i].at])

Pasted(acc, m, id, S, order, n) == PastedAs(acc.model, acc.ids, m, id, S, order, n)

LEMMA AddedIsPasted ==
  ASSUME NEW m, IsEdited(m), NEW t, Numbered(t), NEW id \in Nat \ {0}, id \notin DOMAIN m.tables,
         NEW S, NEW order
  PROVE  Pasted(Added(m, id, t), m, id, S, order, 0)
<1>1. PICK acc : acc = Added(m, id, t)
  OBVIOUS
<1>2. acc.model = PutTable(m, id, t) /\ DOMAIN acc.ids = {0} /\ acc.ids[0] = id
  BY <1>1 DEF Added
<1>3. IsEdited(acc.model) /\ Cardinality(DOMAIN acc.model.tables) = Cardinality(DOMAIN m.tables) + 1
  BY <1>2, PutIsEdited
<1>4. /\ DOMAIN acc.model.tables = DOMAIN m.tables \cup {id}
      /\ \A i \in DOMAIN m.tables : acc.model.tables[i] = m.tables[i]
  BY <1>2, PutTableFacts DEF IsEdited
<1>5. Cardinality(DOMAIN m.tables) \in Nat
  BY FS_CardinalityType DEF IsEdited, NumberedTables, SoundTables, IsTree
<1>6. {order[k] : k \in 1 .. 0} = {}
  OBVIOUS
<1>7. Pasted(acc, m, id, S, order, 0)
  BY <1>2, <1>3, <1>4, <1>5, <1>6 DEF Pasted, PastedAs
<1> QED
  BY <1>1, <1>7

LEMMA AddSubTableIsPasted ==
  ASSUME NEW m, IsEdited(m), NEW id \in Nat \ {0}, NEW S, NumberedTables(S),
         NEW order, order = Walk(S, DOMAIN S), NEW n \in 1 .. Len(order), NEW acc,
         Pasted(acc, m, id, S, order, n - 1), Cardinality(DOMAIN acc.model.tables) <= 998
  PROVE  Pasted(AddSubTable(acc, S, order[n]), m, id, S, order, n)
<1>1. PICK N \in Nat : N = Len(order) /\ DOMAIN order = 1 .. N
  BY WalkLists DEF NumberedTables, SoundTables, IsListing
<1>2. PICK old \in DOMAIN S : old = order[n]
  BY <1>1, WalkLists DEF NumberedTables, SoundTables, IsListing
<1>3. old # 0 /\ Numbered(S[old])
  BY DEF NumberedTables, SoundTables
<1>4. PICK ids : ids = acc.ids
  OBVIOUS
<1>5. old \notin DOMAIN ids
  <2>1. \A k \in 1 .. (n - 1) : order[k] # old
    <3>1. IsListing(order, DOMAIN S)
      BY WalkLists DEF NumberedTables, SoundTables
    <3>2. \A k \in 1 .. (n - 1) : k \in DOMAIN order /\ n \in DOMAIN order /\ k # n
      BY <1>1
    <3> QED
      BY <1>2, <3>1, <3>2 DEF IsListing
  <2> QED
    BY <1>3, <1>4, <2>1 DEF Pasted, PastedAs
<1>6. S[old].at \in DOMAIN ids
  <2>1. CASE S[old].at = 0
    BY <1>4, <2>1 DEF Pasted, PastedAs
  <2>2. CASE S[old].at # 0
    <3>1. PICK k \in DOMAIN order : k < n /\ order[k] = S[order[n]].at
      BY <1>1, <1>2, <2>2, WalkIsDown DEF NumberedTables
    <3>2. k \in 1 .. (n - 1)
      BY <1>1, <3>1
    <3> QED
      BY <1>2, <1>4, <3>1, <3>2 DEF Pasted, PastedAs
  <2> QED
    BY <2>1, <2>2
<1>7. PICK under, model : under = ids[S[old].at] /\ model = acc.model
  OBVIOUS
<1>8. IsEdited(model) /\ under \in DOMAIN model.tables /\ under \in Nat
  <2>1. IsEdited(model) /\ under \in DOMAIN model.tables
    BY <1>4, <1>6, <1>7 DEF Pasted, PastedAs
  <2> QED
    BY <2>1 DEF IsEdited, NumberedTables, SoundTables, IsTree
<1>9. PICK new : new = FindNextTableId(model.tables, under)
  OBVIOUS
<1>10. new \in Nat \ {0} /\ new \notin DOMAIN model.tables
  BY <1>7, <1>8, <1>9, NextIdIsFree DEF IsEdited, NumberedTables
<1>11. PICK to : to = PutTable(model, new, ParentId(S[old], under))
  OBVIOUS
<1>12. /\ IsEdited(to) /\ Cardinality(DOMAIN to.tables) = Cardinality(DOMAIN model.tables) + 1
       /\ DOMAIN to.tables = DOMAIN model.tables \cup {new}
       /\ \A i \in DOMAIN model.tables : to.tables[i] = model.tables[i]
       /\ IsCopy(to.tables[new], S[old], under)
  BY <1>3, <1>8, <1>10, <1>11, CopyIsPut
<1>13. PICK more : more = [i \in DOMAIN ids \cup {old} |-> IF i = old THEN new ELSE ids[i]]
  OBVIOUS
<1>14. PICK next : next = [model |-> to, ids |-> more]
  OBVIOUS
<1>15. next = AddSubTable(acc, S, order[n])
  BY <1>2, <1>4, <1>7, <1>9, <1>11, <1>13, <1>14 DEF AddSubTable
<1>16. /\ DOMAIN more = DOMAIN ids \cup {old} /\ more[old] = new
       /\ \A i \in DOMAIN ids : i # old /\ more[i] = ids[i]
  BY <1>5, <1>13
<1>17. /\ DOMAIN ids = {0} \cup {order[k] : k \in 1 .. (n - 1)} /\ ids[0] = id
       /\ \A i \in DOMAIN ids : ids[i] \notin DOMAIN m.tables
       /\ \A i, j \in DOMAIN ids : ids[i] = ids[j] => i = j
       /\ DOMAIN model.tables = DOMAIN m.tables \cup {ids[i] : i \in DOMAIN ids}
       /\ \A i \in DOMAIN m.tables : model.tables[i] = m.tables[i]
       /\ \A i \in DOMAIN ids \ {0} :
            S[i].at \in DOMAIN ids /\ IsCopy(model.tables[ids[i]], S[i], ids[S[i].at])
       /\ Cardinality(DOMAIN model.tables) = Cardinality(DOMAIN m.tables) + 1 + (n - 1)
  <2>1. PastedAs(model, ids, m, id, S, order, n - 1)
    BY <1>4, <1>7 DEF Pasted
  <2> QED
    BY <2>1 DEF PastedAs
<1>18. {order[k] : k \in 1 .. n} = {order[k] : k \in 1 .. (n - 1)} \cup {old}
  <2>1. 1 .. n = 1 .. (n - 1) \cup {n}
    BY <1>1
  <2> QED
    BY <1>2, <2>1
<1>19. ASSUME NEW i \in DOMAIN more
       PROVE  more[i] \notin DOMAIN m.tables
  BY <1>10, <1>16, <1>17
<1>20. ASSUME NEW i \in DOMAIN more, NEW j \in DOMAIN more, more[i] = more[j]
       PROVE  i = j
  <2>1. \A k \in DOMAIN ids : more[k] \in DOMAIN model.tables
    BY <1>16, <1>17
  <2> QED
    BY <1>10, <1>16, <1>17, <1>20, <2>1
<1>21. ASSUME NEW i \in DOMAIN more \ {0}
       PROVE  S[i].at \in DOMAIN more /\ IsCopy(to.tables[more[i]], S[i], more[S[i].at])
  <2>1. CASE i = old
    BY <1>6, <1>7, <1>12, <1>16, <2>1
  <2>2. CASE i # old
    <3>1. i \in DOMAIN ids \ {0}
      BY <1>16, <2>2
    <3>2. /\ S[i].at \in DOMAIN ids /\ IsCopy(model.tables[ids[i]], S[i], ids[S[i].at])
          /\ ids[i] \in DOMAIN model.tables
      BY <1>17, <3>1
    <3>3. to.tables[ids[i]] = model.tables[ids[i]] /\ more[i] = ids[i] /\ more[S[i].at] = ids[S[i].at]
      BY <1>12, <1>16, <3>1, <3>2
    <3> QED
      BY <1>16, <3>2, <3>3
  <2> QED
    BY <2>1, <2>2
<1>22. DOMAIN to.tables = DOMAIN m.tables \cup {more[i] : i \in DOMAIN more}
  <2>1. {more[i] : i \in DOMAIN more} = {ids[i] : i \in DOMAIN ids} \cup {new}
    BY <1>16
  <2> QED
    BY <1>12, <1>17, <2>1
<1>23. Cardinality(DOMAIN to.tables) = Cardinality(DOMAIN m.tables) + 1 + n
  <2>1. Cardinality(DOMAIN m.tables) \in Nat
    BY FS_CardinalityType DEF IsEdited, NumberedTables, SoundTables, IsTree
  <2> QED
    BY <1>1, <1>12, <1>17, <2>1
<1>24. \A i \in DOMAIN m.tables : to.tables[i] = m.tables[i]
  BY <1>12, <1>17
<1>25. next.model = to /\ next.ids = more
  BY <1>14
<1>26. DOMAIN more = {0} \cup {order[k] : k \in 1 .. n} /\ more[0] = id
  <2>1. 0 \in DOMAIN ids
    BY <1>17
  <2> QED
    BY <1>16, <1>17, <1>18, <2>1
<1>27. PastedAs(to, more, m, id, S, order, n)
  BY <1>12, <1>19, <1>20, <1>21, <1>22, <1>23, <1>24, <1>26 DEF PastedAs
<1>28. Pasted(next, m, id, S, order, n)
  BY <1>25, <1>27 DEF Pasted
<1> QED
  BY <1>15, <1>28

\* Every sub table has a copy of its own, under the copy of its parent.
LEMMA AddTableIsPasted ==
  ASSUME NEW m, IsEdited(m), NEW t, Numbered(t), NEW id \in Nat \ {0}, id \notin DOMAIN m.tables,
         NEW S, NumberedTables(S), Cardinality(DOMAIN m.tables) + 1 + Cardinality(DOMAIN S) <= 998
  PROVE  \E acc, order :
           /\ acc.model = AddTable(m, id, t, S) /\ Pasted(acc, m, id, S, order, Cardinality(DOMAIN S))
           /\ DOMAIN acc.ids = {0} \cup DOMAIN S
<1>1. PICK order : order = Walk(S, DOMAIN S) /\ IsListing(order, DOMAIN S)
  BY WalkLists DEF NumberedTables, SoundTables
<1>2. PICK N \in Nat : N = Len(order) /\ N = Cardinality(DOMAIN S)
  <2>1. IsFiniteSet(DOMAIN S)
    BY DEF NumberedTables, SoundTables, IsTree
  <2> QED
    BY <1>1, <2>1, ListingCounts
<1>3. PICK after :
        /\ after[0] = Added(m, id, t) /\ AddTable(m, id, t, S) = after[N].model
        /\ \A n \in 1 .. N : after[n] = AddSubTable(after[n - 1], S, order[n])
  BY <1>1, <1>2, AddTableSteps
<1>4. Cardinality(DOMAIN m.tables) \in Nat
  BY FS_CardinalityType DEF IsEdited, NumberedTables, SoundTables, IsTree
<1> DEFINE T == {n \in 0 .. N : Pasted(after[n], m, id, S, order, n)}
<1>5. 0 \in T
  BY <1>3, AddedIsPasted
<1>6. ASSUME NEW n \in 0 .. N, n + 1 \in 0 .. N, n \in T
      PROVE  n + 1 \in T
  <2>1. n + 1 \in 1 .. Len(order) /\ (n + 1) - 1 = n
    BY <1>2, <1>6
  <2>2. PICK acc : acc = after[n] /\ Pasted(acc, m, id, S, order, (n + 1) - 1)
    BY <1>6, <2>1
  <2>3. Cardinality(DOMAIN acc.model.tables) <= 998
    <3>1. Cardinality(DOMAIN acc.model.tables) = Cardinality(DOMAIN m.tables) + 1 + n
      BY <2>1, <2>2 DEF Pasted, PastedAs
    <3> QED
      BY <1>2, <1>4, <1>6, <3>1
  <2>4. Pasted(AddSubTable(acc, S, order[n + 1]), m, id, S, order, n + 1)
    BY <1>1, <2>1, <2>2, <2>3, AddSubTableIsPasted
  <2>5. after[n + 1] = AddSubTable(acc, S, order[n + 1])
    BY <1>2, <1>3, <2>1, <2>2
  <2> QED
    BY <1>6, <2>4, <2>5
<1>7. N \in T
  <2> HIDE DEF T
  <2>1. 0 .. N \subseteq T
    BY <1>5, <1>6, UpTo
  <2> QED
    BY <2>1
<1>8. PICK acc : acc = after[N] /\ Pasted(acc, m, id, S, order, N)
  BY <1>7
<1>9. DOMAIN acc.ids = {0} \cup DOMAIN S
  <2>1. DOMAIN order = 1 .. N
    BY <1>1, <1>2 DEF IsListing
  <2>2. \A k \in 1 .. N : order[k] \in DOMAIN S
    BY <1>1, <2>1 DEF IsListing
  <2>3. \A i \in DOMAIN S : \E k \in 1 .. N : order[k] = i
    BY <1>1, <2>1 DEF IsListing
  <2>4. {order[k] : k \in 1 .. N} = DOMAIN S
    BY <2>2, <2>3
  <2> QED
    BY <1>8, <2>4 DEF Pasted, PastedAs
<1> QED
  BY <1>2, <1>3, <1>8, <1>9
==============================================================================
