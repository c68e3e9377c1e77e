-------------------------- MODULE CountingTheorems --------------------------
(***************************************************************************)
(* What the proofs need of sums and of sets of numbers: that Total is the  *)
(* sum of a function's values (it is additive, and a single value is its   *)
(* own sum), and that a set of numbers has a least and a greatest element. *)
(***************************************************************************)
EXTENDS Counting, FiniteSetTheorems, WellFoundedInduction, TLAPS

\* A set of natural numbers that is not empty has a least element.
LEMMA Least ==
    ASSUME NEW S \in SUBSET Nat, S # {}
    PROVE  \E x \in S : \A y \in S : x <= y
<1>1. PICK x \in S : \A y \in S : ~(<<y, x>> \in OpToRel(<, Nat))
  BY NatLessThanWellFounded, WFMin
<1>2. \A y \in S : ~(y < x)
  BY <1>1 DEF OpToRel
<1> QED
  BY <1>2

\* A set of natural numbers with a bound has a greatest element.
LEMMA Greatest ==
    ASSUME NEW S \in SUBSET Nat, S # {}, NEW b \in Nat, \A x \in S : x <= b
    PROVE  \E x \in S : \A y \in S : y <= x
<1> DEFINE D == {d \in Nat : \E x \in S : d = b - x}
<1>1. PICK x0 \in S : TRUE
  OBVIOUS
<1>2. b - x0 \in D
  BY <1>1
<1>3. PICK d \in D : \A e \in D : d <= e
  BY <1>2, Least
<1>4. PICK x \in S : d = b - x
  BY <1>3
<1>5. \A y \in S : b - y \in D
  OBVIOUS
<1>6. \A y \in S : d <= b - y
  BY <1>3, <1>5
<1>7. \A y \in S : y <= x
  BY <1>4, <1>6
<1> QED
  BY <1>7

-----------------------------------------------------------------------------
(* Sums.                                                                   *)

\* The units of a function are the pairs of an argument and a number up to its value.
LEMMA UnitsOf ==
    ASSUME NEW S, NEW f \in [S -> Nat]
    PROVE  \A z : z \in Units(f) <=> \E x \in S : \E i \in 1..f[x] : z = <<x, i>>
<1>1. DOMAIN f = S
  OBVIOUS
<1>2. \A x, z : z \in {x} \X (1..f[x]) <=> \E i \in 1..f[x] : z = <<x, i>>
  OBVIOUS
<1>3. \A z : z \in Units(f) <=> \E x \in S : z \in {x} \X (1..f[x])
  BY <1>1, Zenon DEF Units
<1> QED
  BY <1>2, <1>3

\* A function on a finite set has finitely many units.
LEMMA TotalType ==
    ASSUME NEW S, IsFiniteSet(S), NEW f \in [S -> Nat]
    PROVE  IsFiniteSet(Units(f)) /\ Total(f) \in Nat
<1> DEFINE Column(x) == {x} \X (1..f[x])
           cols == {Column(x) : x \in S}
           g == [x \in S |-> Column(x)]
<1>1. g \in Surjection(S, cols)
  BY DEF Surjection
<1>2. IsFiniteSet(cols)
  BY <1>1, FS_Surjection
<1>3. \A T \in cols : IsFiniteSet(T)
  <2> TAKE T \in cols
  <2>1. PICK x \in S : T = Column(x)
    OBVIOUS
  <2>2. f[x] \in Nat
    BY <2>1
  <2>3. IsFiniteSet(1..f[x])
    BY <2>2, FS_Interval
  <2>4. IsFiniteSet({x})
    BY FS_Singleton
  <2> QED
    BY <2>1, <2>3, <2>4, FS_Product
<1>4. Units(f) = UNION cols
  BY DEF Units
<1> HIDE DEF cols
<1>5. IsFiniteSet(Units(f))
  BY <1>2, <1>3, <1>4, FS_UNION
<1> QED
  BY <1>5, FS_CardinalityType DEF Total

\* The sum of zeros is zero.
LEMMA TotalZero ==
    ASSUME NEW S, NEW f \in [S -> Nat], \A x \in S : f[x] = 0
    PROVE  Total(f) = 0
<1>1. \A x \in S : \A i \in 1..f[x] : FALSE
  OBVIOUS
<1>2. Units(f) = {}
  BY <1>1, UnitsOf
<1> QED
  BY <1>2, FS_EmptySet DEF Total

\* A single value is its own sum.
LEMMA TotalSingle ==
    ASSUME NEW a, NEW f \in [{a} -> Nat]
    PROVE  Total(f) = f[a]
<1> DEFINE h == [i \in 1..f[a] |-> <<a, i>>]
<1>1. f[a] \in Nat
  OBVIOUS
<1>2. \A z : z \in Units(f) <=> \E i \in 1..f[a] : z = <<a, i>>
  BY UnitsOf
<1>3. h \in Bijection(1..f[a], Units(f))
  BY <1>2 DEF Bijection, Injection, Surjection, IsInjective
<1>4. IsFiniteSet(1..f[a]) /\ Cardinality(1..f[a]) = f[a]
  BY <1>1, FS_Interval
<1> QED
  BY <1>3, <1>4, FS_Bijection DEF Total, ExistsBijection

\* The sum over a set is the sum over a part and over the rest of it.
LEMMA TotalSplit ==
    ASSUME NEW S, NEW T, IsFiniteSet(T), NEW R, IsFiniteSet(R), S = T \cup R, T \cap R = {},
           NEW f \in [S -> Nat], NEW g \in [T -> Nat], NEW h \in [R -> Nat],
           \A x \in T : g[x] = f[x], \A x \in R : h[x] = f[x]
    PROVE  Total(f) = Total(g) + Total(h)
<1>1. IsFiniteSet(Units(g)) /\ IsFiniteSet(Units(h))
  BY TotalType
<1>2. \A z : z \in Units(f) <=> \E x \in S : \E i \in 1..f[x] : z = <<x, i>>
  BY UnitsOf
<1>3. \A z : z \in Units(g) <=> \E x \in T : \E i \in 1..f[x] : z = <<x, i>>
  BY UnitsOf
<1>4. \A z : z \in Units(h) <=> \E x \in R : \E i \in 1..f[x] : z = <<x, i>>
  BY UnitsOf
<1>5. Units(f) = Units(g) \cup Units(h)
  BY <1>2, <1>3, <1>4
<1>6. Units(g) \cap Units(h) = {}
  BY <1>3, <1>4
<1>7. Cardinality(Units(g) \cap Units(h)) = 0
  BY <1>6, FS_EmptySet
<1>8. Total(g) \in Nat /\ Total(h) \in Nat
  BY TotalType
<1>9. Total(f) = Total(g) + Total(h) - 0
  BY <1>1, <1>5, <1>7, FS_Union, Zenon DEF Total
<1> QED
  BY <1>8, <1>9

\* The sum over a union of disjoint sets.
LEMMA TotalUnion ==
    ASSUME NEW T, IsFiniteSet(T), NEW R, IsFiniteSet(R), T \cap R = {},
           NEW f \in [T \cup R -> Nat]
    PROVE  Total(f) = Total([x \in T |-> f[x]]) + Total([x \in R |-> f[x]])
<1> DEFINE S == T \cup R
           g == [x \in T |-> f[x]]
           h == [x \in R |-> f[x]]
<1>1. /\ S = T \cup R /\ f \in [S -> Nat]
      /\ g \in [T -> Nat] /\ h \in [R -> Nat]
      /\ \A x \in T : g[x] = f[x]
      /\ \A x \in R : h[x] = f[x]
  OBVIOUS
<1> HIDE DEF S, g, h
<1>2. Total(f) = Total(g) + Total(h)
  BY <1>1, TotalSplit
<1> QED
  BY <1>2 DEF g, h

\* Raising one value by d raises the sum by d.
LEMMA TotalRaise ==
    ASSUME NEW S, IsFiniteSet(S), NEW f \in [S -> Nat], NEW g \in [S -> Nat],
           NEW a \in S, NEW d \in Nat, g[a] = f[a] + d,
           \A x \in S : x # a => g[x] = f[x]
    PROVE  Total(g) = Total(f) + d
<1> DEFINE rest == [x \in S \ {a} |-> f[x]]
           old == [x \in {a} |-> f[x]]
           new == [x \in {a} |-> g[x]]
<1>1. rest \in [S \ {a} -> Nat] /\ old \in [{a} -> Nat] /\ new \in [{a} -> Nat]
  OBVIOUS
<1>2. /\ \A x \in {a} : old[x] = f[x] /\ new[x] = g[x]
      /\ \A x \in S \ {a} : rest[x] = f[x] /\ rest[x] = g[x]
      /\ S = {a} \cup (S \ {a}) /\ {a} \cap (S \ {a}) = {}
  OBVIOUS
<1>3. IsFiniteSet(S \ {a}) /\ IsFiniteSet({a})
  BY FS_Subset, FS_Singleton
<1> HIDE DEF rest, old, new
<1>4. Total(f) = Total(old) + Total(rest) /\ Total(g) = Total(new) + Total(rest)
  BY <1>1, <1>2, <1>3, TotalSplit
<1>5. Total(old) = f[a] /\ Total(new) = g[a]
  BY <1>1, <1>2, TotalSingle
<1>6. Total(rest) \in Nat /\ f[a] \in Nat
  BY <1>1, <1>3, TotalType
<1> QED
  BY <1>4, <1>5, <1>6

\* The sum does not depend on the names of the arguments.
LEMMA TotalRename ==
    ASSUME NEW S, IsFiniteSet(S), NEW T, NEW f \in [S -> Nat], NEW g \in [T -> Nat],
           NEW h \in Bijection(S, T), \A x \in S : g[h[x]] = f[x]
    PROVE  Total(f) = Total(g)
<1>1. /\ h \in [S -> T]
      /\ \A x, y \in S : h[x] = h[y] => x = y
      /\ \A t \in T : \E x \in S : h[x] = t
  BY DEF Bijection, Injection, Surjection, IsInjective
<1> DEFINE b == [z \in Units(f) |-> <<h[z[1]], z[2]>>]
<1>2. \A z : z \in Units(f) <=> \E x \in S : \E i \in 1..f[x] : z = <<x, i>>
  BY UnitsOf
<1>3. \A z : z \in Units(g) <=> \E t \in T : \E i \in 1..g[t] : z = <<t, i>>
  BY UnitsOf
<1>4. \A z \in Units(f) : b[z] \in Units(g)
  BY <1>1, <1>2, <1>3
<1>5. \A y, z \in Units(f) : b[y] = b[z] => y = z
  BY <1>1, <1>2
<1>6. \A w \in Units(g) : \E z \in Units(f) : b[z] = w
  <2> TAKE w \in Units(g)
  <2>1. PICK t \in T : \E i \in 1..g[t] : w = <<t, i>>
    BY <1>3
  <2>2. PICK i \in 1..g[t] : w = <<t, i>>
    BY <2>1
  <2>3. PICK x \in S : h[x] = t
    BY <1>1
  <2>4. <<x, i>> \in Units(f)
    BY <1>2, <2>2, <2>3
  <2>5. b[<<x, i>>] = w
    BY <2>2, <2>3, <2>4
  <2> QED
    BY <2>4, <2>5
<1>7. b \in Bijection(Units(f), Units(g))
  BY <1>4, <1>5, <1>6 DEF Bijection, Injection, Surjection, IsInjective
<1>8. ExistsBijection(Units(f), Units(g))
  BY <1>7 DEF ExistsBijection
<1> QED
  BY <1>8, TotalType, FS_Bijection DEF Total

\* The classes of a finite set add up to its size.
LEMMA TotalClasses ==
    ASSUME NEW S, IsFiniteSet(S), NEW T, NEW h \in [S -> T]
    PROVE  Total([t \in T |-> Cardinality({x \in S : h[x] = t})]) = Cardinality(S)
<1> DEFINE Class(t) == {x \in S : h[x] = t}
           f == [t \in T |-> Cardinality(Class(t))]
           N(t) == CHOOSE b : b \in Bijection(1..f[t], Class(t))
           e == [z \in Units(f) |-> N(z[1])[z[2]]]
<1>1. \A t \in T : /\ IsFiniteSet(Class(t))
                   /\ f[t] \in Nat
                   /\ N(t) \in Bijection(1..f[t], Class(t))
  <2> TAKE t \in T
  <2>1. IsFiniteSet(Class(t))
    BY FS_Subset
  <2>2. f[t] \in Nat /\ ExistsBijection(1..f[t], Class(t))
    BY <2>1, FS_CardinalityType
  <2>3. \E b : b \in Bijection(1..f[t], Class(t))
    BY <2>2 DEF ExistsBijection
  <2> QED
    BY <2>1, <2>2, <2>3, Zenon
<1>2. f \in [T -> Nat]
  BY <1>1
<1> HIDE DEF f, N
<1>3. \A t \in T :
        /\ \A i \in 1..f[t] : N(t)[i] \in S /\ h[N(t)[i]] = t
        /\ \A i, j \in 1..f[t] : N(t)[i] = N(t)[j] => i = j
        /\ \A x \in Class(t) : \E i \in 1..f[t] : N(t)[i] = x
  <2> TAKE t \in T
  <2>1. N(t) \in Bijection(1..f[t], Class(t))
    BY <1>1
  <2> QED
    BY <2>1 DEF Bijection, Injection, Surjection, IsInjective
<1>4. \A z : z \in Units(f) <=> \E t \in T : \E i \in 1..f[t] : z = <<t, i>>
  BY <1>2, UnitsOf
<1>5. \A z \in Units(f) : e[z] \in S
  BY <1>3, <1>4
<1>6. \A y, z \in Units(f) : e[y] = e[z] => y = z
  <2> TAKE y, z \in Units(f)
  <2> HAVE e[y] = e[z]
  <2>1. PICK s \in T : \E i \in 1..f[s] : y = <<s, i>>
    BY <1>4
  <2>2. PICK i \in 1..f[s] : y = <<s, i>>
    BY <2>1
  <2>3. PICK t \in T : \E j \in 1..f[t] : z = <<t, j>>
    BY <1>4
  <2>4. PICK j \in 1..f[t] : z = <<t, j>>
    BY <2>3
  <2>5. N(s)[i] = N(t)[j]
    BY <2>2, <2>4
  <2>6. s = t
    BY <1>3, <2>5
  <2> QED
    BY <1>3, <2>2, <2>4, <2>5, <2>6
<1>7. \A x \in S : \E z \in Units(f) : e[z] = x
  <2> TAKE x \in S
  <2>1. h[x] \in T /\ x \in Class(h[x])
    OBVIOUS
  <2>2. PICK i \in 1..f[h[x]] : N(h[x])[i] = x
    BY <1>3, <2>1
  <2>3. <<h[x], i>> \in Units(f)
    BY <1>4, <2>1, <2>2
  <2>4. e[<<h[x], i>>] = x
    BY <2>2, <2>3
  <2> QED
    BY <2>3, <2>4
<1>8. e \in Bijection(Units(f), S)
  BY <1>5, <1>6, <1>7 DEF Bijection, Injection, Surjection, IsInjective
<1>9. Cardinality(Units(f)) = Cardinality(S)
  <2>1. e \in Injection(Units(f), S) /\ e \in Surjection(Units(f), S)
    BY <1>8 DEF Bijection
  <2> HIDE DEF e
  <2> QED
    BY <2>1, FS_Injection
<1> QED
  BY <1>9 DEF f, Total

\* As many ones as a set has elements.
LEMMA TotalOnes ==
    ASSUME NEW S, IsFiniteSet(S), NEW f \in [S -> Nat], \A x \in S : f[x] = 1
    PROVE  Total(f) = Cardinality(S)
<1> DEFINE h == [x \in S |-> <<x, 1>>]
<1>1. \A x \in S : \A i \in 1..f[x] : i = 1
  OBVIOUS
<1>2. \A z : z \in Units(f) <=> \E x \in S : z = <<x, 1>>
  BY <1>1, UnitsOf
<1>3. h \in Bijection(S, Units(f))
  BY <1>2 DEF Bijection, Injection, Surjection, IsInjective
<1> QED
  BY <1>3, FS_Bijection DEF Total, ExistsBijection
=============================================================================
