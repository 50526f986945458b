-------------------------- MODULE ArithmeticProofs --------------------------
(***************************************************************************)
(* Facts about the sums, products and rounding the other modules use.      *)
(*                                                                         *)
(* SumFunctionOnSet and ProductFunctionOnSet are folds that choose an      *)
(* element of the set (Any) and go on with the rest.  A table h of the     *)
(* partial results of such a fold exists and is the only one (FoldExists,  *)
(* FoldUnique), so the fold obeys its recursion; that the order of the     *)
(* elements does not matter follows (SumRemove).  Each induction, over the *)
(* numbers and over the subsets of a finite set, is a set of the good      *)
(* cases that has no smallest exception (SmallestNat, SmallestSet).        *)
(***************************************************************************)
EXTENDS Arithmetic, FiniteSetTheorems, TLAPS

\* The element a fold takes first.
Any(s) == CHOOSE x \in s : TRUE

\* A set of natural numbers closed under the successor has all of them.
LEMMA SmallestNat ==
    ASSUME NEW G \in SUBSET Nat, 0 \in G, \A n \in G : n + 1 \in G
    PROVE  G = Nat
  <1> SUFFICES ASSUME Nat \ G # {} PROVE FALSE
    OBVIOUS
  <1>1. IsWellFoundedOn(OpToRel(<, Nat), Nat)
    BY NatLessThanWellFounded
  <1>2. PICK n \in Nat \ G : \A m \in Nat \ G : ~(<<m, n>> \in OpToRel(<, Nat))
    BY <1>1, WFMin
  <1>3. n - 1 \in Nat /\ <<n - 1, n>> \in OpToRel(<, Nat)
    BY <1>2 DEF OpToRel
  <1>4. n - 1 \in G
    BY <1>2, <1>3
  <1>5. (n - 1) + 1 = n
    OBVIOUS
  <1>6. QED  BY <1>4, <1>5

\* A family that has a subset as soon as it has all its proper subsets has
\* every subset of a finite set.
LEMMA SmallestSet ==
    ASSUME NEW S, IsFiniteSet(S), NEW G \in SUBSET SUBSET S,
           \A T \in SUBSET S : (\A U \in SUBSET T : U # T => U \in G) => T \in G
    PROVE  G = SUBSET S
  <1> SUFFICES ASSUME (SUBSET S) \ G # {} PROVE FALSE
    OBVIOUS
  <1> DEFINE Bad == (SUBSET S) \ G
  <1>1. IsWellFoundedOn(StrictSubsetOrdering(S), SUBSET S)
    <2>1. FiniteSubsetsOf(S) = SUBSET S
      BY FS_FiniteSubsetsOfFinite
    <2>2. IsWellFoundedOn(StrictSubsetOrdering(S), FiniteSubsetsOf(S))
      BY FS_StrictSubsetOrderingWellFounded
    <2>3. QED  BY <2>1, <2>2
  <1>2. PICK T \in Bad : \A U \in Bad : ~(<<U, T>> \in StrictSubsetOrdering(S))
    <2>1. Bad \subseteq SUBSET S /\ Bad # {}
      OBVIOUS
    <2> HIDE DEF Bad
    <2>2. QED  BY <1>1, <2>1, WFMin
  <1>3. \A U \in SUBSET T : U # T => U \in G
    BY <1>2 DEF StrictSubsetOrdering
  <1>4. QED  BY <1>2, <1>3

\* Some natural numbers have a least one.
LEMMA Least ==
    ASSUME NEW T \in SUBSET Nat, T # {}
    PROVE  \E m \in T : \A t \in T : m <= t
  <1>1. IsWellFoundedOn(OpToRel(<, Nat), Nat)
    BY NatLessThanWellFounded
  <1>2. PICK m \in T : \A t \in T : ~(<<t, m>> \in OpToRel(<, Nat))
    BY <1>1, WFMin
  <1>3. ASSUME NEW t \in T PROVE m <= t
    <2>1. ~(t < m) /\ t \in Nat /\ m \in Nat
      BY <1>2 DEF OpToRel
    <2>2. QED  BY <2>1
  <1>4. QED  BY <1>3

\* Finitely many natural numbers have a greatest one.
LEMMA Greatest ==
    ASSUME NEW S \in SUBSET Nat, IsFiniteSet(S), S # {}
    PROVE  \E m \in S : \A s \in S : s <= m
  <1> DEFINE Topped(T) == T # {} => \E m \in T : \A t \in T : t <= m
             Good == {T \in SUBSET S : Topped(T)}
  <1>1. ASSUME NEW T \in SUBSET S, \A U \in SUBSET T : U # T => U \in Good
        PROVE  T \in Good
    <2> SUFFICES ASSUME T # {} PROVE \E m \in T : \A t \in T : t <= m
      OBVIOUS
    <2> DEFINE a == Any(T)
               U == T \ {a}
    <2>1. a \in T /\ a \in Nat /\ T = U \cup {a}
      BY DEF Any
    <2>2. U \in Good
      BY <1>1, <2>1
    <2> HIDE DEF a
    <2>3. CASE U = {}
      BY <2>1, <2>3
    <2>4. CASE U # {}
      <3>1. PICK m \in U : \A t \in U : t <= m
        BY <2>2, <2>4
      <3>2. m \in Nat /\ \A t \in U : t \in Nat
        OBVIOUS
      <3>3. CASE a <= m
        BY <2>1, <3>1, <3>3
      <3>4. CASE m < a
        BY <2>1, <3>1, <3>2, <3>4
      <3>5. QED  BY <2>1, <3>2, <3>3, <3>4
    <2>5. QED  BY <2>3, <2>4
  <1>2. Good \in SUBSET SUBSET S
    OBVIOUS
  <1> HIDE DEF Good
  <1>3. Good = SUBSET S
    BY <1>1, <1>2, SmallestSet
  <1>4. QED  BY <1>3 DEF Good

\* h holds, for every subset of S, what the fold with the step G makes of it.
Folded(h, S, base, G) ==
    \A T \in SUBSET S :
        h[T] = IF T = {} THEN base ELSE G[<<T, h[T \ {Any(T)}]>>]

\* A finite set has a table of the partial results of a fold.
LEMMA FoldExists ==
    ASSUME NEW S, IsFiniteSet(S), NEW V, NEW base \in V,
           NEW G \in [(SUBSET S) \X V -> V]
    PROVE  \E h \in [SUBSET S -> V] : Folded(h, S, base, G)
  <1> DEFINE Upto(n, h) ==
               \A T \in SUBSET S : Cardinality(T) <= n =>
                   h[T] = IF T = {} THEN base ELSE G[<<T, h[T \ {Any(T)}]>>]
             N == {n \in Nat : \E h \in [SUBSET S -> V] : Upto(n, h)}
  <1>1. \A T \in SUBSET S : /\ IsFiniteSet(T) /\ Cardinality(T) \in Nat
                            /\ Cardinality(T) <= Cardinality(S)
    BY FS_Subset, FS_CardinalityType
  <1>2. \A T \in SUBSET S : Cardinality(T) = 0 <=> T = {}
    BY <1>1, FS_EmptySet
  <1>3. \A T \in SUBSET S : T # {} =>
            T \ {Any(T)} \in SUBSET S /\ Cardinality(T \ {Any(T)}) = Cardinality(T) - 1
    BY <1>1, FS_RemoveElement DEF Any
  <1>4. 0 \in N
    <2> DEFINE h == [T \in SUBSET S |-> base]
    <2>1. h \in [SUBSET S -> V]
      OBVIOUS
    <2>2. Upto(0, h)
      <3> SUFFICES ASSUME NEW T \in SUBSET S, Cardinality(T) <= 0
                   PROVE  T = {}
        OBVIOUS
      <3>1. QED  BY <1>1, <1>2
    <2>3. QED  BY <2>1, <2>2
  <1>5. \A n \in N : n + 1 \in N
    <2> SUFFICES ASSUME NEW n \in N PROVE n + 1 \in N
      OBVIOUS
    <2>1. PICK h \in [SUBSET S -> V] : Upto(n, h)
      OBVIOUS
    <2> HIDE DEF N
    <2> DEFINE g == [T \in SUBSET S |-> IF T = {} THEN base
                                        ELSE G[<<T, h[T \ {Any(T)}]>>]]
    <2>2. g \in [SUBSET S -> V]
      BY <1>3
    <2>3. Upto(n + 1, g)
      <3> SUFFICES ASSUME NEW T \in SUBSET S, Cardinality(T) <= n + 1, T # {}
                   PROVE  g[T] = G[<<T, g[T \ {Any(T)}]>>]
        OBVIOUS
      <3> DEFINE U == T \ {Any(T)}
      <3>1. U \in SUBSET S /\ Cardinality(U) <= n
        BY <1>1, <1>3 DEF N
      <3>2. h[U] = IF U = {} THEN base ELSE G[<<U, h[U \ {Any(U)}]>>]
        BY <2>1, <3>1
      <3>3. g[U] = h[U]
        BY <3>1, <3>2
      <3>4. QED  BY <3>3
    <2>4. n + 1 \in Nat
      BY DEF N
    <2> HIDE DEF g, Upto
    <2>5. QED  BY <2>2, <2>3, <2>4 DEF N
  <1>6. N = Nat
    <2> HIDE DEF Upto
    <2>1. N \in SUBSET Nat
      OBVIOUS
    <2> HIDE DEF N
    <2>2. QED  BY <1>4, <1>5, <2>1, SmallestNat
  <1>7. Cardinality(S) \in N
    BY <1>1, <1>6
  <1>8. PICK h \in [SUBSET S -> V] : Upto(Cardinality(S), h)
    BY <1>7
  <1>9. QED  BY <1>1, <1>8 DEF Folded

\* Two tables of one fold agree on every subset.
LEMMA FoldUnique ==
    ASSUME NEW S, IsFiniteSet(S), NEW h, NEW g, h[{}] = g[{}],
           \A T \in SUBSET S : T # {} /\ h[T \ {Any(T)}] = g[T \ {Any(T)}]
                                   => h[T] = g[T]
    PROVE  h[S] = g[S]
  <1> DEFINE Same == {T \in SUBSET S : h[T] = g[T]}
  <1>1. ASSUME NEW T \in SUBSET S, \A U \in SUBSET T : U # T => U \in Same
        PROVE  T \in Same
    <2>1. CASE T = {}
      BY <2>1
    <2>2. CASE T # {}
      <3>1. T \ {Any(T)} \in SUBSET T /\ T \ {Any(T)} # T
        BY <2>2 DEF Any
      <3>2. h[T \ {Any(T)}] = g[T \ {Any(T)}]
        BY <1>1, <3>1
      <3>3. QED  BY <2>2, <3>2
    <2>3. QED  BY <2>1, <2>2
  <1>2. Same \in SUBSET SUBSET S
    OBVIOUS
  <1> HIDE DEF Same
  <1>3. Same = SUBSET S
    BY <1>1, <1>2, SmallestSet
  <1>4. QED  BY <1>3 DEF Same

\* A sum takes out the chosen element and adds up the rest.
LEMMA SumRecursion ==
    ASSUME NEW S, IsFiniteSet(S), NEW f, \A x \in S : f[x] \in Int
    PROVE  \A T \in SUBSET S :
               /\ SumFunctionOnSet(f, T) \in Int
               /\ SumFunctionOnSet(f, T) =
                      IF T = {} THEN 0
                      ELSE f[Any(T)] + SumFunctionOnSet(f, T \ {Any(T)})
  <1> DEFINE G == [p \in (SUBSET S) \X Int |->
                     IF p[1] = {} THEN 0 ELSE f[Any(p[1])] + p[2]]
  <1>1. \A T \in SUBSET S : T # {} => Any(T) \in S /\ f[Any(T)] \in Int
    BY DEF Any
  <1>2. G \in [(SUBSET S) \X Int -> Int]
    BY <1>1
  <1>3. \A T \in SUBSET S, v \in Int : T # {} => G[<<T, v>>] = f[Any(T)] + v
    OBVIOUS
  <1> HIDE DEF G
  <1>4. PICK h \in [SUBSET S -> Int] : Folded(h, S, 0, G)
    <2>1. 0 \in Int
      OBVIOUS
    <2>2. QED  BY <1>2, <2>1, FoldExists
  <1>5. \A T \in SUBSET S :
            h[T] = IF T = {} THEN 0 ELSE f[Any(T)] + h[T \ {Any(T)}]
    <2> SUFFICES ASSUME NEW T \in SUBSET S, T # {}
                 PROVE  h[T] = f[Any(T)] + h[T \ {Any(T)}]
      BY <1>4 DEF Folded
    <2>1. h[T \ {Any(T)}] \in Int
      OBVIOUS
    <2>2. QED  BY <1>3, <1>4, <2>1 DEF Folded
  <1>6. ASSUME NEW T \in SUBSET S PROVE SumFunctionOnSet(f, T) = h[T]
    <2> DEFINE Eq(g) == g = [U \in SUBSET T |->
                               IF U = {} THEN 0 ELSE f[Any(U)] + g[U \ {Any(U)}]]
               k == [U \in SUBSET T |-> h[U]]
               g == CHOOSE g : Eq(g)
    <2>1. SumFunctionOnSet(f, T) = g[T]
      BY DEF SumFunctionOnSet, FoldFunctionOnSet, MapThenFoldSet, Any
    <2>2. Eq(k)
      <3>1. \A U \in SUBSET T : k[U \ {Any(U)}] = h[U \ {Any(U)}]
        OBVIOUS
      <3>2. QED  BY <1>5, <3>1
    <2>3. Eq(g)
      <3> HIDE DEF Eq, k
      <3>1. QED  BY <2>2
    <2> HIDE DEF g
    <2>4. /\ g[{}] = h[{}]
          /\ \A U \in SUBSET T : U # {} /\ g[U \ {Any(U)}] = h[U \ {Any(U)}]
                                     => g[U] = h[U]
      BY <1>5, <2>3
    <2>5. g[T] = h[T]
      <3>1. IsFiniteSet(T)
        BY FS_Subset
      <3>2. QED  BY <2>4, <3>1, FoldUnique
    <2>6. QED  BY <2>1, <2>5
  <1>7. QED  BY <1>5, <1>6

\* Any element may be taken out first.
LEMMA SumRemove ==
    ASSUME NEW S, IsFiniteSet(S), NEW f, \A x \in S : f[x] \in Int,
           NEW x \in S
    PROVE  SumFunctionOnSet(f, S) = f[x] + SumFunctionOnSet(f, S \ {x})
  <1> DEFINE total(T) == SumFunctionOnSet(f, T)
             Good == {T \in SUBSET S :
                        \A y \in T : total(T) = f[y] + total(T \ {y})}
  <1>0. \A T \in SUBSET S :
            /\ total(T) \in Int
            /\ total(T) = IF T = {} THEN 0 ELSE f[Any(T)] + total(T \ {Any(T)})
    BY SumRecursion
  <1> HIDE DEF total
  <1>1. \A T \in SUBSET S : /\ total(T) \in Int
                            /\ T # {} => /\ Any(T) \in T
                                         /\ total(T) = f[Any(T)] + total(T \ {Any(T)})
    BY <1>0 DEF Any
  <1>2. ASSUME NEW T \in SUBSET S, \A U \in SUBSET T : U # T => U \in Good
        PROVE  T \in Good
    <2> SUFFICES ASSUME NEW y \in T, y # Any(T)
                 PROVE  total(T) = f[y] + total(T \ {y})
      BY <1>1
    <2> DEFINE a == Any(T)
    <2>1. a \in T /\ total(T) = f[a] + total(T \ {a})
      BY <1>1
    <2> HIDE DEF a
    <2>2. total(T \ {a}) = f[y] + total((T \ {a}) \ {y})
      <3>1. T \ {a} \in SUBSET T /\ T \ {a} # T /\ y \in T \ {a}
        BY <2>1 DEF a
      <3>2. QED  BY <1>2, <3>1
    <2>3. total(T \ {y}) = f[a] + total((T \ {y}) \ {a})
      <3>1. T \ {y} \in SUBSET T /\ T \ {y} # T /\ a \in T \ {y}
        BY <2>1 DEF a
      <3>2. QED  BY <1>2, <3>1
    <2>4. (T \ {a}) \ {y} = (T \ {y}) \ {a}
      OBVIOUS
    <2>5. f[a] \in Int /\ f[y] \in Int /\ total((T \ {y}) \ {a}) \in Int
      BY <1>1, <2>1
    <2>6. total((T \ {a}) \ {y}) = total((T \ {y}) \ {a})
      BY <2>4
    <2> DEFINE p == f[a]
               q == f[y]
               rest == total((T \ {y}) \ {a})
    <2>7. /\ total(T) = p + total(T \ {a}) /\ total(T \ {a}) = q + rest
          /\ total(T \ {y}) = p + rest
          /\ p \in Int /\ q \in Int /\ rest \in Int
      BY <2>1, <2>2, <2>3, <2>5, <2>6
    <2> HIDE DEF p, q, rest
    <2>8. total(T) = q + total(T \ {y})
      BY <2>7
    <2>9. QED  BY <2>8 DEF q
  <1>3. Good \in SUBSET SUBSET S
    OBVIOUS
  <1> HIDE DEF Good
  <1>4. Good = SUBSET S
    BY <1>2, <1>3, SmallestSet
  <1>5. QED  BY <1>4 DEF Good, total

\* No elements add up to zero.
LEMMA SumEmpty == \A f : SumFunctionOnSet(f, {}) = 0
  <1> SUFFICES ASSUME NEW f PROVE SumFunctionOnSet(f, {}) = 0
    OBVIOUS
  <1>1. IsFiniteSet({}) /\ \A x \in {} : f[x] \in Int
    BY FS_EmptySet
  <1>2. \A T \in SUBSET {} :
            SumFunctionOnSet(f, T) = IF T = {} THEN 0
                ELSE f[Any(T)] + SumFunctionOnSet(f, T \ {Any(T)})
    BY <1>1, SumRecursion
  <1>3. {} \in SUBSET {}
    OBVIOUS
  <1>4. QED  BY <1>2, <1>3

\* Zeros add up to zero.
LEMMA SumZero ==
    ASSUME NEW S, IsFiniteSet(S), NEW f, \A x \in S : f[x] = 0
    PROVE  SumFunctionOnSet(f, S) = 0
  <1> DEFINE F == [T \in SUBSET S |-> SumFunctionOnSet(f, T)]
             Z == [T \in SUBSET S |-> 0]
  <1>1. \A x \in S : f[x] \in Int
    OBVIOUS
  <1>2. \A T \in SUBSET S :
            F[T] = IF T = {} THEN 0 ELSE f[Any(T)] + F[T \ {Any(T)}]
    <2>1. \A T \in SUBSET S : T \ {Any(T)} \in SUBSET S
      OBVIOUS
    <2>2. \A T \in SUBSET S :
              SumFunctionOnSet(f, T) = IF T = {} THEN 0
                  ELSE f[Any(T)] + SumFunctionOnSet(f, T \ {Any(T)})
      BY <1>1, SumRecursion
    <2>3. QED  BY <2>1, <2>2
  <1>3. \A T \in SUBSET S : T # {} => f[Any(T)] = 0
    BY DEF Any
  <1>4. \A T \in SUBSET S : Z[T] = 0 /\ Z[T \ {Any(T)}] = 0
    OBVIOUS
  <1>5. F[S] = SumFunctionOnSet(f, S) /\ Z[S] = 0
    OBVIOUS
  <1> HIDE DEF F, Z
  <1>6. F[{}] = Z[{}] /\ \A T \in SUBSET S :
            T # {} /\ F[T \ {Any(T)}] = Z[T \ {Any(T)}] => F[T] = Z[T]
    <2>1. {} \in SUBSET S
      OBVIOUS
    <2>2. F[{}] = Z[{}]
      BY <1>2, <1>4, <2>1
    <2>3. ASSUME NEW T \in SUBSET S, T # {}, F[T \ {Any(T)}] = Z[T \ {Any(T)}]
          PROVE  F[T] = Z[T]
      <3>1. F[T \ {Any(T)}] = 0 /\ f[Any(T)] = 0 /\ Z[T] = 0
        BY <1>3, <1>4, <2>3
      <3>2. F[T] = f[Any(T)] + F[T \ {Any(T)}]
        BY <1>2, <2>3
      <3>3. QED  BY <3>1, <3>2
    <2>4. QED  BY <2>2, <2>3
  <1>7. QED  BY <1>5, <1>6, FoldUnique

\* Integers add up to an integer.
LEMMA SumInt ==
    ASSUME NEW S, IsFiniteSet(S), NEW f, \A x \in S : f[x] \in Int
    PROVE  SumFunctionOnSet(f, S) \in Int
  <1>1. S \in SUBSET S
    OBVIOUS
  <1>2. QED  BY <1>1, SumRecursion

\* Only the values on the set count.
LEMMA SumSame ==
    ASSUME NEW S, IsFiniteSet(S), NEW f, NEW g,
           \A x \in S : f[x] \in Int /\ f[x] = g[x]
    PROVE  SumFunctionOnSet(f, S) = SumFunctionOnSet(g, S)
  <1> DEFINE F == [T \in SUBSET S |-> SumFunctionOnSet(f, T)]
             H == [T \in SUBSET S |-> SumFunctionOnSet(g, T)]
  <1>1. \A x \in S : g[x] \in Int
    OBVIOUS
  <1>2. \A T \in SUBSET S :
            F[T] = IF T = {} THEN 0 ELSE f[Any(T)] + F[T \ {Any(T)}]
    <2>1. \A T \in SUBSET S : T \ {Any(T)} \in SUBSET S
      OBVIOUS
    <2>2. QED  BY <2>1, SumRecursion
  <1>3. \A T \in SUBSET S :
            H[T] = IF T = {} THEN 0 ELSE g[Any(T)] + H[T \ {Any(T)}]
    <2>1. \A T \in SUBSET S : T \ {Any(T)} \in SUBSET S
      OBVIOUS
    <2>2. \A T \in SUBSET S :
              SumFunctionOnSet(g, T) = IF T = {} THEN 0
                  ELSE g[Any(T)] + SumFunctionOnSet(g, T \ {Any(T)})
      BY <1>1, SumRecursion
    <2>3. QED  BY <2>1, <2>2
  <1>4. \A T \in SUBSET S : T # {} => f[Any(T)] = g[Any(T)]
    BY DEF Any
  <1>5. F[S] = SumFunctionOnSet(f, S) /\ H[S] = SumFunctionOnSet(g, S)
    OBVIOUS
  <1> HIDE DEF F, H
  <1>6. F[{}] = H[{}] /\ \A T \in SUBSET S :
            T # {} /\ F[T \ {Any(T)}] = H[T \ {Any(T)}] => F[T] = H[T]
    BY <1>2, <1>3, <1>4
  <1>7. QED  BY <1>5, <1>6, FoldUnique

\* A new element adds its value.
LEMMA SumAdd ==
    ASSUME NEW S, IsFiniteSet(S), NEW x, x \notin S,
           NEW f, NEW g, \A y \in S : f[y] \in Int /\ g[y] = f[y], g[x] \in Int
    PROVE  SumFunctionOnSet(g, S \cup {x}) = SumFunctionOnSet(f, S) + g[x]
  <1> DEFINE T == S \cup {x}
  <1>1. IsFiniteSet(T) /\ x \in T /\ T \ {x} = S /\ \A y \in T : g[y] \in Int
    BY FS_AddElement
  <1> HIDE DEF T
  <1>2. SumFunctionOnSet(g, T) = g[x] + SumFunctionOnSet(g, S)
    BY <1>1, SumRemove
  <1>3. SumFunctionOnSet(g, S) = SumFunctionOnSet(f, S)
    BY SumSame
  <1>4. SumFunctionOnSet(f, S) \in Int
    BY SumInt
  <1>5. QED  BY <1>2, <1>3, <1>4 DEF T

\* One element changes its value.
LEMMA SumChange ==
    ASSUME NEW S, IsFiniteSet(S), NEW x \in S, NEW f, NEW g,
           \A y \in S : f[y] \in Int,
           \A y \in S \ {x} : g[y] = f[y], g[x] \in Int
    PROVE  SumFunctionOnSet(g, S) = SumFunctionOnSet(f, S) + (g[x] - f[x])
  <1> DEFINE R == S \ {x}
  <1>1. IsFiniteSet(R) /\ R \cup {x} = S /\ x \notin R
    BY FS_RemoveElement
  <1>2. SumFunctionOnSet(f, S) = f[x] + SumFunctionOnSet(f, R)
    BY SumRemove
  <1>3. \A y \in R : f[y] \in Int /\ g[y] = f[y]
    OBVIOUS
  <1> HIDE DEF R
  <1>4. SumFunctionOnSet(g, S) = SumFunctionOnSet(f, R) + g[x]
    <2>1. SumFunctionOnSet(g, R \cup {x}) = SumFunctionOnSet(f, R) + g[x]
      BY <1>1, <1>3, SumAdd
    <2>2. QED  BY <1>1, <2>1
  <1>5. SumFunctionOnSet(f, R) \in Int /\ f[x] \in Int
    BY <1>1, <1>3, SumInt
  <1>6. QED  BY <1>2, <1>4, <1>5

\* Natural numbers add up to a natural number.
LEMMA SumNat ==
    ASSUME NEW S, IsFiniteSet(S), NEW f, \A x \in S : f[x] \in Nat
    PROVE  SumFunctionOnSet(f, S) \in Nat
  <1> DEFINE Good == {T \in SUBSET S : SumFunctionOnSet(f, T) \in Nat}
  <1>1. ASSUME NEW T \in SUBSET S, \A U \in SUBSET T : U # T => U \in Good
        PROVE  T \in Good
    <2>0. \A x \in S : f[x] \in Int
      OBVIOUS
    <2>1. SumFunctionOnSet(f, T) = IF T = {} THEN 0
              ELSE f[Any(T)] + SumFunctionOnSet(f, T \ {Any(T)})
      <3>1. \A U \in SUBSET S :
                SumFunctionOnSet(f, U) = IF U = {} THEN 0
                    ELSE f[Any(U)] + SumFunctionOnSet(f, U \ {Any(U)})
        BY <2>0, SumRecursion
      <3>2. QED  BY <3>1
    <2>2. CASE T = {}
      BY <2>1, <2>2
    <2>3. CASE T # {}
      <3>1. Any(T) \in S /\ T \ {Any(T)} \in SUBSET T /\ T \ {Any(T)} # T
        BY <2>3 DEF Any
      <3>2. SumFunctionOnSet(f, T \ {Any(T)}) \in Nat
        BY <1>1, <3>1
      <3>3. f[Any(T)] \in Nat
        BY <3>1
      <3>4. QED  BY <2>1, <2>3, <3>2, <3>3
    <2>4. QED  BY <2>2, <2>3
  <1>2. Good \in SUBSET SUBSET S
    OBVIOUS
  <1> HIDE DEF Good
  <1>3. Good = SUBSET S
    BY <1>1, <1>2, SmallestSet
  <1>4. QED  BY <1>3 DEF Good

\* No part of a sum of natural numbers is larger than the sum.
LEMMA SumMember ==
    ASSUME NEW S, IsFiniteSet(S), NEW f, \A y \in S : f[y] \in Nat, NEW x \in S
    PROVE  f[x] <= SumFunctionOnSet(f, S)
  <1>1. SumFunctionOnSet(f, S) = f[x] + SumFunctionOnSet(f, S \ {x})
    <2>1. \A y \in S : f[y] \in Int
      OBVIOUS
    <2>2. QED  BY <2>1, SumRemove
  <1>2. SumFunctionOnSet(f, S \ {x}) \in Nat
    <2>1. IsFiniteSet(S \ {x})
      BY FS_RemoveElement
    <2>2. QED  BY <2>1, SumNat
  <1>3. QED  BY <1>1, <1>2

\* A product takes out the chosen element and multiplies the rest.
LEMMA ProductRecursion ==
    ASSUME NEW S, IsFiniteSet(S), NEW f, \A x \in S : f[x] \in Int
    PROVE  \A T \in SUBSET S :
               /\ Product(f, T) \in Int
               /\ Product(f, T) = IF T = {} THEN 1
                                  ELSE f[Any(T)] * Product(f, T \ {Any(T)})
  <1> DEFINE G == [p \in (SUBSET S) \X Int |->
                     IF p[1] = {} THEN 1 ELSE f[Any(p[1])] * p[2]]
  <1>1. \A T \in SUBSET S : T # {} => Any(T) \in S /\ f[Any(T)] \in Int
    BY DEF Any
  <1>2. G \in [(SUBSET S) \X Int -> Int]
    BY <1>1
  <1>3. \A T \in SUBSET S, v \in Int : T # {} => G[<<T, v>>] = f[Any(T)] * v
    OBVIOUS
  <1> HIDE DEF G
  <1>4. PICK h \in [SUBSET S -> Int] : Folded(h, S, 1, G)
    <2>1. 1 \in Int
      OBVIOUS
    <2>2. QED  BY <1>2, <2>1, FoldExists
  <1>5. \A T \in SUBSET S :
            h[T] = IF T = {} THEN 1 ELSE f[Any(T)] * h[T \ {Any(T)}]
    <2> SUFFICES ASSUME NEW T \in SUBSET S, T # {}
                 PROVE  h[T] = f[Any(T)] * h[T \ {Any(T)}]
      BY <1>4 DEF Folded
    <2>1. h[T \ {Any(T)}] \in Int
      OBVIOUS
    <2>2. QED  BY <1>3, <1>4, <2>1 DEF Folded
  <1>6. ASSUME NEW T \in SUBSET S PROVE Product(f, T) = h[T]
    <2> DEFINE Eq(g) == g = [U \in SUBSET T |->
                               IF U = {} THEN 1 ELSE f[Any(U)] * g[U \ {Any(U)}]]
               k == [U \in SUBSET T |-> h[U]]
               g == CHOOSE g : Eq(g)
    <2>1. Product(f, T) = g[T]
      BY DEF Product, FoldFunctionOnSet, MapThenFoldSet, Any
    <2>2. Eq(k)
      <3>1. \A U \in SUBSET T : k[U \ {Any(U)}] = h[U \ {Any(U)}]
        OBVIOUS
      <3>2. QED  BY <1>5, <3>1
    <2>3. Eq(g)
      <3> HIDE DEF Eq, k
      <3>1. QED  BY <2>2
    <2> HIDE DEF g
    <2>4. /\ g[{}] = h[{}]
          /\ \A U \in SUBSET T : U # {} /\ g[U \ {Any(U)}] = h[U \ {Any(U)}]
                                     => g[U] = h[U]
      BY <1>5, <2>3
    <2>5. g[T] = h[T]
      <3>1. IsFiniteSet(T)
        BY FS_Subset
      <3>2. QED  BY <2>4, <3>1, FoldUnique
    <2>6. QED  BY <2>1, <2>5
  <1>7. QED  BY <1>5, <1>6

\* Positive numbers multiply to a positive one.
LEMMA ProductPositive ==
    ASSUME NEW S, IsFiniteSet(S), NEW f, \A x \in S : f[x] \in Nat \ {0}
    PROVE  Product(f, S) \in Nat \ {0}
  <1> DEFINE Good == {T \in SUBSET S : Product(f, T) \in Nat \ {0}}
  <1>1. ASSUME NEW T \in SUBSET S, \A U \in SUBSET T : U # T => U \in Good
        PROVE  T \in Good
    <2>0. \A x \in S : f[x] \in Int
      OBVIOUS
    <2>1. Product(f, T) = IF T = {} THEN 1
                          ELSE f[Any(T)] * Product(f, T \ {Any(T)})
      BY <2>0, ProductRecursion
    <2>2. CASE T = {}
      BY <2>1, <2>2
    <2>3. CASE T # {}
      <3>1. Any(T) \in S /\ T \ {Any(T)} \in SUBSET T /\ T \ {Any(T)} # T
        BY <2>3 DEF Any
      <3> DEFINE p == f[Any(T)]
                 q == Product(f, T \ {Any(T)})
      <3>2. p \in Nat \ {0} /\ q \in Nat \ {0}
        BY <1>1, <3>1
      <3>3. Product(f, T) = p * q
        BY <2>1, <2>3
      <3> HIDE DEF p, q
      <3>4. p * q \in Nat \ {0}
        BY <3>2
      <3>5. QED  BY <3>3, <3>4
    <2>4. QED  BY <2>2, <2>3
  <1>2. Good \in SUBSET SUBSET S
    OBVIOUS
  <1> HIDE DEF Good
  <1>3. Good = SUBSET S
    BY <1>1, <1>2, SmallestSet
  <1>4. QED  BY <1>3 DEF Good

\* Rounding takes the nearest unit, and the even one of two equally near.
THEOREM RoundsToNearest ==
    ASSUME NEW a \in Nat, NEW b \in Nat \ {0}
    PROVE  LET n == RoundHalfEven(a, b)
           IN  /\ n \in Nat
               /\ 2 * (a - b * n) <= b /\ 2 * (b * n - a) <= b
               /\ (2 * (a - b * n) = b \/ 2 * (b * n - a) = b) => n % 2 = 0
  <1> DEFINE q == a \div b
             r == a % b
             m == b * q
  <1>1. q \in Nat /\ r \in 0 .. (b - 1) /\ a = b * q + r
    OBVIOUS
  <1>2. b * (q + 1) = m + b
    BY <1>1
  <1>3. m \in Int /\ a = m + r
    BY <1>1
  <1>4. (q + 1) % 2 = 0 <=> q % 2 = 1
    BY <1>1
  <1>5. q % 2 = 0 \/ q % 2 = 1
    BY <1>1
  <1> HIDE DEF q, r
  <1>6. CASE 2 * r > b \/ (2 * r = b /\ q % 2 = 1)
    <2>1. RoundHalfEven(a, b) = q + 1
      BY <1>6 DEF RoundHalfEven, q, r
    <2> HIDE DEF m
    <2>2. QED  BY <1>1, <1>2, <1>3, <1>4, <1>6, <2>1
  <1>7. CASE ~(2 * r > b \/ (2 * r = b /\ q % 2 = 1))
    <2>1. RoundHalfEven(a, b) = q /\ b * q = m
      BY <1>7 DEF RoundHalfEven, q, r
    <2> HIDE DEF m
    <2>2. QED  BY <1>1, <1>3, <1>5, <1>7, <2>1
  <1>8. QED  BY <1>6, <1>7

\* A positive factor keeps the order of two integers, both ways.
LEMMA Cancel ==
    ASSUME NEW k \in Nat \ {0}, NEW x \in Int, NEW y \in Int
    PROVE  (k * x <= k * y <=> x <= y) /\ (k * x = k * y <=> x = y)
  <1>1. ASSUME NEW u \in Int, NEW v \in Int, u < v PROVE k * u < k * v
    <2> DEFINE d == v - u
    <2>1. d \in Nat \ {0} /\ v = u + d
      BY <1>1
    <2> HIDE DEF d
    <2>2. k * d \in Nat \ {0} /\ k * v = k * u + k * d
      BY <2>1
    <2>3. k * u \in Int /\ k * v \in Int
      OBVIOUS
    <2>4. QED  BY <2>2, <2>3
  <1>2. k * x \in Int /\ k * y \in Int
    OBVIOUS
  <1>3. QED  BY <1>1, <1>2

\* Of two fractions the larger is never rounded to the smaller number: ties go
\* the same way.
THEOREM RoundingIsMonotone ==
    ASSUME NEW a \in Nat, NEW b \in Nat \ {0}, NEW c \in Nat, NEW d \in Nat \ {0},
           a * d <= c * b
    PROVE  RoundHalfEven(a, b) <= RoundHalfEven(c, d)
  <1>1. PICK n \in Nat : /\ n = RoundHalfEven(a, b) /\ 2 * (b * n - a) <= b
                         /\ 2 * (b * n - a) = b => n % 2 = 0
    BY RoundsToNearest
  <1>2. PICK m \in Nat : /\ m = RoundHalfEven(c, d) /\ 2 * (c - d * m) <= d
                         /\ 2 * (c - d * m) = d => m % 2 = 0
    BY RoundsToNearest
  <1> SUFFICES ASSUME m + 1 <= n PROVE FALSE
    BY <1>1, <1>2
  <1>3. PICK x \in Int, y \in Int, z \in Int : x = b * n /\ y = d * n /\ z = d * m
    OBVIOUS
  <1>4. d * (2 * x) = b * (2 * y)
    BY <1>3
  <1>5. d * (2 * x) <= d * (b + 2 * a)
    <2>1. 2 * x <= b + 2 * a /\ 2 * x \in Int /\ b + 2 * a \in Int
      BY <1>1, <1>3
    <2>2. QED  BY <2>1, Cancel
  <1>6. d * (b + 2 * a) <= b * (d + 2 * c)
    <2>1. d * (b + 2 * a) = b * d + 2 * (a * d) /\ b * (d + 2 * c) = b * d + 2 * (c * b)
      OBVIOUS
    <2>2. a * d \in Int /\ c * b \in Int /\ b * d \in Int
      OBVIOUS
    <2>3. QED  BY <2>1, <2>2
  <1>7. PICK p \in Int, q \in Int, r \in Int :
            p = d * (2 * x) /\ q = d * (b + 2 * a) /\ r = b * (d + 2 * c)
    BY <1>3
  <1>8. 2 * y <= d + 2 * c
    <2>1. b * (2 * y) <= b * (d + 2 * c)
      BY <1>4, <1>5, <1>6, <1>7
    <2>2. 2 * y \in Int /\ d + 2 * c \in Int
      BY <1>3
    <2>3. QED  BY <2>1, <2>2, Cancel
  <1>9. z + d <= y
    <2>1. d * (m + 1) <= d * n
      BY Cancel
    <2>2. d * (m + 1) = d * m + d
      OBVIOUS
    <2>3. QED  BY <1>3, <2>1, <2>2
  <1>10. 2 * c <= d + 2 * z
    BY <1>2, <1>3
  <1>11. y = z + d /\ 2 * y = d + 2 * c /\ 2 * (c - z) = d
    BY <1>8, <1>9, <1>10
  <1>12. m % 2 = 0
    BY <1>2, <1>3, <1>11
  <1>13. n = m + 1
    <2>1. d * n = d * (m + 1)
      <3>1. d * (m + 1) = d * m + d
        OBVIOUS
      <3>2. QED  BY <1>3, <1>11, <3>1
    <2>2. QED  BY <2>1, Cancel
  <1>14. n % 2 = 0
    <2>1. p = r
      BY <1>4, <1>7, <1>11
    <2>2. d * (2 * x) = d * (b + 2 * a)
      BY <1>5, <1>6, <1>7, <2>1
    <2>3. 2 * x = b + 2 * a
      <3>1. 2 * x \in Int /\ b + 2 * a \in Int
        BY <1>3
      <3>2. QED  BY <2>2, <3>1, Cancel
    <2>4. 2 * (b * n - a) = b
      BY <1>3, <2>3
    <2>5. QED  BY <1>1, <2>4
  <1>15. QED  BY <1>12, <1>13, <1>14
=============================================================================
