----------------------------- MODULE Sums_proofs -----------------------------
(***************************************************************************)
(* Laws of finite sums.  MapThenSumSet takes the elements of a set away    *)
(* one by one; the induction over that is done with sets of naturals       *)
(* (NatInduct), since no operator can be passed to a theorem here.         *)
(***************************************************************************)
EXTENDS Sums, FiniteSetTheorems, WellFoundedInduction, TLAPS

(* The element that is taken away first, and the function that adds up the *)
(* values of f over the subsets of S in that order.                        *)
First(s) == CHOOSE x \in s : TRUE

Iterates(f, S, g) ==
  g = [s \in SUBSET S |-> IF s = {} THEN 0 ELSE f[First(s)] + g[s \ {First(s)}]]

Iter(f, S) == CHOOSE g : Iterates(f, S, g)

(* A set that is not empty has a first element. *)
LEMMA FirstIn == ASSUME NEW s, s # {} PROVE First(s) \in s
BY DEF First

(* Sum is the value of the iteration at the whole set. *)
LEMMA SumIsIter == \A f, S : Sum(f, S) = Iter(f, S)[S]
BY DEF Sum, MapThenSumSet, MapThenFoldSet, Iter, Iterates, First

(* An iteration that exists is the one Iter chooses. *)
LEMMA IterChosen == ASSUME NEW f, NEW S, NEW g, Iterates(f, S, g) PROVE Iterates(f, S, Iter(f, S))
BY DEF Iter

(* Induction over the naturals, with a set for the predicate. *)
LEMMA NatInduct ==
  ASSUME NEW P \in SUBSET Nat, 0 \in P, \A n \in P : n + 1 \in P
  PROVE  P = Nat
<1>1. SUFFICES ASSUME Nat \ P # {} PROVE FALSE
  OBVIOUS
<1>2. \E x \in Nat \ P : \A y \in Nat \ P : ~ (<<y, x>> \in OpToRel(<, Nat))
  BY <1>1, WFMin, NatLessThanWellFounded, Zenon
<1>3. \A a, b \in Nat : a < b => <<a, b>> \in OpToRel(<, Nat)
  BY DEF OpToRel
<1>4. PICK x \in Nat \ P : \A y \in Nat \ P : ~(y < x)
  BY <1>2, <1>3, Zenon
<1>5. x - 1 \in Nat /\ x - 1 < x
  BY <1>4
<1>6. x - 1 \in P
  BY <1>4, <1>5
<1> QED
  BY <1>4, <1>6

(***************************************************************************)
(* Induction over the subsets of a finite set; what is proved of them is   *)
(* given as a set.                                                         *)
(***************************************************************************)
LEMMA SubsetInduct ==
  ASSUME NEW S, IsFiniteSet(S), NEW P,
         \A T \in SUBSET S : (\A x \in T : T \ {x} \in P) => T \in P
  PROVE  \A T \in SUBSET S : T \in P
<1> DEFINE Q == {n \in Nat : \A T \in SUBSET S : Cardinality(T) = n => T \in P}
<1>1. \A T \in SUBSET S : IsFiniteSet(T) /\ Cardinality(T) \in Nat
  BY FS_Subset, FS_CardinalityType
<1>2. 0 \in Q
  BY <1>1, FS_EmptySet
<1>3. ASSUME NEW n \in Q PROVE n + 1 \in Q
  <2>1. ASSUME NEW T \in SUBSET S, Cardinality(T) = n + 1, NEW x \in T
        PROVE  T \ {x} \in P
    <3>1. Cardinality(T \ {x}) = n
      BY <1>1, <2>1, FS_RemoveElement
    <3> QED
      BY <1>3, <3>1
  <2> QED
    BY <2>1
<1> HIDE DEF Q
<1>4. Q = Nat
  BY <1>2, <1>3, NatInduct DEF Q
<1> QED
  BY <1>1, <1>4 DEF Q

(***************************************************************************)
(* The fold that Sum stands for exists.                                    *)
(***************************************************************************)
LEMMA IterExists ==
  ASSUME NEW S, IsFiniteSet(S), NEW f, \A x \in S : f[x] \in Int
  PROVE  \E g \in [SUBSET S -> Int] : Iterates(f, S, g)
<1> DEFINE Small(n) == {s \in SUBSET S : Cardinality(s) <= n}
           Value(g, s) == IF s = {} THEN 0 ELSE f[First(s)] + g[s \ {First(s)}]
           Q == {n \in Nat : \E g \in [Small(n) -> Int] : \A s \in Small(n) : g[s] = Value(g, s)}
<1>1. \A T \in SUBSET S : IsFiniteSet(T) /\ Cardinality(T) \in Nat
  BY FS_Subset, FS_CardinalityType
<1>2. \A s \in SUBSET S : s # {} =>
        /\ First(s) \in s
        /\ s \ {First(s)} \in SUBSET S
        /\ Cardinality(s \ {First(s)}) = Cardinality(s) - 1
  BY <1>1, FirstIn, FS_RemoveElement
<1>3. \A s \in SUBSET S : Cardinality(s) <= 0 => s = {}
  BY <1>1, FS_EmptySet
<1>4. 0 \in Q
  <2> DEFINE g == [s \in Small(0) |-> 0]
  <2>1. g \in [Small(0) -> Int] /\ \A s \in Small(0) : g[s] = Value(g, s)
    BY <1>3
  <2> QED
    BY <2>1
<1>5. ASSUME NEW n \in Q PROVE n + 1 \in Q
  <2>1. PICK h \in [Small(n) -> Int] : \A s \in Small(n) : h[s] = Value(h, s)
    BY <1>5
  <2> DEFINE g == [s \in Small(n + 1) |->
                     IF s = {} THEN 0 ELSE f[First(s)] + h[s \ {First(s)}]]
  <2>2. \A s \in Small(n + 1) : s # {} => s \ {First(s)} \in Small(n)
    BY <1>1, <1>2
  <2>3. g \in [Small(n + 1) -> Int]
    BY <1>2, <2>1, <2>2
  <2>4. \A s \in Small(n) : s \in Small(n + 1) /\ g[s] = h[s]
    BY <1>1, <2>1
  <2>5. \A s \in Small(n + 1) : g[s] = Value(g, s)
    BY <2>2, <2>4
  <2> HIDE DEF g, Small
  <2>6. \E k \in [Small(n + 1) -> Int] : \A s \in Small(n + 1) : k[s] = Value(k, s)
    BY <2>3, <2>5
  <2>7. n + 1 \in Nat
    BY <1>5
  <2> QED
    BY <2>6, <2>7, Zenon
<1> HIDE DEF Q
<1>6. Q = Nat
  BY <1>4, <1>5, NatInduct DEF Q
<1>7. Cardinality(S) \in Nat /\ Small(Cardinality(S)) = SUBSET S
  BY <1>1, FS_Subset
<1>8. PICK g \in [SUBSET S -> Int] : \A s \in SUBSET S : g[s] = Value(g, s)
  <2> HIDE DEF Small, Value
  <2> QED
    BY <1>6, <1>7, Zenon DEF Q
<1>9. Iterates(f, S, g)
  BY <1>8 DEF Iterates
<1> QED
  BY <1>9

(***************************************************************************)
(* All folds over the same values agree, and so do folds over larger sets. *)
(***************************************************************************)
LEMMA IterUnique ==
  ASSUME NEW S, IsFiniteSet(S), NEW f, \A x \in S : f[x] \in Int,
         NEW A, S \subseteq A, NEW g, Iterates(f, A, g),
         NEW B, S \subseteq B, NEW h, Iterates(f, B, h)
  PROVE  g[S] = h[S] /\ g[S] \in Int
<1> DEFINE P == {T \in SUBSET S : g[T] = h[T] /\ g[T] \in Int}
<1>1. ASSUME NEW T \in SUBSET S, \A x \in T : T \ {x} \in P
      PROVE  T \in P
  <2>1. T = {} => g[T] = 0 /\ h[T] = 0
    BY DEF Iterates
  <2>2. T # {} => /\ First(T) \in T
                  /\ g[T] = f[First(T)] + g[T \ {First(T)}]
                  /\ h[T] = f[First(T)] + h[T \ {First(T)}]
    BY FirstIn DEF Iterates
  <2> QED
    BY <1>1, <2>1, <2>2
<1> HIDE DEF P
<1>2. S \in P
  <2>1. \A T \in SUBSET S : (\A x \in T : T \ {x} \in P) => T \in P
    BY <1>1
  <2>2. \A T \in SUBSET S : T \in P
    BY <2>1, SubsetInduct
  <2> QED
    BY <2>2
<1> USE DEF P
<1> QED
  BY <1>2

(***************************************************************************)
(* Sum unfolds along the order in which the fold picks its elements ...    *)
(***************************************************************************)
LEMMA SumUnfold ==
  ASSUME NEW S, IsFiniteSet(S), NEW f, \A x \in S : f[x] \in Int
  PROVE  /\ Sum(f, S) \in Int
         /\ S = {} => Sum(f, S) = 0
         /\ S # {} => Sum(f, S) = f[First(S)] + Sum(f, S \ {First(S)})
<1>1. ASSUME NEW T \in SUBSET S PROVE Iterates(f, T, Iter(f, T)) /\ Sum(f, T) = Iter(f, T)[T]
  <2>1. IsFiniteSet(T)
    BY FS_Subset
  <2>2. \E g \in [SUBSET T -> Int] : Iterates(f, T, g)
    BY <2>1, IterExists
  <2> QED
    BY <2>2, IterChosen, SumIsIter
<1> DEFINE R == S \ {First(S)}
<1>2. IsFiniteSet(R) /\ R \in SUBSET S
  BY FS_Subset
<1>3. Iter(f, S)[R] = Iter(f, R)[R]
  BY <1>1, <1>2, IterUnique
<1>4. Sum(f, S) \in Int
  BY <1>1, IterUnique
<1>5. S = {} => Iter(f, S)[S] = 0
  BY <1>1 DEF Iterates
<1>6. S # {} => Iter(f, S)[S] = f[First(S)] + Iter(f, S)[R]
  BY <1>1 DEF Iterates
<1> QED
  BY <1>1, <1>2, <1>3, <1>4, <1>5, <1>6

(***************************************************************************)
(* ... and, addition being commutative, along any other order.             *)
(***************************************************************************)
THEOREM SumRemove ==
  ASSUME NEW S, IsFiniteSet(S), NEW f, \A x \in S : f[x] \in Int, NEW y \in S
  PROVE  Sum(f, S) = f[y] + Sum(f, S \ {y})
<1> DEFINE P == {T \in SUBSET S : \A x \in T : Sum(f, T) = f[x] + Sum(f, T \ {x})}
<1>1. ASSUME NEW T \in SUBSET S, \A x \in T : T \ {x} \in P, NEW x \in T
      PROVE  Sum(f, T) = f[x] + Sum(f, T \ {x})
  <2>1. \A U \in SUBSET S : IsFiniteSet(U)
    BY FS_Subset
  <2> DEFINE c == First(T)
  <2>2. c \in T /\ Sum(f, T) = f[c] + Sum(f, T \ {c})
    BY <2>1, SumUnfold, FirstIn
  <2>3. CASE c = x
    BY <2>2, <2>3
  <2>4. CASE c # x
    <3>1. Sum(f, T \ {c}) = f[x] + Sum(f, (T \ {c}) \ {x})
      BY <1>1, <2>2, <2>4
    <3>2. Sum(f, T \ {x}) = f[c] + Sum(f, (T \ {x}) \ {c})
      BY <1>1, <2>2, <2>4
    <3>3. Sum(f, (T \ {x}) \ {c}) = Sum(f, (T \ {c}) \ {x})
      <4>1. (T \ {x}) \ {c} = (T \ {c}) \ {x}
        OBVIOUS
      <4> QED
        BY <4>1, Zenon
    <3>4. Sum(f, (T \ {c}) \ {x}) \in Int /\ f[x] \in Int /\ f[c] \in Int
      <4>1. (T \ {c}) \ {x} \in SUBSET S /\ c \in S /\ x \in S
        BY <2>2
      <4> QED
        BY <2>1, <4>1, SumUnfold
    <3> HIDE DEF c
    <3> QED
      BY <2>2, <3>1, <3>2, <3>3, <3>4
  <2> QED
    BY <2>3, <2>4
<1>2. \A T \in SUBSET S : (\A x \in T : T \ {x} \in P) => T \in P
  BY <1>1
<1> HIDE DEF P
<1>3. \A T \in SUBSET S : T \in P
  BY <1>2, SubsetInduct
<1> QED
  BY <1>3 DEF P

(* The sum over no arguments is zero. *)
THEOREM SumEmpty == \A f : Sum(f, {}) = 0
BY SumUnfold, FS_EmptySet

(* A finite sum of integers is an integer. *)
THEOREM SumInt ==
  ASSUME NEW S, IsFiniteSet(S), NEW f, \A x \in S : f[x] \in Int
  PROVE  Sum(f, S) \in Int
BY SumUnfold

(***************************************************************************)
(* The sum over a set with one more element.                               *)
(***************************************************************************)
THEOREM SumAdd ==
  ASSUME NEW S, IsFiniteSet(S), NEW y, y \notin S,
         NEW f, \A x \in S \cup {y} : f[x] \in Int
  PROVE  Sum(f, S \cup {y}) = f[y] + Sum(f, S)
<1>1. IsFiniteSet(S \cup {y}) /\ (S \cup {y}) \ {y} = S
  BY FS_AddElement
<1> QED
  BY <1>1, SumRemove

(***************************************************************************)
(* Sums add up.                                                            *)
(***************************************************************************)
THEOREM SumPlus ==
  ASSUME NEW S, IsFiniteSet(S), NEW f, NEW g,
         \A x \in S : f[x] \in Int /\ g[x] \in Int
  PROVE  Sum([x \in S |-> f[x] + g[x]], S) = Sum(f, S) + Sum(g, S)
<1> DEFINE h == [x \in S |-> f[x] + g[x]]
           P == {T \in SUBSET S : Sum(h, T) = Sum(f, T) + Sum(g, T)}
<1>1. ASSUME NEW T \in SUBSET S, \A x \in T : T \ {x} \in P
      PROVE  T \in P
  <2>1. CASE T = {}
    BY <2>1, SumEmpty
  <2>2. CASE T # {}
    <3>1. PICK x \in T : TRUE
      BY <2>2
    <3>2. IsFiniteSet(T) /\ IsFiniteSet(T \ {x}) /\ T \ {x} \in P
      BY <1>1, FS_Subset
    <3>3. /\ Sum(f, T) = f[x] + Sum(f, T \ {x})
          /\ Sum(g, T) = g[x] + Sum(g, T \ {x})
          /\ Sum(h, T) = h[x] + Sum(h, T \ {x})
      BY <3>2, SumRemove
    <3>4. Sum(f, T \ {x}) \in Int /\ Sum(g, T \ {x}) \in Int
      BY <3>2, SumInt
    <3> QED
      BY <3>2, <3>3, <3>4
  <2> QED
    BY <2>1, <2>2
<1> HIDE DEF P
<1>2. \A T \in SUBSET S : T \in P
  BY <1>1, SubsetInduct
<1> QED
  BY <1>2 DEF P

(***************************************************************************)
(* Larger terms make a larger sum.                                         *)
(***************************************************************************)
THEOREM SumMonotone ==
  ASSUME NEW S, IsFiniteSet(S), NEW f, NEW g,
         \A x \in S : f[x] \in Int /\ g[x] \in Int /\ f[x] <= g[x]
  PROVE  Sum(f, S) <= Sum(g, S)
<1> DEFINE P == {T \in SUBSET S : Sum(f, T) <= Sum(g, T)}
<1>1. ASSUME NEW T \in SUBSET S, \A x \in T : T \ {x} \in P
      PROVE  T \in P
  <2>1. CASE T = {}
    BY <2>1, SumEmpty
  <2>2. CASE T # {}
    <3>1. PICK x \in T : TRUE
      BY <2>2
    <3>2. IsFiniteSet(T) /\ IsFiniteSet(T \ {x}) /\ T \ {x} \in P
      BY <1>1, FS_Subset
    <3>3. /\ Sum(f, T) = f[x] + Sum(f, T \ {x})
          /\ Sum(g, T) = g[x] + Sum(g, T \ {x})
      BY <3>2, SumRemove
    <3>4. Sum(f, T \ {x}) \in Int /\ Sum(g, T \ {x}) \in Int
      BY <3>2, SumInt
    <3> QED
      BY <3>2, <3>3, <3>4
  <2> QED
    BY <2>1, <2>2
<1> HIDE DEF P
<1>2. \A T \in SUBSET S : T \in P
  BY <1>1, SubsetInduct
<1> QED
  BY <1>2 DEF P

(***************************************************************************)
(* A sum depends on the terms it adds only.                                *)
(***************************************************************************)
THEOREM SumSame ==
  ASSUME NEW S, IsFiniteSet(S), NEW f, NEW g, \A x \in S : f[x] \in Int /\ f[x] = g[x]
  PROVE  Sum(f, S) = Sum(g, S)
<1>1. Sum(f, S) <= Sum(g, S) /\ Sum(g, S) <= Sum(f, S)
  BY SumMonotone
<1>2. Sum(f, S) \in Int /\ Sum(g, S) \in Int
  BY SumInt
<1> QED
  BY <1>1, <1>2

(***************************************************************************)
(* The sum over a subset, as a sum over the whole set.                     *)
(***************************************************************************)
THEOREM SumRestrict ==
  ASSUME NEW S, IsFiniteSet(S), NEW X \in SUBSET S,
         NEW f, \A x \in X : f[x] \in Int
  PROVE  Sum(f, X) = Sum([x \in S |-> IF x \in X THEN f[x] ELSE 0], S)
<1> DEFINE z == [x \in S |-> IF x \in X THEN f[x] ELSE 0]
           P == {T \in SUBSET S : Sum(f, T \cap X) = Sum(z, T)}
<1>1. ASSUME NEW T \in SUBSET S, \A x \in T : T \ {x} \in P
      PROVE  T \in P
  <2>1. CASE T = {}
    BY <2>1, SumEmpty
  <2>2. CASE T # {}
    <3>1. PICK x \in T : TRUE
      BY <2>2
    <3>2. IsFiniteSet(T) /\ IsFiniteSet(T \ {x}) /\ T \ {x} \in P
      BY <1>1, FS_Subset
    <3>3. Sum(z, T) = z[x] + Sum(z, T \ {x}) /\ Sum(z, T \ {x}) \in Int
      BY <3>2, SumRemove, SumInt
    <3>4. CASE x \in X
      <4>1. (T \cap X) \ {x} = (T \ {x}) \cap X /\ x \in T \cap X
        BY <3>4
      <4>2. IsFiniteSet(T \cap X)
        BY FS_Subset
      <4>3. Sum(f, T \cap X) = f[x] + Sum(f, (T \cap X) \ {x})
        BY <4>1, <4>2, SumRemove
      <4> QED
        BY <3>2, <3>3, <3>4, <4>1, <4>3
    <3>5. CASE x \notin X
      <4>1. (T \ {x}) \cap X = T \cap X
        BY <3>5
      <4>2. z[x] = 0
        BY <3>5
      <4>3. Sum(f, (T \ {x}) \cap X) = Sum(z, T \ {x})
        BY <3>2
      <4>4. Sum(f, T \cap X) = Sum(f, (T \ {x}) \cap X)
        BY <4>1, Zenon
      <4> HIDE DEF z
      <4>5. Sum(z, T) = Sum(z, T \ {x})
        BY <3>3, <4>2
      <4> QED
        BY <4>3, <4>4, <4>5
    <3> QED
      BY <3>4, <3>5
  <2> QED
    BY <2>1, <2>2
<1> HIDE DEF P
<1>2. \A T \in SUBSET S : T \in P
  BY <1>1, SubsetInduct
<1>3. S \cap X = X
  OBVIOUS
<1> QED
  BY <1>2, <1>3 DEF P

(***************************************************************************)
(* A sum of terms that are not negative grows with the set.                *)
(***************************************************************************)
THEOREM SumSubset ==
  ASSUME NEW S, IsFiniteSet(S), NEW X \in SUBSET S,
         NEW f, \A x \in S : f[x] \in Nat
  PROVE  Sum(f, X) <= Sum(f, S)
<1> DEFINE z == [x \in S |-> IF x \in X THEN f[x] ELSE 0]
<1>1. Sum(f, X) = Sum(z, S)
  BY SumRestrict
<1>2. \A x \in S : z[x] \in Int /\ f[x] \in Int /\ z[x] <= f[x]
  OBVIOUS
<1> HIDE DEF z
<1>3. Sum(z, S) <= Sum(f, S)
  BY <1>2, SumMonotone
<1> QED
  BY <1>1, <1>3

(***************************************************************************)
(* Adding up the values of c at different places gives at most all of c.   *)
(***************************************************************************)
THEOREM SumReindex ==
  ASSUME NEW S, IsFiniteSet(S), NEW R, IsFiniteSet(R),
         NEW r, \A x \in S : r[x] \in R, \A x, y \in S : r[x] = r[y] => x = y,
         NEW c, \A y \in R : c[y] \in Nat
  PROVE  Sum([x \in S |-> c[r[x]]], S) <= Sum(c, R)
<1> DEFINE k == [x \in S |-> c[r[x]]]
           Img(T) == {r[x] : x \in T}
           P == {T \in SUBSET S : Sum(k, T) = Sum(c, Img(T))}
<1>1. ASSUME NEW T \in SUBSET S, \A x \in T : T \ {x} \in P
      PROVE  T \in P
  <2>1. CASE T = {}
    BY <2>1, SumEmpty
  <2>2. CASE T # {}
    <3>1. PICK x \in T : TRUE
      BY <2>2
    <3>2. IsFiniteSet(T) /\ IsFiniteSet(T \ {x}) /\ T \ {x} \in P
      BY <1>1, FS_Subset
    <3>3. Sum(k, T) = k[x] + Sum(k, T \ {x})
      BY <3>2, SumRemove
    <3>4. Img(T) \ {r[x]} = Img(T \ {x}) /\ r[x] \in Img(T) /\ Img(T) \in SUBSET R
      OBVIOUS
    <3>5. IsFiniteSet(Img(T))
      BY <3>4, FS_Subset
    <3>6. Sum(c, Img(T)) = c[r[x]] + Sum(c, Img(T) \ {r[x]})
      BY <3>4, <3>5, SumRemove
    <3> QED
      BY <3>2, <3>3, <3>4, <3>6
  <2> QED
    BY <2>1, <2>2
<1> HIDE DEF P
<1>2. \A T \in SUBSET S : T \in P
  BY <1>1, SubsetInduct
<1>3. Sum(k, S) = Sum(c, Img(S))
  BY <1>2 DEF P
<1>4. Sum(c, Img(S)) <= Sum(c, R)
  BY SumSubset
<1> QED
  BY <1>3, <1>4
=============================================================================
