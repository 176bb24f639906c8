------------------------ MODULE EngineTotals_proofs ------------------------
(***************************************************************************)
(* Totals the engine keeps or that measure it: the volume of a level       *)
(* against what its orders show, and the quantities by which a call comes  *)
(* to an end.                                                              *)
(*                                                                         *)
(* Both are about sums over orders and activations.  The first part shows  *)
(* what SumFunctionOnSet, a recursion that picks the elements in an order  *)
(* of its own, computes for every finite set: it exists, does not depend   *)
(* on the order, and changes by one term when one element is added.        *)
(***************************************************************************)
EXTENDS EngineSafety_proofs, FiniteSetTheorems

(* Induction over the natural numbers, about a set instead of a predicate:*)
(* the provers cannot instantiate a theorem that is about an operator.     *)
LEMMA Induct ==
  ASSUME NEW S, 0 \in S, \A n \in Nat : n \in S => n + 1 \in S
  PROVE  \A n \in Nat : n \in S
<1> DEFINE T == {n \in Nat : n \notin S}
<1>1. SUFFICES ASSUME T # {} PROVE FALSE
  OBVIOUS
<1>2. PICK n \in T : \A m \in T : n <= m
  BY <1>1, LeastNat
<1>3. n # 0 /\ n - 1 \in Nat /\ (n - 1) + 1 = n
  OBVIOUS
<1>4. n - 1 \in S
  BY <1>2, <1>3
<1> QED BY <1>3, <1>4

(* The recursion by which SumFunctionOnSet adds up. *)
Some(s) == CHOOSE x \in s : TRUE

IsIter(g, f, S) ==
  g = [s \in SUBSET S |-> IF s = {} THEN 0 ELSE f[Some(s)] + g[s \ {Some(s)}]]

LEMMA SumIsIter ==
  ASSUME NEW f, NEW S, NEW g, IsIter(g, f, S)
  PROVE  \E h : IsIter(h, f, S) /\ SumFunctionOnSet(f, S) = h[S]
<1> DEFINE h == CHOOSE h : IsIter(h, f, S)
<1>1. IsIter(h, f, S)
  OBVIOUS
<1>2. SumFunctionOnSet(f, S) = h[S]
  BY DEF SumFunctionOnSet, FoldFunctionOnSet, MapThenFoldSet, IsIter, Some
<1> QED BY <1>1, <1>2

LEMMA TakeOne ==
  ASSUME NEW T, IsFiniteSet(T), NEW n \in Nat, Cardinality(T) = n + 1
  PROVE  /\ T # {}
         /\ \A x \in T : Cardinality(T \ {x}) = n
<1>1. T # {}
  BY FS_EmptySet
<1>2. ASSUME NEW x \in T PROVE Cardinality(T \ {x}) = n
  BY FS_RemoveElement
<1> QED BY <1>1, <1>2

(* Induction on the size of a finite set. *)
LEMMA FiniteInduct ==
  ASSUME NEW S, IsFiniteSet(S), NEW G,
         \A T \in SUBSET S : (\A x \in T : T \ {x} \in G) => T \in G
  PROVE  \A T \in SUBSET S : T \in G
<1> DEFINE N == {n \in Nat : \A T \in SUBSET S : Cardinality(T) = n => T \in G}
<1>1. \A T \in SUBSET S : IsFiniteSet(T) /\ Cardinality(T) \in Nat
  BY FS_Subset, FS_CardinalityType
<1>2. 0 \in N
  <2>1. SUFFICES ASSUME NEW T \in SUBSET S, Cardinality(T) = 0 PROVE T \in G
    OBVIOUS
  <2>2. T = {}
    BY <1>1, <2>1, FS_EmptySet
  <2> QED BY <2>2
<1>3. ASSUME NEW n \in Nat, n \in N PROVE n + 1 \in N
  <2>1. SUFFICES ASSUME NEW T \in SUBSET S, Cardinality(T) = n + 1 PROVE T \in G
    OBVIOUS
  <2>2. \A x \in T : Cardinality(T \ {x}) = n
    BY <1>1, <2>1, TakeOne
  <2>3. \A x \in T : T \ {x} \in G
    BY <1>3, <2>2
  <2> QED BY <2>3
<1>4. \A n \in Nat : n \in N
  <2> HIDE DEF N
  <2> QED BY <1>2, <1>3, Induct
<1> QED BY <1>1, <1>4

LEMMA IterExists ==
  ASSUME NEW f, NEW S, IsFiniteSet(S)
  PROVE  \E g : IsIter(g, f, S)
<1> DEFINE Value(g, T) == IF T = {} THEN 0 ELSE f[Some(T)] + g[T \ {Some(T)}]
           Upto(g, n) == /\ g = [T \in SUBSET S |-> g[T]]
                         /\ \A T \in SUBSET S : Cardinality(T) <= n => g[T] = Value(g, T)
           N == {n \in Nat : \E g : Upto(g, n)}
<1>1. \A T \in SUBSET S : IsFiniteSet(T) /\ Cardinality(T) \in Nat /\ Cardinality(T) <= Cardinality(S)
  BY FS_Subset, FS_CardinalityType
<1>2. \A T \in SUBSET S : T # {} => /\ Some(T) \in T
                                    /\ T \ {Some(T)} \in SUBSET S
                                    /\ Cardinality(T \ {Some(T)}) = Cardinality(T) - 1
  <2>1. \A T \in SUBSET S : T # {} => Some(T) \in T
    BY DEF Some
  <2> QED BY <1>1, <2>1, FS_RemoveElement
<1>3. 0 \in N
  <2> DEFINE g == [T \in SUBSET S |-> 0]
  <2>1. \A T \in SUBSET S : Cardinality(T) <= 0 => T = {}
    BY <1>1, FS_EmptySet
  <2>2. Upto(g, 0)
    BY <2>1
  <2> QED BY <2>2
<1>4. ASSUME NEW n \in Nat, n \in N PROVE n + 1 \in N
  <2>1. PICK g : Upto(g, n)
    BY <1>4
  <2> DEFINE h == [T \in SUBSET S |-> IF Cardinality(T) = n + 1 THEN Value(g, T) ELSE g[T]]
  <2>2. \A T \in SUBSET S : T # {} /\ Cardinality(T) <= n + 1 =>
          h[T \ {Some(T)}] = g[T \ {Some(T)}]
    BY <1>1, <1>2
  <2>3. ASSUME NEW T \in SUBSET S, Cardinality(T) <= n + 1 PROVE h[T] = Value(g, T)
    <3>1. CASE Cardinality(T) = n + 1
      BY <3>1
    <3>2. CASE Cardinality(T) # n + 1
      <4>1. Cardinality(T) <= n
        BY <1>1, <2>3, <3>2
      <4>2. h[T] = g[T]
        BY <3>2
      <4> HIDE DEF h, Value
      <4> QED BY <2>1, <4>1, <4>2
    <3> QED BY <3>1, <3>2
  <2>4. Upto(h, n + 1)
    <3>1. \A T \in SUBSET S : Cardinality(T) <= n + 1 => Value(g, T) = Value(h, T)
      BY <2>2
    <3>2. h = [T \in SUBSET S |-> h[T]]
      OBVIOUS
    <3> HIDE DEF h, Value
    <3> QED BY <2>3, <3>1, <3>2
  <2>5. n + 1 \in Nat
    OBVIOUS
  <2> HIDE DEF h, Upto
  <2> QED BY <2>4, <2>5
<1>5. \A n \in Nat : n \in N
  <2> HIDE DEF N
  <2> QED BY <1>3, <1>4, Induct
<1>6. PICK g : Upto(g, Cardinality(S))
  BY <1>1, <1>5
<1>7. \A T \in SUBSET S : g[T] = Value(g, T)
  BY <1>1, <1>6
<1>8. g = [T \in SUBSET S |-> Value(g, T)]
  BY <1>6, <1>7
<1> QED BY <1>8 DEF IsIter

LEMMA IterUnique ==
  ASSUME NEW f, NEW S, IsFiniteSet(S), NEW T \in SUBSET S, NEW g, NEW h,
         IsIter(g, f, S), IsIter(h, f, T)
  PROVE  g[T] = h[T]
<1> DEFINE G == {U \in SUBSET T : g[U] = h[U]}
<1>1. IsFiniteSet(T)
  BY FS_Subset
<1>2. \A U \in SUBSET T :
        /\ g[U] = IF U = {} THEN 0 ELSE f[Some(U)] + g[U \ {Some(U)}]
        /\ h[U] = IF U = {} THEN 0 ELSE f[Some(U)] + h[U \ {Some(U)}]
  BY DEF IsIter
<1>3. ASSUME NEW U \in SUBSET T, \A x \in U : U \ {x} \in G PROVE U \in G
  <2>1. U # {} => Some(U) \in U
    BY DEF Some
  <2> QED BY <1>2, <1>3, <2>1
<1>4. \A U \in SUBSET T : U \in G
  <2> HIDE DEF G
  <2> QED BY <1>1, <1>3, FiniteInduct
<1> QED BY <1>4

LEMMA SumOfIter ==
  ASSUME NEW f, NEW S, IsFiniteSet(S)
  PROVE  \E g : /\ IsIter(g, f, S)
                /\ \A T \in SUBSET S : SumFunctionOnSet(f, T) = g[T]
<1>1. PICK g : IsIter(g, f, S)
  BY IterExists
<1>2. ASSUME NEW T \in SUBSET S PROVE SumFunctionOnSet(f, T) = g[T]
  <2>1. IsFiniteSet(T)
    BY FS_Subset
  <2>2. PICK h : IsIter(h, f, T) /\ SumFunctionOnSet(f, T) = h[T]
    BY <2>1, IterExists, SumIsIter
  <2> QED BY <1>1, <2>2, IterUnique
<1> QED BY <1>1, <1>2

IntOn(f, S) == \A x \in S : f[x] \in Int

(* The sum of integers is an integer and does not depend on the order. *)
LEMMA SumLaws ==
  ASSUME NEW f, NEW S, IsFiniteSet(S), IntOn(f, S)
  PROVE  /\ SumFunctionOnSet(f, {}) = 0
         /\ SumFunctionOnSet(f, S) \in Int
         /\ \A x \in S : SumFunctionOnSet(f, S) = f[x] + SumFunctionOnSet(f, S \ {x})
<1>1. PICK g : /\ IsIter(g, f, S)
               /\ \A T \in SUBSET S : SumFunctionOnSet(f, T) = g[T]
  BY SumOfIter
<1>2. \A T \in SUBSET S : IsFiniteSet(T) /\ Cardinality(T) \in Nat
  BY FS_Subset, FS_CardinalityType
<1>3. \A T \in SUBSET S : g[T] = IF T = {} THEN 0 ELSE f[Some(T)] + g[T \ {Some(T)}]
  BY <1>1 DEF IsIter
<1>4. \A T \in SUBSET S : T # {} => Some(T) \in T
  BY DEF Some
<1>5. \A T \in SUBSET S : g[T] \in Int
  <2> DEFINE G == {T \in SUBSET S : g[T] \in Int}
  <2>1. ASSUME NEW T \in SUBSET S, \A x \in T : T \ {x} \in G PROVE T \in G
    <3>1. CASE T = {}
      <4>1. g[T] = 0
        BY <1>3, <3>1
      <4> QED BY <4>1
    <3>2. CASE T # {}
      <4>1. Some(T) \in T /\ f[Some(T)] \in Int
        BY <1>4, <3>2 DEF IntOn
      <4>2. g[T \ {Some(T)}] \in Int
        BY <2>1, <4>1
      <4>3. g[T] = f[Some(T)] + g[T \ {Some(T)}]
        BY <1>3, <3>2
      <4> QED BY <4>1, <4>2, <4>3
    <3> QED BY <3>1, <3>2
  <2>2. \A T \in SUBSET S : T \in G
    <3> HIDE DEF G
    <3> QED BY <2>1, FiniteInduct
  <2> QED BY <2>2
<1>6. \A T \in SUBSET S : \A x \in T : g[T] = f[x] + g[T \ {x}]
  <2> DEFINE G == {T \in SUBSET S : \A x \in T : g[T] = f[x] + g[T \ {x}]}
  <2>1. ASSUME NEW T \in SUBSET S, \A x \in T : T \ {x} \in G PROVE T \in G
    <3>1. SUFFICES ASSUME NEW x \in T PROVE g[T] = f[x] + g[T \ {x}]
      OBVIOUS
    <3> DEFINE y == Some(T)
    <3>2. y \in T /\ f[y] \in Int /\ f[x] \in Int
      BY <1>4 DEF IntOn
    <3>3. g[T] = f[y] + g[T \ {y}]
      BY <1>3
    <3> HIDE DEF y
    <3>4. ASSUME x # y PROVE g[T] = f[x] + g[T \ {x}]
      <4> DEFINE U == (T \ {x}) \ {y}
      <4>1. /\ x \in T \ {y} /\ y \in T \ {x} /\ (T \ {y}) \ {x} = U
            /\ U \in SUBSET S
        BY <3>2, <3>4
      <4>2. T \ {y} \in G /\ T \ {x} \in G
        BY <2>1, <3>2
      <4>3. g[T \ {y}] = f[x] + g[(T \ {y}) \ {x}]
        BY <4>1, <4>2
      <4>4. g[T \ {x}] = f[y] + g[U]
        BY <4>1, <4>2
      <4>5. g[U] \in Int
        BY <1>5, <4>1
      <4>6. g[T \ {y}] = f[x] + g[U]
        BY <4>1, <4>3
      <4> HIDE DEF U, G
      <4>7. g[T] = f[y] + (f[x] + g[U])
        BY <3>3, <4>6
      <4>8. f[y] + (f[x] + g[U]) = f[x] + (f[y] + g[U])
        BY <3>2, <4>5
      <4> QED BY <4>4, <4>7, <4>8
    <3> QED BY <3>3, <3>4
  <2>2. \A T \in SUBSET S : T \in G
    <3> HIDE DEF G
    <3> QED BY <2>1, FiniteInduct
  <2> QED BY <2>2
<1>7. SumFunctionOnSet(f, {}) = 0
  <2>1. g[{}] = 0
    BY <1>3
  <2> QED BY <1>1, <2>1
<1>8. S \in SUBSET S /\ \A x \in S : S \ {x} \in SUBSET S
  OBVIOUS
<1> QED BY <1>1, <1>5, <1>6, <1>7, <1>8

-----------------------------------------------------------------------------
(* From here on sums are known by these facts only. *)
Sum(f, S) == SumFunctionOnSet(f, S)

LEMMA SumType ==
  ASSUME NEW f, NEW S, IsFiniteSet(S), IntOn(f, S)
  PROVE  Sum(f, {}) = 0 /\ Sum(f, S) \in Int
BY SumLaws DEF Sum

LEMMA SumWithout ==
  ASSUME NEW f, NEW S, IsFiniteSet(S), IntOn(f, S), NEW x \in S
  PROVE  /\ Sum(f, S \ {x}) \in Int
         /\ Sum(f, S) = f[x] + Sum(f, S \ {x})
<1>1. IsFiniteSet(S \ {x}) /\ IntOn(f, S \ {x})
  BY FS_RemoveElement DEF IntOn
<1> QED BY <1>1, SumLaws DEF Sum

LEMMA SumWith ==
  ASSUME NEW f, NEW S, NEW x, IsFiniteSet(S), IntOn(f, S \cup {x}), x \notin S
  PROVE  /\ f[x] \in Int /\ Sum(f, S) \in Int
         /\ Sum(f, S \cup {x}) = Sum(f, S) + f[x]
<1>1. IsFiniteSet(S \cup {x}) /\ (S \cup {x}) \ {x} = S /\ x \in S \cup {x}
  BY FS_AddElement
<1>2. f[x] \in Int /\ IntOn(f, S)
  BY DEF IntOn
<1>3. Sum(f, S) \in Int
  BY <1>2, SumType
<1>4. Sum(f, S \cup {x}) = f[x] + Sum(f, S)
  BY <1>1, SumWithout
<1> QED BY <1>2, <1>3, <1>4

(* Smaller terms, smaller sum. *)
LEMMA SumMonotone ==
  ASSUME NEW f, NEW g, NEW S, IsFiniteSet(S), IntOn(f, S), IntOn(g, S),
         \A x \in S : f[x] <= g[x]
  PROVE  Sum(f, S) <= Sum(g, S)
<1> DEFINE G == {T \in SUBSET S : Sum(f, T) <= Sum(g, T)}
<1>1. ASSUME NEW T \in SUBSET S, \A x \in T : T \ {x} \in G PROVE T \in G
  <2>1. CASE T = {}
    <3>1. Sum(f, T) = 0 /\ Sum(g, T) = 0
      BY <2>1, SumType
    <3> QED BY <3>1
  <2>2. CASE T # {}
    <3>1. PICK x \in T : TRUE
      BY <2>2
    <3>2. IsFiniteSet(T) /\ IntOn(f, T) /\ IntOn(g, T)
      BY FS_Subset DEF IntOn
    <3>3. /\ Sum(f, T) = f[x] + Sum(f, T \ {x}) /\ Sum(f, T \ {x}) \in Int
          /\ Sum(g, T) = g[x] + Sum(g, T \ {x}) /\ Sum(g, T \ {x}) \in Int
      BY <3>2, SumWithout
    <3>4. Sum(f, T \ {x}) <= Sum(g, T \ {x})
      BY <1>1
    <3>5. f[x] \in Int /\ g[x] \in Int /\ f[x] <= g[x]
      BY DEF IntOn
    <3>6. Sum(f, T) <= Sum(g, T)
      BY <3>3, <3>4, <3>5
    <3> QED BY <3>6
  <2> QED BY <2>1, <2>2
<1>2. \A T \in SUBSET S : T \in G
  <2> HIDE DEF G
  <2> QED BY <1>1, FiniteInduct
<1> QED BY <1>2

LEMMA SumSame ==
  ASSUME NEW f, NEW g, NEW S, IsFiniteSet(S), IntOn(f, S), \A x \in S : f[x] = g[x]
  PROVE  Sum(f, S) = Sum(g, S)
<1>1. IntOn(g, S)
  BY DEF IntOn
<1>2. Sum(f, S) \in Int /\ Sum(g, S) \in Int
  BY <1>1, SumType
<1>3. \A x \in S : f[x] <= g[x] /\ g[x] <= f[x]
  BY <1>1 DEF IntOn
<1>4. Sum(f, S) <= Sum(g, S) /\ Sum(g, S) <= Sum(f, S)
  BY <1>1, <1>3, SumMonotone
<1> QED BY <1>2, <1>4

LEMMA SumUpdate ==
  ASSUME NEW f, NEW g, NEW S, IsFiniteSet(S), IntOn(f, S), IntOn(g, S), NEW x \in S,
         \A y \in S \ {x} : f[y] = g[y]
  PROVE  /\ Sum(f, S) \in Int /\ Sum(g, S) \in Int /\ f[x] \in Int /\ g[x] \in Int
         /\ Sum(g, S) = Sum(f, S) - f[x] + g[x]
<1>1. IsFiniteSet(S \ {x}) /\ IntOn(f, S \ {x}) /\ f[x] \in Int /\ g[x] \in Int
  BY FS_RemoveElement DEF IntOn
<1>2. Sum(f, S \ {x}) = Sum(g, S \ {x})
  BY <1>1, SumSame
<1>3. /\ Sum(f, S) = f[x] + Sum(f, S \ {x}) /\ Sum(f, S \ {x}) \in Int
      /\ Sum(g, S) = g[x] + Sum(g, S \ {x})
  BY SumWithout
<1> QED BY <1>1, <1>2, <1>3

(* The same terms under other names. *)
LEMMA SumRenamed ==
  ASSUME NEW f, NEW g, NEW S, NEW h, IsFiniteSet(S), IntOn(f, S),
         \A x, y \in S : h[x] = h[y] => x = y,
         \A x \in S : g[h[x]] = f[x]
  PROVE  Sum(f, S) = Sum(g, {h[x] : x \in S})
<1> DEFINE Img(T) == {h[x] : x \in T}
           G == {T \in SUBSET S : IsFiniteSet(Img(T)) /\ Sum(f, T) = Sum(g, Img(T))}
<1>1. ASSUME NEW T \in SUBSET S, \A x \in T : T \ {x} \in G PROVE T \in G
  <2>1. CASE T = {}
    <3>1. Img(T) = {} /\ IsFiniteSet({}) /\ IntOn(f, {}) /\ IntOn(g, {})
      BY <2>1, FS_EmptySet DEF IntOn
    <3>2. Sum(f, {}) = 0 /\ Sum(g, {}) = 0
      BY <3>1, SumType
    <3> QED BY <2>1, <3>1, <3>2
  <2>2. CASE T # {}
    <3>1. PICK x \in T : TRUE
      BY <2>2
    <3> DEFINE U == T \ {x}
    <3>2. IsFiniteSet(T) /\ IntOn(f, T) /\ U \in SUBSET S
      BY FS_Subset DEF IntOn
    <3>3. Sum(f, T) = f[x] + Sum(f, U) /\ Sum(f, U) \in Int /\ f[x] \in Int
      BY <3>2, SumWithout DEF IntOn
    <3>4. IsFiniteSet(Img(U)) /\ Sum(f, U) = Sum(g, Img(U))
      BY <1>1
    <3>5. h[x] \notin Img(U) /\ Img(T) = Img(U) \cup {h[x]}
      <4>1. h[x] \notin Img(U)
        OBVIOUS
      <4>2. Img(T) = Img(U) \cup {h[x]}
        OBVIOUS
      <4> QED BY <4>1, <4>2
    <3>6. IntOn(g, Img(U) \cup {h[x]})
      BY <3>2 DEF IntOn
    <3> DEFINE V == Img(U)
               z == h[x]
    <3>11. IsFiniteSet(V) /\ z \notin V /\ IntOn(g, V \cup {z})
      BY <3>4, <3>5, <3>6
    <3> HIDE DEF Img, U
    <3>7. Sum(g, V \cup {z}) = Sum(g, V) + g[z]
      <4> HIDE DEF V, z
      <4> QED BY <3>11, SumWith
    <3>10. Sum(g, Img(T)) = Sum(g, Img(U)) + g[h[x]]
      BY <3>5, <3>7
    <3>8. IsFiniteSet(Img(T))
      BY <3>4, <3>5, FS_AddElement
    <3>9. Sum(f, T) = Sum(g, Img(T))
      BY <3>3, <3>4, <3>10
    <3> QED BY <3>8, <3>9
  <2> QED BY <2>1, <2>2
<1>2. \A T \in SUBSET S : T \in G
  <2> HIDE DEF G
  <2> QED BY <1>1, FiniteInduct
<1> QED BY <1>2

(* Leaving out terms that are not negative. *)
LEMMA SumSubset ==
  ASSUME NEW f, NEW S, IsFiniteSet(S), IntOn(f, S), NEW R \in SUBSET S,
         \A x \in S \ R : f[x] >= 0
  PROVE  Sum(f, R) <= Sum(f, S)
<1> DEFINE G == {T \in SUBSET S : Sum(f, T \cap R) <= Sum(f, T)}
<1>1. ASSUME NEW T \in SUBSET S, \A x \in T : T \ {x} \in G PROVE T \in G
  <2>1. IsFiniteSet(T) /\ IntOn(f, T) /\ IsFiniteSet(T \cap R) /\ IntOn(f, T \cap R)
    BY FS_Subset DEF IntOn
  <2>2. Sum(f, T) \in Int
    BY <2>1, SumType
  <2>3. CASE T = {}
    <3>1. T \cap R = T
      BY <2>3
    <3>2. Sum(f, T \cap R) <= Sum(f, T)
      BY <2>2, <3>1
    <3> QED BY <3>2
  <2>4. CASE T # {}
    <3>1. PICK x \in T : TRUE
      BY <2>4
    <3>2. Sum(f, T) = f[x] + Sum(f, T \ {x}) /\ Sum(f, T \ {x}) \in Int /\ f[x] \in Int
      BY <2>1, SumWithout DEF IntOn
    <3>3. Sum(f, (T \ {x}) \cap R) <= Sum(f, T \ {x})
      BY <1>1
    <3>4. CASE x \in R
      <4>1. x \in T \cap R /\ (T \cap R) \ {x} = (T \ {x}) \cap R
        BY <3>4
      <4>2. /\ Sum(f, T \cap R) = f[x] + Sum(f, (T \ {x}) \cap R)
            /\ Sum(f, (T \ {x}) \cap R) \in Int
        BY <2>1, <4>1, SumWithout
      <4>3. Sum(f, T \cap R) <= Sum(f, T)
        BY <3>2, <3>3, <4>2
      <4> QED BY <4>3
    <3>5. CASE x \notin R
      <4>1. T \cap R = (T \ {x}) \cap R /\ f[x] >= 0
        BY <3>5
      <4>2. Sum(f, T \cap R) \in Int
        BY <2>1, SumType
      <4>3. Sum(f, T \cap R) <= Sum(f, T \ {x})
        BY <3>3, <4>1
      <4>4. Sum(f, T \cap R) <= Sum(f, T)
        BY <3>2, <4>1, <4>2, <4>3
      <4> QED BY <4>4
    <3> QED BY <3>4, <3>5
  <2> QED BY <2>3, <2>4
<1>2. \A T \in SUBSET S : T \in G
  <2> HIDE DEF G
  <2> QED BY <1>1, FiniteInduct
<1>3. S \cap R = R
  OBVIOUS
<1> QED BY <1>2, <1>3

(* The sum over two sets that have nothing in common. *)
LEMMA SumUnion ==
  ASSUME NEW f, NEW S, NEW R, IsFiniteSet(S), IsFiniteSet(R), IntOn(f, S), IntOn(f, R),
         S \cap R = {}
  PROVE  /\ Sum(f, S) \in Int /\ Sum(f, R) \in Int
         /\ Sum(f, S \cup R) = Sum(f, S) + Sum(f, R)
<1> DEFINE G == {T \in SUBSET R : Sum(f, S \cup T) = Sum(f, S) + Sum(f, T)}
<1>0. Sum(f, S) \in Int /\ Sum(f, R) \in Int
  BY SumType
<1>1. ASSUME NEW T \in SUBSET R, \A x \in T : T \ {x} \in G PROVE T \in G
  <2>1. CASE T = {}
    <3>1. S \cup T = S /\ Sum(f, T) = 0
      BY <2>1, SumType
    <3>2. Sum(f, S \cup T) = Sum(f, S) + Sum(f, T)
      BY <1>0, <3>1
    <3> QED BY <3>2
  <2>2. CASE T # {}
    <3>1. PICK x \in T : TRUE
      BY <2>2
    <3>2. IsFiniteSet(T) /\ IntOn(f, T) /\ IsFiniteSet(S \cup T) /\ IntOn(f, S \cup T)
      BY FS_Subset, FS_Union DEF IntOn
    <3>3. Sum(f, T) = f[x] + Sum(f, T \ {x}) /\ Sum(f, T \ {x}) \in Int
      <4>1. IsFiniteSet(T) /\ IntOn(f, T)
        BY <3>2
      <4> QED BY <4>1, SumWithout
    <3>8. f[x] \in Int
      BY <3>2 DEF IntOn
    <3>4. x \in S \cup T /\ (S \cup T) \ {x} = S \cup (T \ {x})
      OBVIOUS
    <3>9. Sum(f, S \cup T) = f[x] + Sum(f, (S \cup T) \ {x})
      <4> DEFINE W == S \cup T
      <4>1. IsFiniteSet(W) /\ IntOn(f, W) /\ x \in W
        BY <3>2, <3>4
      <4> HIDE DEF W
      <4>2. Sum(f, W) = f[x] + Sum(f, W \ {x})
        BY <4>1, SumWithout
      <4> QED BY <4>2 DEF W
    <3>5. Sum(f, S \cup T) = f[x] + Sum(f, S \cup (T \ {x}))
      BY <3>4, <3>9
    <3>6. Sum(f, S \cup (T \ {x})) = Sum(f, S) + Sum(f, T \ {x})
      BY <1>1
    <3>7. Sum(f, S \cup T) = Sum(f, S) + Sum(f, T)
      BY <1>0, <3>3, <3>5, <3>6, <3>8
    <3> QED BY <3>7
  <2> QED BY <2>1, <2>2
<1>2. \A T \in SUBSET R : T \in G
  <2> HIDE DEF G
  <2> QED BY <1>1, FiniteInduct
<1> QED BY <1>0, <1>2

-----------------------------------------------------------------------------
(* The volume of a level.                                                  *)

LEMMA QueuedFinite ==
  ASSUME NEW level, Proper(level)
  PROVE  IsFiniteSet(Queued(level)) /\ IsFiniteSet(Alive(level))
<1> DEFINE n == Len(level.queue)
           f == [i \in 1..n |-> level.queue[i]]
<1>1. n \in Nat
  BY DEF Proper, Levels
<1>2. IsFiniteSet(1..n)
  BY <1>1, FS_Interval
<1>3. f \in Surjection(1..n, Queued(level))
  BY DEF Surjection, Queued
<1>4. IsFiniteSet(Queued(level))
  BY <1>2, <1>3, FS_Surjection
<1> QED BY <1>4, FS_Difference DEF Alive

(* What the orders of a book show, and the volume it stores for a price. *)
Visible(b) == [id \in DOMAIN b.id_map |-> visible_qty(b.id_map[id])]
ShownBy(b, id) == IF has_order(b, id) THEN visible_qty(b.id_map[id]) ELSE 0
VolumeAt(b, side, price) ==
  IF HasLevel(b, side, price) THEN b.levels[side][price].total_volume ELSE 0

CoveredAt(b, side, price) ==
  VolumeAt(b, side, price) >= Sum(Visible(b), Located(b, side, price))
Covered(b) == \A side \in Sides : \A price \in Prices : CoveredAt(b, side, price)

LEMMA LocatedFinite ==
  ASSUME NEW b, Sound(b), NEW side \in Sides, NEW price \in Prices
  PROVE  /\ IsFiniteSet(Located(b, side, price))
         /\ IntOn(Visible(b), Located(b, side, price))
         /\ VolumeAt(b, side, price) \in Nat
<1>1. LevelSound(b, side, price) /\ IsBook(b)
  BY DEF Sound
<1>2. IsFiniteSet(Located(b, side, price))
  BY <1>1, QueuedFinite, FS_EmptySet DEF LevelSound
<1>3. ASSUME NEW id \in DOMAIN b.id_map PROVE Visible(b)[id] \in Int
  <2>1. b.id_map[id] \in Orders
    BY <1>1, OrderInBook DEF has_order
  <2> QED BY <2>1, OrderFields DEF Visible
<1>4. VolumeAt(b, side, price) \in Nat
  BY <1>1, LevelType DEF VolumeAt, Levels
<1> QED BY <1>2, <1>3, <1>4 DEF IntOn, Located

(* A book in which only the order id and the volume at its price change:   *)
(* the volume goes down by no more than what the order shows less, unless  *)
(* the level goes with its last order.                                     *)
ChangesOnly(b, c, id, side, price) ==
  /\ side \in Sides /\ price \in Prices
  /\ \A s \in Sides : \A p \in Prices : <<s, p>> # <<side, price>> =>
       VolumeAt(c, s, p) = VolumeAt(b, s, p)
  /\ \A x : x # id => (has_order(c, x) <=> has_order(b, x))
  /\ \A x : x # id /\ has_order(b, x) => c.id_map[x] = b.id_map[x]
  /\ has_order(b, id) => b.id_map[id].side = side /\ b.id_map[id].price = price
  /\ has_order(c, id) => c.id_map[id].side = side /\ c.id_map[id].price = price

LEMMA CoverKept ==
  ASSUME NEW b, Sound(b), Covered(b), NEW c, Sound(c), NEW id, NEW side, NEW price,
         ChangesOnly(b, c, id, side, price),
         HasLevel(c, side, price) =>
           VolumeAt(c, side, price) - ShownBy(c, id) >= VolumeAt(b, side, price) - ShownBy(b, id)
  PROVE  Covered(c)
<1>1. SUFFICES ASSUME NEW s \in Sides, NEW p \in Prices PROVE CoveredAt(c, s, p)
  BY DEF Covered
<1> DEFINE S == Located(b, s, p)
           T == Located(c, s, p)
           f == Visible(b)
           g == Visible(c)
<1>2. /\ IsFiniteSet(S) /\ IntOn(f, S) /\ VolumeAt(b, s, p) \in Nat
      /\ IsFiniteSet(T) /\ IntOn(g, T) /\ VolumeAt(c, s, p) \in Nat
  BY LocatedFinite
<1>3. VolumeAt(b, s, p) >= Sum(f, S)
  BY DEF Covered, CoveredAt
<1>4. \A x : x # id => /\ x \in S <=> x \in T
                       /\ x \in S => f[x] = g[x]
  BY DEF ChangesOnly, Located, Visible, has_order
<1>5. /\ \A x \in S : has_order(b, x) /\ f[x] = visible_qty(b.id_map[x])
      /\ \A x \in T : has_order(c, x) /\ g[x] = visible_qty(c.id_map[x])
  BY DEF Located, Visible, has_order
<1>6. CASE <<s, p>> # <<side, price>>
  <2>1. id \notin S /\ id \notin T
    BY <1>6 DEF ChangesOnly, Located, has_order
  <2>2. S = T /\ \A x \in S : f[x] = g[x]
    BY <1>4, <2>1
  <2>3. VolumeAt(c, s, p) = VolumeAt(b, s, p)
    BY <1>6 DEF ChangesOnly
  <2> HIDE DEF S, T, f, g
  <2>4. Sum(f, S) = Sum(g, T)
    BY <1>2, <2>2, SumSame
  <2> QED BY <1>3, <2>3, <2>4 DEF CoveredAt, T, g
<1>7. CASE <<s, p>> = <<side, price>> /\ ~HasLevel(c, s, p)
  <2>1. T = {}
    BY <1>7 DEF Sound, LevelSound
  <2> HIDE DEF T, g
  <2>2. Sum(g, {}) = 0
    BY <1>2, SumType
  <2> QED BY <1>2, <2>1, <2>2 DEF CoveredAt, T, g
<1>8. CASE <<s, p>> = <<side, price>> /\ HasLevel(c, s, p)
  <2>1. s = side /\ p = price
    BY <1>8
  <2>2. (id \in S <=> has_order(b, id)) /\ (id \in T <=> has_order(c, id))
    BY <2>1 DEF ChangesOnly, Located, has_order
  <2>3. /\ id \in S => ShownBy(b, id) = f[id]
        /\ id \notin S => ShownBy(b, id) = 0
        /\ id \in T => ShownBy(c, id) = g[id]
        /\ id \notin T => ShownBy(c, id) = 0
    BY <1>5, <2>2 DEF ShownBy
  <2> DEFINE R == S \ {id}
  <2>4. T \ {id} = R /\ \A x \in R : f[x] = g[x]
    BY <1>4
  <2>5. IsFiniteSet(R) /\ IntOn(f, R) /\ IntOn(g, R)
    BY <1>2, <2>4, FS_RemoveElement DEF IntOn
  <2> HIDE DEF S, T, f, g
  <2>6. Sum(f, R) = Sum(g, R) /\ Sum(f, R) \in Int
    BY <2>4, <2>5, SumSame, SumType
  <2>7. Sum(f, S) = Sum(f, R) + ShownBy(b, id) /\ ShownBy(b, id) \in Int
    <3>1. CASE id \in S
      <4>1. Sum(f, S) = f[id] + Sum(f, R) /\ f[id] \in Int
        BY <1>2, <3>1, SumWithout DEF IntOn
      <4> QED BY <2>3, <2>6, <3>1, <4>1
    <3>2. CASE id \notin S
      <4>1. S = R /\ ShownBy(b, id) = 0
        BY <2>3, <3>2
      <4> QED BY <2>6, <4>1
    <3> QED BY <3>1, <3>2
  <2>8. Sum(g, T) = Sum(g, R) + ShownBy(c, id) /\ ShownBy(c, id) \in Int
    <3>1. CASE id \in T
      <4>1. Sum(g, T) = g[id] + Sum(g, T \ {id}) /\ g[id] \in Int
        BY <1>2, <3>1, SumWithout DEF IntOn
      <4>2. Sum(g, T) = g[id] + Sum(g, R)
        BY <2>4, <4>1
      <4> QED BY <2>3, <2>6, <3>1, <4>1, <4>2
    <3>2. CASE id \notin T
      <4>1. T = R /\ ShownBy(c, id) = 0
        BY <2>3, <2>4, <3>2
      <4> QED BY <2>6, <4>1
    <3> QED BY <3>1, <3>2
  <2>9. VolumeAt(c, s, p) >= Sum(g, T)
    <3> HIDE DEF R
    <3> QED BY <1>2, <1>3, <1>8, <2>1, <2>6, <2>7, <2>8
  <2> QED BY <2>9 DEF CoveredAt, T, g
<1> QED BY <1>6, <1>7, <1>8

LEMMA CoverSame ==
  ASSUME NEW b, Covered(b), NEW c, c.levels = b.levels, c.id_map = b.id_map
  PROVE  Covered(c)
<1>1. Visible(c) = Visible(b)
  BY DEF Visible
<1>2. \A s, p : VolumeAt(c, s, p) = VolumeAt(b, s, p) /\ Located(c, s, p) = Located(b, s, p)
  BY DEF VolumeAt, HasLevel, Located
<1> QED BY <1>1, <1>2 DEF Covered, CoveredAt

LEMMA CoverInsert ==
  ASSUME NEW b, Sound(b), Covered(b), NEW order \in Orders, ~has_order(b, order.id),
         HasLevel(b, order.side, order.price) =>
           order.id \notin Queued(b.levels[order.side][order.price])
  PROVE  Covered(insert_order(b, order))
<1> DEFINE side  == order.side
           price == order.price
           level == IF HasLevel(b, side, price) THEN b.levels[side][price] ELSE EmptyLevel
           entry == push_back(level, order.id, visible_qty(order))
           c     == insert_order(b, order)
<1>1. Inserts(b, order, level, entry, c) /\ Sound(c)
  BY InsertFields, InsertSound
<1>2. level \in Levels
  BY <1>1 DEF Inserts, Proper
<1>3. entry.total_volume = level.total_volume + visible_qty(order) /\ level.total_volume \in Nat
  BY <1>2 DEF push_back, Levels
<1>4. VolumeAt(b, side, price) = level.total_volume
  BY DEF VolumeAt, EmptyLevel
<1> HIDE DEF level, entry, c
<1>5. /\ side \in Sides /\ price \in Prices /\ visible_qty(order) \in Nat
      /\ DOMAIN c.id_map = DOMAIN b.id_map \cup {order.id}
      /\ c.id_map[order.id] = order
      /\ \A k \in DOMAIN b.id_map : k # order.id => c.id_map[k] = b.id_map[k]
      /\ HasLevel(c, side, price) /\ c.levels[side][price] = entry
      /\ \A s \in Sides : \A p : <<s, p>> # <<side, price>> =>
           /\ HasLevel(c, s, p) <=> HasLevel(b, s, p)
           /\ HasLevel(b, s, p) => c.levels[s][p] = b.levels[s][p]
  BY <1>1 DEF Inserts
<1>6. \A s \in Sides : \A p \in Prices : <<s, p>> # <<side, price>> =>
        VolumeAt(c, s, p) = VolumeAt(b, s, p)
  BY <1>5 DEF VolumeAt
<1>7. ChangesOnly(b, c, order.id, side, price)
  BY <1>5, <1>6 DEF ChangesOnly, has_order
<1>8. VolumeAt(c, side, price) = VolumeAt(b, side, price) + visible_qty(order)
  BY <1>3, <1>4, <1>5 DEF VolumeAt
<1>9. ShownBy(c, order.id) = visible_qty(order) /\ ShownBy(b, order.id) = 0
  BY <1>5 DEF ShownBy, has_order
<1>10. VolumeAt(b, side, price) \in Nat
  BY <1>3, <1>4
<1>11. VolumeAt(c, side, price) - ShownBy(c, order.id)
         >= VolumeAt(b, side, price) - ShownBy(b, order.id)
  BY <1>5, <1>8, <1>9, <1>10
<1> HIDE DEF side, price
<1>12. Covered(c)
  BY <1>1, <1>7, <1>11, CoverKept
<1> QED BY <1>12 DEF c

LEMMA CoverCancel ==
  ASSUME NEW b, Sound(b), Covered(b), NEW id, has_order(b, id)
  PROVE  Covered(cancel_order(b, id))
<1> DEFINE order  == b.id_map[id]
           side   == order.side
           price  == order.price
           level  == b.levels[side][price]
           marked == drain_cancelled(remove(level, order.id, visible_qty(order)))
           c      == cancel_order(b, id)
<1>1. order.id = id /\ Cancels(b, order, marked, c) /\ Sound(c)
  BY CancelFields, CancelSound
<1>2. level \in Levels /\ visible_qty(order) \in Nat
  BY <1>1 DEF Cancels, Proper
<1>3. /\ marked.total_volume = ClampedMinus(level.total_volume, visible_qty(order))
      /\ level.total_volume \in Nat
  <2> HIDE DEF level, order
  <2> QED BY <1>2 DEF drain_cancelled, remove, reduce_front_volume, Levels
<1> HIDE DEF level, marked, c, order
<1>4. marked.total_volume >= level.total_volume - visible_qty(order)
      /\ marked.total_volume \in Int
  BY <1>2, <1>3 DEF ClampedMinus
<1>5. /\ side \in Sides /\ price \in Prices /\ HasLevel(b, side, price)
      /\ DOMAIN c.id_map = DOMAIN b.id_map \ {id}
      /\ \A k \in DOMAIN b.id_map : k # id => c.id_map[k] = b.id_map[k]
      /\ HasLevel(c, side, price) => c.levels[side][price] = marked
      /\ \A s \in Sides : \A p : <<s, p>> # <<side, price>> =>
           /\ HasLevel(c, s, p) <=> HasLevel(b, s, p)
           /\ HasLevel(b, s, p) => c.levels[s][p] = b.levels[s][p]
  BY <1>1 DEF Cancels
<1>6. \A s \in Sides : \A p \in Prices : <<s, p>> # <<side, price>> =>
        VolumeAt(c, s, p) = VolumeAt(b, s, p)
  BY <1>5 DEF VolumeAt
<1>7. ChangesOnly(b, c, id, side, price)
  BY <1>5, <1>6 DEF ChangesOnly, has_order, order
<1>8. /\ VolumeAt(b, side, price) = level.total_volume
      /\ HasLevel(c, side, price) => VolumeAt(c, side, price) = marked.total_volume
  BY <1>5 DEF VolumeAt, level
<1>9. ShownBy(c, id) = 0 /\ ShownBy(b, id) = visible_qty(order)
  BY <1>5 DEF ShownBy, has_order, order
<1>10. HasLevel(c, side, price) =>
         VolumeAt(c, side, price) - ShownBy(c, id) >= VolumeAt(b, side, price) - ShownBy(b, id)
  BY <1>2, <1>3, <1>4, <1>8, <1>9
<1> HIDE DEF side, price
<1>11. Covered(c)
  BY <1>1, <1>7, <1>10, CoverKept
<1> QED BY <1>11 DEF c

(* A level's volume may be rewritten and its queue drained. *)
LEMMA SetLevelVolume ==
  ASSUME NEW b, IsBook(b), NEW side \in Sides, NEW price \in Prices, NEW level \in Levels
  PROVE  LET c == SetLevel(b, side, price, level)
         IN  /\ c.id_map = b.id_map
             /\ VolumeAt(c, side, price) = level.total_volume
             /\ \A s \in Sides : \A p : <<s, p>> # <<side, price>> =>
                  VolumeAt(c, s, p) = VolumeAt(b, s, p)
<1> DEFINE c == SetLevel(b, side, price, level)
<1>1. /\ c.id_map = b.id_map
      /\ HasLevel(c, side, price) /\ c.levels[side][price] = level
      /\ \A s \in Sides : \A p : <<s, p>> # <<side, price>> =>
           /\ HasLevel(c, s, p) <=> HasLevel(b, s, p)
           /\ HasLevel(b, s, p) => c.levels[s][p] = b.levels[s][p]
  BY SetLevelFields
<1> HIDE DEF c
<1>2. /\ VolumeAt(c, side, price) = level.total_volume
      /\ \A s \in Sides : \A p : <<s, p>> # <<side, price>> =>
           VolumeAt(c, s, p) = VolumeAt(b, s, p)
  BY <1>1 DEF VolumeAt
<1> QED BY <1>1, <1>2 DEF c

LEMMA CoverDrain ==
  ASSUME NEW b, Sound(b), Covered(b), NEW side \in Sides, NEW price, HasLevel(b, side, price)
  PROVE  LET d == FrontDrained(b, side, price)
         IN  Covered(d) /\ \A s \in Sides : \A p \in Prices : VolumeAt(d, s, p) = VolumeAt(b, s, p)
<1> DEFINE level == b.levels[side][price]
           drained == drain_cancelled(level)
           d == FrontDrained(b, side, price)
<1>1. IsBook(b) /\ price \in Prices /\ level \in Levels
  BY LevelType DEF Sound
<1>2. drained \in Levels /\ drained.total_volume = level.total_volume
  <2> HIDE DEF level
  <2>1. drain_cancelled(level).total_volume = level.total_volume
    BY <1>1 DEF drain_cancelled, Levels
  <2> QED BY <1>1, <2>1, DrainType
<1>3. d = SetLevel(b, side, price, drained) /\ VolumeAt(b, side, price) = level.total_volume
  BY DEF FrontDrained, VolumeAt
<1> HIDE DEF level, drained, d
<1>4. /\ d.id_map = b.id_map
      /\ VolumeAt(d, side, price) = drained.total_volume
      /\ \A s \in Sides : \A p : <<s, p>> # <<side, price>> =>
           VolumeAt(d, s, p) = VolumeAt(b, s, p)
  BY <1>1, <1>2, <1>3, SetLevelVolume
<1>5. \A s \in Sides : \A p \in Prices : VolumeAt(d, s, p) = VolumeAt(b, s, p)
  BY <1>2, <1>3, <1>4
<1>6. Visible(d) = Visible(b) /\ \A s, p : Located(d, s, p) = Located(b, s, p)
  BY <1>4 DEF Visible, Located
<1>7. Covered(d)
  BY <1>5, <1>6 DEF Covered, CoveredAt
<1> QED BY <1>5, <1>7 DEF d

LEMMA ReduceVolume ==
  ASSUME NEW b, Sound(b), NEW side \in Sides, NEW price \in Prices, NEW delta \in Nat
  PROVE  LET c == reduce_level_volume(b, side, price, delta)
         IN  /\ VolumeAt(c, side, price) >= VolumeAt(b, side, price) - delta
             /\ VolumeAt(b, side, price) \in Nat /\ VolumeAt(c, side, price) \in Nat
             /\ \A s \in Sides : \A p \in Prices : <<s, p>> # <<side, price>> =>
                  VolumeAt(c, s, p) = VolumeAt(b, s, p)
<1> DEFINE c == reduce_level_volume(b, side, price, delta)
<1>1. CASE HasLevel(b, side, price)
  <2> DEFINE level == b.levels[side][price]
             new == reduce_front_volume(level, delta)
  <2>1. IsBook(b) /\ level \in Levels
    BY <1>1, LevelType DEF Sound
  <2>2. /\ level.total_volume \in Nat /\ new.total_volume \in Nat
        /\ new.total_volume >= level.total_volume - delta
        /\ new \in Levels
    <3> HIDE DEF level
    <3> QED BY <2>1 DEF reduce_front_volume, ClampedMinus, Levels
  <2>3. c = SetLevel(b, side, price, new) /\ VolumeAt(b, side, price) = level.total_volume
    BY <1>1 DEF reduce_level_volume, VolumeAt
  <2> HIDE DEF level, new, c
  <2>4. /\ VolumeAt(c, side, price) = new.total_volume
        /\ \A s \in Sides : \A p : <<s, p>> # <<side, price>> =>
             VolumeAt(c, s, p) = VolumeAt(b, s, p)
    BY <2>1, <2>2, <2>3, SetLevelVolume
  <2>5. /\ VolumeAt(c, side, price) >= VolumeAt(b, side, price) - delta
        /\ VolumeAt(b, side, price) \in Nat /\ VolumeAt(c, side, price) \in Nat
    BY <2>2, <2>3, <2>4
  <2> QED BY <2>4, <2>5 DEF c
<1>2. CASE ~HasLevel(b, side, price)
  <2>1. c = b /\ VolumeAt(b, side, price) = 0
    BY <1>2 DEF reduce_level_volume, VolumeAt
  <2> QED BY <2>1
<1> QED BY <1>1, <1>2

(* An order shown with delta less, at a level with at most delta less. *)
LEMMA CoverShrink ==
  ASSUME NEW b, Sound(b), Covered(b), NEW c, Sound(c), NEW id, has_order(b, id), has_order(c, id),
         NEW side \in Sides, NEW price \in Prices, NEW delta \in Nat,
         b.id_map[id].side = side, b.id_map[id].price = price,
         c.id_map[id].side = side, c.id_map[id].price = price,
         \A x : has_order(c, x) <=> has_order(b, x),
         \A x : has_order(b, x) /\ x # id => c.id_map[x] = b.id_map[x],
         visible_qty(b.id_map[id]) \in Nat, visible_qty(c.id_map[id]) \in Nat,
         visible_qty(c.id_map[id]) <= visible_qty(b.id_map[id]) - delta,
         VolumeAt(b, side, price) \in Nat, VolumeAt(c, side, price) \in Nat,
         VolumeAt(c, side, price) >= VolumeAt(b, side, price) - delta,
         \A s \in Sides : \A p \in Prices : <<s, p>> # <<side, price>> =>
           VolumeAt(c, s, p) = VolumeAt(b, s, p)
  PROVE  Covered(c)
<1>1. ChangesOnly(b, c, id, side, price)
  BY DEF ChangesOnly
<1>2. ShownBy(c, id) = visible_qty(c.id_map[id]) /\ ShownBy(b, id) = visible_qty(b.id_map[id])
  BY DEF ShownBy
<1>3. VolumeAt(c, side, price) - ShownBy(c, id) >= VolumeAt(b, side, price) - ShownBy(b, id)
  <2>1. \A v, w, x, y \in Nat : v >= w - delta /\ x <= y - delta => v - x >= w - y
    OBVIOUS
  <2> QED BY <1>2, <2>1
<1> QED BY <1>1, <1>3, CoverKept

(* execute_fill against an order without a peak. *)
LEMMA CoverFill ==
  ASSUME NEW b, Sound(b), Covered(b), NEW side \in Sides, NEW price, HasLevel(b, side, price),
         NEW qty \in Nat, qty <= b.id_map[FrontId(b, side, price)].quantity,
         b.id_map[FrontId(b, side, price)].peak_qty = 0
  PROVE  LET id      == FrontId(b, side, price)
             passive == [b.id_map[id] EXCEPT !.quantity = b.id_map[id].quantity - qty]
         IN  Covered(AfterFill(FrontDrained(b, side, price), passive, qty))
<1> DEFINE id      == FrontId(b, side, price)
           order   == b.id_map[id]
           passive == [order EXCEPT !.quantity = order.quantity - qty]
           level   == b.levels[side][price]
           drained == drain_cancelled(level)
           d       == FrontDrained(b, side, price)
           c       == AfterFill(d, passive, qty)
<1>1. IsBook(b) /\ price \in Prices
  BY LevelType DEF Sound
<1>2. Proper(level) /\ Alive(level) = Located(b, side, price) /\ Alive(level) # {}
  BY <1>1 DEF Sound, LevelSound
<1>3. /\ Proper(drained) /\ Alive(drained) = Alive(level)
      /\ Queued(drained) \subseteq Queued(level) /\ id \in Alive(level)
  BY <1>2, DrainAlive DEF FrontId
<1>4. Sound(d) /\ d.id_map = b.id_map /\ HasLevel(d, side, price)
  <2> HIDE DEF level, drained
  <2>1. d = SetLevel(b, side, price, drained)
    BY DEF FrontDrained, level, drained
  <2>2. level = b.levels[side][price]
    BY DEF level
  <2> QED BY <1>2, <1>3, <2>1, <2>2, SetLevelSound
<1>5. Covered(d)
  BY CoverDrain
<1>6. /\ has_order(b, id) /\ order.side = side /\ order.price = price /\ order \in Orders
      /\ order.id = id /\ order.quantity \in Nat /\ order.peak_qty = 0 /\ qty <= order.quantity
  <2>1. id \in Located(b, side, price)
    BY <1>2, <1>3
  <2>2. order.peak_qty = 0 /\ qty <= order.quantity
    OBVIOUS
  <2> HIDE DEF id
  <2>3. has_order(b, id) /\ order.side = side /\ order.price = price
    BY <2>1 DEF Located, has_order
  <2>4. order \in Orders /\ order.id = id
    BY <1>1, <2>3, OrderInBook DEF Sound, has_order
  <2> HIDE DEF order
  <2> QED BY <2>2, <2>3, <2>4, OrderFields
<1>7. /\ passive \in Orders /\ passive.id = id /\ passive.side = side /\ passive.price = price
      /\ passive.peak_qty = 0 /\ passive.quantity = order.quantity - qty
      /\ passive.quantity \in Nat
  <2> HIDE DEF order
  <2>1. order.quantity - qty \in Nat
    BY <1>6
  <2> QED BY <1>6, <2>1 DEF Orders
<1>8. /\ visible_qty(order) = order.quantity /\ visible_qty(passive) = passive.quantity
      /\ ~is_iceberg(passive)
  BY <1>6, <1>7 DEF visible_qty, is_iceberg
<1> HIDE DEF id, order, passive, d
<1>9. has_order(d, id) /\ d.id_map[id] = order
  BY <1>4, <1>6 DEF has_order, order
<1>10. VolumeAt(d, side, price) \in Nat
  BY <1>1, <1>4, LocatedFinite
<1>11. CASE passive.quantity = 0
  <2> DEFINE u == update_order(d, passive)
  <2>1. c = cancel_order(u, id)
    BY <1>7, <1>8, <1>11 DEF AfterFill
  <2>2. Sound(u) /\ u.levels = d.levels /\ has_order(u, id) /\ u.id_map[id] = passive
    BY <1>4, <1>6, <1>7, <1>9, UpdateSound
  <2>3. /\ \A x : has_order(u, x) <=> has_order(d, x)
        /\ \A x : has_order(d, x) /\ x # id => u.id_map[x] = d.id_map[x]
    BY <1>4, <1>7, <1>9, UpdateOrders
  <2>4. \A s, p : VolumeAt(u, s, p) = VolumeAt(d, s, p)
    <3> HIDE DEF u
    <3> QED BY <2>2 DEF VolumeAt, HasLevel
  <2> HIDE DEF u, c
  <2>5. /\ visible_qty(order) \in Nat /\ visible_qty(passive) \in Nat
        /\ visible_qty(passive) <= visible_qty(order) - 0
        /\ VolumeAt(u, side, price) >= VolumeAt(d, side, price) - 0
    BY <1>6, <1>7, <1>8, <1>10, <2>4
  <2>6. Covered(u)
    BY <1>1, <1>4, <1>5, <1>6, <1>7, <1>9, <1>10, <2>2, <2>3, <2>4, <2>5, CoverShrink
  <2>7. Covered(c)
    BY <2>1, <2>2, <2>6, CoverCancel
  <2> QED BY <2>7 DEF c, d, passive, order, id
<1>12. CASE passive.quantity # 0
  <2> DEFINE r == reduce_level_volume(d, side, price, qty)
  <2>1. c = update_order(r, passive)
    BY <1>7, <1>12 DEF AfterFill
  <2>2. Sound(r) /\ r.id_map = d.id_map
    BY <1>4, ReduceLevelSound
  <2>3. /\ VolumeAt(r, side, price) >= VolumeAt(d, side, price) - qty
        /\ VolumeAt(r, side, price) \in Nat
        /\ \A s \in Sides : \A p \in Prices : <<s, p>> # <<side, price>> =>
             VolumeAt(r, s, p) = VolumeAt(d, s, p)
    BY <1>1, <1>4, ReduceVolume
  <2> HIDE DEF r, c
  <2>4. has_order(r, id) /\ r.id_map[id] = order
    BY <1>9, <2>2 DEF has_order
  <2>5. Sound(c) /\ c.levels = r.levels /\ has_order(c, id) /\ c.id_map[id] = passive
    BY <1>6, <1>7, <2>1, <2>2, <2>4, UpdateSound
  <2>6. /\ \A x : has_order(c, x) <=> has_order(d, x)
        /\ \A x : has_order(d, x) /\ x # id => c.id_map[x] = d.id_map[x]
    BY <1>7, <2>1, <2>2, <2>4, UpdateOrders DEF has_order
  <2>7. \A s, p : VolumeAt(c, s, p) = VolumeAt(r, s, p)
    BY <2>5 DEF VolumeAt, HasLevel
  <2>8. /\ visible_qty(order) \in Nat /\ visible_qty(passive) \in Nat
        /\ visible_qty(passive) <= visible_qty(order) - qty
    BY <1>6, <1>7, <1>8
  <2>9. Covered(c)
    BY <1>1, <1>4, <1>5, <1>6, <1>7, <1>9, <1>10, <2>3, <2>5, <2>6, <2>7, <2>8, CoverShrink
  <2> QED BY <2>9 DEF c, d, passive, order, id
<1> QED BY <1>11, <1>12

-----------------------------------------------------------------------------
(* The stored volume of a level covers what its orders show.               *)

(* No client uses a peak.  With a peak, visible_qty is the peak even when  *)
(* less than the peak is left, and the first partial fill breaks the       *)
(* inequality.                                                             *)
NoPeaks == \A t \in NewOrders : t.peak_qty = 0

Peakless ==
  /\ \A o \in Outside(pending_stops, stack) : o.peak_qty = 0
  /\ \A id : has_order(book, id) => book.id_map[id].peak_qty = 0

LEMMA EnterPeak ==
  ASSUME NEW order \in Orders
  PROVE  Enter(order).order.peak_qty = order.peak_qty
<1>1. CASE order.type \in StopTypes
  <2>1. Enter(order).order = Converted(order)
    BY <1>1 DEF Enter, Activation, StopTypes
  <2> QED BY <2>1 DEF Converted, Orders
<1>2. CASE order.type = "Iceberg"
  <2>1. Enter(order).order = SplitIceberg(order)
    BY <1>2 DEF Enter, Activation, StopTypes
  <2> QED BY <2>1 DEF SplitIceberg, Orders
<1>3. CASE order.type \notin StopTypes /\ order.type # "Iceberg"
  <2>1. Enter(order).order = order
    BY <1>3 DEF Enter, Activation
  <2> QED BY <2>1
<1> QED BY <1>1, <1>2, <1>3

LEMMA NewCovers ==
  ASSUME Inv, Idle, NoPeaks, NEW b, Covered(b),
         \A id : has_order(b, id) => b.id_map[id].peak_qty = 0,
         \A o \in Outside(pending_stops, stack) : o.peak_qty = 0,
         NEW t \in NewOrders, NEW id \in Ids, process_new_order(b, WithId(t, id))
  PROVE  Peakless' /\ Covered(book')
<1> DEFINE order == WithId(t, id)
           e == Enter(order).order
<1>1. order \in Orders /\ order.peak_qty = 0
  <2>1. order \in Orders
    BY WithIdType
  <2> QED BY <2>1 DEF NoPeaks, WithId
<1> HIDE DEF order
<1>2. e.peak_qty = 0
  BY <1>1, EnterPeak
<1>3. book' = b
  BY DEF process_new_order
<1>4. /\ Active(stack) = {}
      /\ \/ /\ Waiting(pending_stops', stack') = Waiting(pending_stops, stack) \cup {order}
            /\ Active(stack') = {}
         \/ /\ Waiting(pending_stops', stack') = Waiting(pending_stops, stack)
            /\ Active(stack') = {e}
  BY <1>1, NewEffect DEF order
<1> HIDE DEF e
<1>5. \A o \in Outside(pending_stops', stack') : o.peak_qty = 0
  BY <1>1, <1>2, <1>4 DEF Outside
<1> QED BY <1>3, <1>5 DEF Peakless

LEMMA CancelPeakless ==
  ASSUME NEW b, Sound(b), \A x : has_order(b, x) => b.id_map[x].peak_qty = 0,
         NEW id, has_order(b, id)
  PROVE  \A x : has_order(cancel_order(b, id), x) => cancel_order(b, id).id_map[x].peak_qty = 0
<1> DEFINE c == cancel_order(b, id)
<1>1. /\ \A x : has_order(c, x) <=> has_order(b, x) /\ x # id
      /\ \A x : has_order(c, x) => c.id_map[x] = b.id_map[x]
  BY CancelOrders
<1> HIDE DEF c
<1>2. \A x : has_order(c, x) => c.id_map[x].peak_qty = 0
  BY <1>1
<1> QED BY <1>2 DEF c

LEMMA SubmitCovers ==
  ASSUME Inv, NoPeaks, Peakless, Covered(book), Submit
  PROVE  Peakless' /\ Covered(book')
<1>0. Sound(book)
  BY DEF Inv
<1>1. ASSUME NEW id \in Ids, NEW t \in NewOrders, SubmitNew(WithId(t, id))
      PROVE  Peakless' /\ Covered(book')
  BY <1>1, NewCovers DEF SubmitNew, Peakless
<1>2. ASSUME NEW id \in Ids, CancelPending(id) PROVE Peakless' /\ Covered(book')
  <2>1. /\ Active(stack) = {} /\ Active(stack') = {} /\ book' = book
        /\ \E stop : Waiting(pending_stops, stack) = Waiting(pending_stops', stack') \cup {stop}
    BY <1>2, CancelPendingEffect
  <2> QED BY <2>1 DEF Peakless, Outside
<1>3. ASSUME NEW id \in Ids, CancelResting(id) PROVE Peakless' /\ Covered(book')
  <2>1. /\ has_order(book, id) /\ book' = cancel_order(book, id)
        /\ UNCHANGED <<pending_stops, stack>>
    BY <1>3 DEF CancelResting
  <2>2. Covered(book') /\ \A x : has_order(book', x) => book'.id_map[x].peak_qty = 0
    BY <1>0, <2>1, CoverCancel, CancelPeakless DEF Peakless
  <2> QED BY <2>1, <2>2 DEF Peakless
<1>4. ASSUME NEW id \in Ids, CancelUnknown(id) PROVE Peakless' /\ Covered(book')
  BY <1>4 DEF CancelUnknown, Reject, Peakless
<1> QED BY <1>1, <1>2, <1>3, <1>4 DEF Submit

LEMMA InPlaceFields ==
  ASSUME NEW order \in Orders, NEW m \in Amendments, ~LosesPriority(order, m)
  PROVE  /\ Amended(order, m).price = order.price
         /\ order.quantity - Amended(order, m).quantity \in Nat
<1> DEFINE moved == Amended(order, m)
<1>1. m.new_price \in Prices /\ m.new_quantity \in Nat /\ order.quantity \in Nat
  BY AmendmentsAssumption, OrderFields
<1>2. /\ moved.price = IF m.new_price # 0 THEN m.new_price ELSE order.price
      /\ moved.quantity = IF m.new_quantity # 0 THEN m.new_quantity ELSE order.quantity
  BY DEF Amended, Orders
<1> HIDE DEF moved
<1>3. moved.price = order.price
  BY <1>2 DEF LosesPriority
<1>4. m.new_quantity # 0 => m.new_quantity <= order.quantity
  BY <1>1 DEF LosesPriority
<1>5. order.quantity - moved.quantity \in Nat
  BY <1>1, <1>2, <1>4
<1> QED BY <1>3, <1>5 DEF moved

LEMMA InPlaceCovers ==
  ASSUME Inv, Peakless, Covered(book), NEW id \in Ids, NEW m \in Amendments, ModifyInPlace(id, m)
  PROVE  Peakless' /\ Covered(book')
<1> DEFINE order == book.id_map[id]
           moved == Amended(order, m)
           delta == order.quantity - moved.quantity
           set   == update_order(book, moved)
<1>1. /\ has_order(book, id) /\ ~LosesPriority(order, m)
      /\ book' = reduce_level_volume(set, order.side, order.price, delta)
      /\ UNCHANGED <<pending_stops, stack>>
  BY DEF ModifyInPlace
<1>2. Sound(book)
  BY DEF Inv
<1>3. order \in Orders /\ order.id = id /\ order.peak_qty = 0
  BY <1>1, OutsideUnknown DEF Peakless
<1>4. /\ moved \in Orders /\ moved.id = id /\ moved.side = order.side
      /\ moved.peak_qty = 0 /\ moved.price = order.price /\ delta \in Nat
  <2> HIDE DEF order
  <2>1. moved.peak_qty = order.peak_qty
    BY <1>3 DEF Amended, Orders
  <2> QED BY <1>1, <1>3, <2>1, AmendedType, InPlaceFields
<1>5. /\ order.side \in Sides /\ order.price \in Prices
      /\ order.quantity \in Nat /\ moved.quantity \in Nat
  <2> HIDE DEF order, moved
  <2> QED BY <1>3, <1>4, OrderFields
<1>6. /\ Sound(set) /\ set.levels = book.levels
      /\ has_order(set, id) /\ set.id_map[id] = moved
  <2> HIDE DEF moved
  <2> QED BY <1>1, <1>2, <1>4, UpdateSound DEF order
<1>7. /\ \A x : has_order(set, x) <=> has_order(book, x)
      /\ \A x : has_order(book, x) /\ x # id => set.id_map[x] = book.id_map[x]
  <2> HIDE DEF moved
  <2> QED BY <1>1, <1>2, <1>4, UpdateOrders
<1>8. /\ visible_qty(order) = order.quantity /\ visible_qty(moved) = moved.quantity
  <2> HIDE DEF order, moved
  <2> QED BY <1>3, <1>4 DEF visible_qty, is_iceberg
<1>9. visible_qty(moved) <= visible_qty(order) - delta
  <2>1. delta = order.quantity - moved.quantity
    OBVIOUS
  <2> HIDE DEF order, moved, delta
  <2> QED BY <1>5, <1>8, <2>1
<1>10. order = book.id_map[id]
  OBVIOUS
<1> HIDE DEF set, delta, moved, order
<1>11. \A s, p : VolumeAt(set, s, p) = VolumeAt(book, s, p)
  BY <1>6 DEF VolumeAt, HasLevel
<1>12. Sound(book') /\ book'.id_map = set.id_map
  BY <1>1, <1>4, <1>5, <1>6, ReduceLevelSound
<1>13. /\ VolumeAt(book', order.side, order.price) >= VolumeAt(set, order.side, order.price) - delta
       /\ VolumeAt(set, order.side, order.price) \in Nat
       /\ VolumeAt(book', order.side, order.price) \in Nat
       /\ \A s \in Sides : \A p \in Prices : <<s, p>> # <<order.side, order.price>> =>
            VolumeAt(book', s, p) = VolumeAt(set, s, p)
  BY <1>1, <1>4, <1>5, <1>6, ReduceVolume
<1>14. /\ \A x : has_order(book', x) <=> has_order(book, x)
       /\ has_order(book', id) /\ book'.id_map[id] = moved
       /\ \A x : has_order(book, x) /\ x # id => book'.id_map[x] = book.id_map[x]
  BY <1>6, <1>7, <1>12 DEF has_order
<1>15. Covered(book')
  <2>1. visible_qty(order) \in Nat /\ visible_qty(moved) \in Nat
    BY <1>5, <1>8
  <2>2. /\ moved.side = order.side /\ moved.price = order.price /\ delta \in Nat
    BY <1>4
  <2>3. has_order(book, id)
    BY <1>1
  <2> QED BY <1>2, <1>5, <1>9, <1>10, <1>11, <1>12, <1>13, <1>14, <2>1, <2>2, <2>3, CoverShrink
<1>16. \A x : has_order(book', x) => book'.id_map[x].peak_qty = 0
  BY <1>4, <1>14 DEF Peakless
<1> QED BY <1>1, <1>15, <1>16 DEF Peakless

LEMMA RequeueCovers ==
  ASSUME Inv, "requeues" \in Discipline, Peakless, Covered(book), NEW id \in Ids,
         NEW m \in Amendments, ModifyRequeue(id, m)
  PROVE  Peakless' /\ Covered(book')
<1> DEFINE order == book.id_map[id]
           moved == Amended(order, m)
           left  == cancel_order(book, id)
<1>1. /\ has_order(book, id)
      /\ ~HasEntry(left, order.side, moved.price, id)
      /\ book' = insert_order(left, moved)
      /\ UNCHANGED <<pending_stops, stack>>
  BY DEF ModifyRequeue
<1>2. Sound(book)
  BY DEF Inv
<1>3. order \in Orders /\ order.id = id /\ order.peak_qty = 0
  BY <1>1, OutsideUnknown DEF Peakless
<1> HIDE DEF order
<1>4. moved \in Orders /\ moved.id = id /\ moved.side = order.side /\ moved.peak_qty = 0
  <2>1. moved.peak_qty = order.peak_qty
    BY <1>3 DEF Amended, Orders
  <2> QED BY <1>3, <2>1, AmendedType
<1> HIDE DEF moved
<1>5. Sound(left) /\ ~has_order(left, id) /\ Covered(left)
  BY <1>1, <1>2, CancelSound, CoverCancel
<1>6. \A x : has_order(left, x) => left.id_map[x].peak_qty = 0
  BY <1>1, <1>2, CancelPeakless DEF Peakless
<1> HIDE DEF left
<1>7. HasLevel(left, moved.side, moved.price) =>
        moved.id \notin Queued(left.levels[moved.side][moved.price])
  BY <1>1, <1>4 DEF HasEntry, Queued
<1>8. Covered(book')
  BY <1>1, <1>4, <1>5, <1>7, CoverInsert
<1>9. /\ \A x : has_order(book', x) <=> has_order(left, x) \/ x = moved.id
      /\ book'.id_map[moved.id] = moved
      /\ \A x : has_order(left, x) /\ x # moved.id => book'.id_map[x] = left.id_map[x]
  BY <1>1, <1>5, InsertOrders
<1>10. \A x : has_order(book', x) => book'.id_map[x].peak_qty = 0
  BY <1>4, <1>6, <1>9
<1> QED BY <1>1, <1>8, <1>10 DEF Peakless

LEMMA AmendCovers ==
  ASSUME Inv, NoPeaks, "requeues" \in Discipline, Peakless, Covered(book), Amend
  PROVE  Peakless' /\ Covered(book')
<1>0. Sound(book)
  BY DEF Inv
<1>1. ASSUME NEW old \in Ids, NEW id \in Ids, NEW t \in NewOrders,
             ReplaceOrder(old, WithId(t, id))
      PROVE  Peakless' /\ Covered(book')
  <2> DEFINE b == cancel_order(book, old)
  <2>1. /\ Idle /\ has_order(book, old)
        /\ process_new_order(b, WithId(t, id))
    BY <1>1 DEF ReplaceOrder
  <2>2. Covered(b) /\ \A x : has_order(b, x) => b.id_map[x].peak_qty = 0
    BY <1>0, <2>1, CoverCancel, CancelPeakless DEF Peakless
  <2>3. \A o \in Outside(pending_stops, stack) : o.peak_qty = 0
    BY DEF Peakless
  <2> HIDE DEF b
  <2> QED BY <2>1, <2>2, <2>3, NewCovers
<1>2. ASSUME NEW id \in Ids, ModifyUnknown(id) \/ ReplaceUnknown(id)
      PROVE  Peakless' /\ Covered(book')
  BY <1>2 DEF ModifyUnknown, ReplaceUnknown, Reject, Peakless
<1> QED BY <1>1, <1>2, InPlaceCovers, RequeueCovers DEF Amend

LEMMA FillCovers ==
  ASSUME Inv, Peakless, Covered(book), Fill
  PROVE  Peakless' /\ Covered(book')
<1> DEFINE side      == Opposite(Top.order.side)
           aggressor == Top.order
<1>1. ~Idle /\ Sound(book)
  BY DEF Fill, Matching, Inv
<1>2. side \in Sides /\ aggressor.quantity \in Nat
  BY <1>1, TopType, OrderFields DEF Opposite, Sides
<1>3. PICK price \in DOMAIN book.levels[side] :
        LET id        == FrontId(book, side, price)
            standing  == book.id_map[id]
            fill_qty  == Lesser(aggressor.quantity, standing.quantity)
            passive   == [standing EXCEPT !.quantity = standing.quantity - fill_qty]
        IN  /\ has_order(book, id)
            /\ book' = [AfterFill(FrontDrained(book, side, price), passive, fill_qty)
                          EXCEPT !.last_trade_price = standing.price]
  BY DEF Fill
<1> DEFINE id       == FrontId(book, side, price)
           standing == book.id_map[id]
           fill_qty == Lesser(aggressor.quantity, standing.quantity)
           passive  == [standing EXCEPT !.quantity = standing.quantity - fill_qty]
           c        == AfterFill(FrontDrained(book, side, price), passive, fill_qty)
<1>4. HasLevel(book, side, price)
  BY DEF HasLevel
<1>5. /\ has_order(book, id) /\ standing.quantity \in Nat /\ standing.peak_qty = 0
  BY <1>1, <1>3, OutsideUnknown, OrderFields DEF Peakless
<1>6. fill_qty \in Nat /\ fill_qty <= standing.quantity
  <2> HIDE DEF standing
  <2> QED BY <1>2, <1>5 DEF Lesser
<1>7. book' = [c EXCEPT !.last_trade_price = standing.price]
  BY <1>3
<1> HIDE DEF fill_qty, side
<1>8. Covered(c) /\ Sound(c)
  BY <1>1, <1>2, <1>4, <1>5, <1>6, CoverFill, FillSound
<1> HIDE DEF c
<1>9. book'.levels = c.levels /\ book'.id_map = c.id_map
  BY <1>7, <1>8 DEF Sound, IsBook
<1>10. Covered(book')
  BY <1>8, <1>9, CoverSame
<1>11. PICK x \in Ids, qty \in Nat : Fills(x, qty)
  BY FillEffect
<1>12. Peakless'
  <2> DEFINE left == [aggressor EXCEPT !.quantity = aggressor.quantity - qty]
  <2>1. /\ aggressor \in Orders /\ aggressor \in Active(stack)
        /\ Waiting(pending_stops', stack') = Waiting(pending_stops, stack)
        /\ Active(stack') = Active(Tail(stack)) \cup {left}
        /\ Active(stack) = Active(Tail(stack)) \cup {aggressor}
        /\ \A y : y # x => (has_order(book', y) <=> has_order(book, y))
        /\ \A y : y # x /\ has_order(book, y) => book'.id_map[y] = book.id_map[y]
        /\ has_order(book, x)
        /\ has_order(book', x) => book'.id_map[x].peak_qty = book.id_map[x].peak_qty
    BY <1>11 DEF Fills
  <2>2. left.peak_qty = aggressor.peak_qty
    BY <2>1 DEF Orders
  <2> HIDE DEF left, aggressor
  <2>3. \A o \in Outside(pending_stops', stack') : o.peak_qty = 0
    BY <2>1, <2>2 DEF Peakless, Outside
  <2>4. \A y : has_order(book', y) => book'.id_map[y].peak_qty = 0
    BY <2>1 DEF Peakless
  <2> QED BY <2>3, <2>4 DEF Peakless
<1> QED BY <1>10, <1>12

LEMMA StepCovers ==
  ASSUME Inv, Peakless, Covered(book), Step
  PROVE  Peakless' /\ Covered(book')
<1>1. CASE TriggerStop
  <2>1. PICK stop \in Waiting(pending_stops, stack) :
           /\ stop \in Orders
           /\ Waiting(pending_stops, stack) = Waiting(pending_stops', stack') \cup {stop}
           /\ Active(stack') = Active(stack) \cup {Enter(stop).order}
           /\ book' = book
    BY <1>1, TriggerEffect
  <2>2. Enter(stop).order.peak_qty = 0
    BY <2>1, EnterPeak DEF Peakless, Outside
  <2> QED BY <2>1, <2>2 DEF Peakless, Outside
<1>2. CASE KeepStop
  BY <1>2, KeepEffect DEF Peakless, Outside
<1>3. CASE FinishResting \/ FinishExhausted \/ FinishFilled
  <2> DEFINE o == Top.order
  <2>1. LoopEnded /\ stack' = Tail(stack) /\ pending_stops' = pending_stops
    BY <1>3 DEF FinishResting, FinishExhausted, FinishFilled
  <2>2. /\ Waiting(pending_stops', stack') = Waiting(pending_stops, stack)
        /\ Active(stack) = Active(stack') \cup {o}
        /\ o \in Orders /\ Absent(book, o.id)
    BY <2>1, FinishEffect
  <2>3. (\A x \in Outside(pending_stops', stack') : x.peak_qty = 0) /\ o.peak_qty = 0
    BY <2>2 DEF Peakless, Outside
  <2>4. CASE FinishResting
    <3>1. book' = insert_order(book, o) /\ Sound(book) /\ o.side \in Sides
      BY <2>2, <2>4, OrderFields DEF FinishResting, Inv
    <3>2. /\ ~has_order(book, o.id)
          /\ HasLevel(book, o.side, o.price) => o.id \notin Queued(book.levels[o.side][o.price])
      BY <2>2, <3>1 DEF Absent, HasLevel
    <3> HIDE DEF o
    <3>3. Covered(book')
      BY <2>2, <3>1, <3>2, CoverInsert
    <3>4. /\ \A x : has_order(book', x) <=> has_order(book, x) \/ x = o.id
          /\ book'.id_map[o.id] = o
          /\ \A x : has_order(book, x) /\ x # o.id => book'.id_map[x] = book.id_map[x]
      BY <3>1, InsertOrders
    <3>5. \A x : has_order(book', x) => book'.id_map[x].peak_qty = 0
      BY <2>3, <3>4 DEF Peakless
    <3> QED BY <2>3, <3>3, <3>5 DEF Peakless
  <2>5. CASE FinishExhausted \/ FinishFilled
    <3>1. book' = book
      BY <2>5 DEF FinishExhausted, FinishFilled
    <3> QED BY <2>3, <3>1 DEF Peakless
  <2> QED BY <1>3, <2>4, <2>5
<1> QED BY <1>1, <1>2, <1>3, FillCovers DEF Step

LEMMA NextCovers ==
  ASSUME "requeues" \in Discipline, NoPeaks, Inv, Peakless, Covered(book), [Next]_vars
  PROVE  Peakless' /\ Covered(book)'
<1>1. CASE UNCHANGED vars
  BY <1>1 DEF vars, Peakless
<1> QED BY <1>1, SubmitCovers, AmendCovers, StepCovers DEF Next

LEMMA InitCovers ==
  ASSUME Init
  PROVE  Peakless /\ Covered(book)
<1>1. pending_stops = <<>> /\ stack = <<>> /\ book = EmptyBook
  BY DEF Init
<1>2. DOMAIN book.id_map = {} /\ \A s \in Sides : DOMAIN book.levels[s] = {}
  BY <1>1 DEF EmptyBook, EmptyMap
<1>3. Waiting(pending_stops, stack) = {} /\ Active(stack) = {}
  BY <1>1, MembersEmpty DEF Waiting
<1>4. Peakless
  BY <1>2, <1>3 DEF Peakless, Outside, has_order
<1>5. ASSUME NEW s \in Sides, NEW p \in Prices PROVE CoveredAt(book, s, p)
  <2>1. Located(book, s, p) = {} /\ VolumeAt(book, s, p) = 0
    BY <1>2 DEF Located, VolumeAt, HasLevel
  <2>2. Sum(Visible(book), {}) = 0
    <3>1. IsFiniteSet({}) /\ IntOn(Visible(book), {})
      BY FS_EmptySet DEF IntOn
    <3> QED BY <3>1, SumType
  <2> QED BY <2>1, <2>2 DEF CoveredAt
<1> QED BY <1>4, <1>5 DEF Covered

LEMMA CoveredIsCovered ==
  ASSUME Sound(book), Covered(book)
  PROVE  VolumeCoversOrders
<1> SUFFICES ASSUME NEW side \in Sides, NEW p \in DOMAIN book.levels[side]
             PROVE  book.levels[side][p].total_volume >= LiveVolume(book.levels[side][p])
  BY DEF VolumeCoversOrders
<1> DEFINE level == book.levels[side][p]
           S == RestingIds(level)
           f == [id \in S |-> visible_qty(book.id_map[id])]
           g == Visible(book)
<1>1. HasLevel(book, side, p) /\ IsBook(book)
  BY DEF HasLevel, Sound
<1>2. p \in Prices
  BY <1>1, LevelType
<1>3. S = Located(book, side, p)
  <2>1. Alive(level) = Located(book, side, p)
    BY <1>1, <1>2 DEF Sound, LevelSound
  <2>2. S = Alive(level)
    BY DEF RestingIds, Alive, Queued
  <2> QED BY <2>1, <2>2
<1>4. IsFiniteSet(S) /\ IntOn(g, S)
  <2> HIDE DEF S, g
  <2> QED BY <1>2, <1>3, <1>1, LocatedFinite DEF g
<1>5. \A id \in S : g[id] = f[id]
  BY <1>3 DEF Located, Visible
<1>6. LiveVolume(level) = Sum(f, S)
  BY DEF LiveVolume, SumFunction, SumFunctionOnSet, FoldFunction, FoldFunctionOnSet, Sum
<1>7. VolumeAt(book, side, p) >= Sum(g, S) /\ VolumeAt(book, side, p) = level.total_volume
  BY <1>1, <1>2, <1>3 DEF Covered, CoveredAt, VolumeAt
<1> HIDE DEF S, f, g, level
<1>8. Sum(g, S) = Sum(f, S)
  BY <1>4, <1>5, SumSame
<1> QED BY <1>6, <1>7, <1>8 DEF level

(* A level never reports less than its orders show, in all states and also *)
(* between two fills of a call: every fill, cancellation, modification and *)
(* insertion lowers the stored volume by at most what it takes from the    *)
(* shown quantities, in spite of the clamped subtractions.  The clients    *)
(* keep the rules about ids and use no peaks.  Equality does not hold (the *)
(* run volume): a filled order leaves its last quantity in the level.      *)
THEOREM Coverage ==
  ASSUME {"ids", "requeues"} \subseteq Discipline, NoPeaks
  PROVE  Spec => []VolumeCoversOrders
<1>1. Init => Inv /\ Peakless /\ Covered(book)
  BY InitInv, InitCovers
<1>2. Inv /\ Peakless /\ Covered(book) /\ [Next]_vars => Inv' /\ Peakless' /\ Covered(book)'
  BY NextInv, NextCovers
<1>3. Inv /\ Covered(book) => VolumeCoversOrders
  BY CoveredIsCovered DEF Inv
<1> QED BY <1>1, <1>2, <1>3, PTL DEF Spec

-----------------------------------------------------------------------------
(* A call comes to an end: every step lowers the measure Remaining.        *)

OrderQuantities(st) == [f \in 1..Len(st) |-> st[f].order.quantity]
Lengths(st) == [f \in 1..Len(st) |-> Len(st[f].working)]
Asked(st) == Sum(OrderQuantities(st), 1..Len(st))
Listed(st) == Sum(Lengths(st), 1..Len(st))
Spent(b) == {id \in DOMAIN b.id_map : b.id_map[id].quantity = 0}

Measure(arr, st, b) ==
  <<Len(arr), Asked(st), Len(st), Cardinality(Spent(b)), Listed(st)>>

LEMMA RemainingIsMeasure ==
  /\ Remaining = Measure(stop_arrivals, stack, book)
  /\ Remaining' = Measure(stop_arrivals', stack', book')
<1>1. /\ DOMAIN [f \in 1..Len(stack) |-> stack[f].order.quantity] = 1..Len(stack)
      /\ DOMAIN [f \in 1..Len(stack) |-> Len(stack[f].working)] = 1..Len(stack)
      /\ DOMAIN [f \in 1..Len(stack') |-> stack'[f].order.quantity] = 1..Len(stack')
      /\ DOMAIN [f \in 1..Len(stack') |-> Len(stack'[f].working)] = 1..Len(stack')
  OBVIOUS
<1>2. Remaining = Measure(stop_arrivals, stack, book)
  BY <1>1, Zenon DEF Remaining, Measure, Asked, Listed, OrderQuantities, Lengths, Spent, Sum, SumFunction
<1>3. Remaining' = Measure(stop_arrivals', stack', book')
  BY <1>1, Zenon DEF Remaining, Measure, Asked, Listed, OrderQuantities, Lengths, Spent, Sum, SumFunction
<1> QED BY <1>2, <1>3

LEMMA PrecedesAt ==
  ASSUME NEW a1, NEW a2, NEW a3, NEW a4, NEW a5, NEW b1, NEW b2, NEW b3, NEW b4, NEW b5,
         \/ a1 < b1
         \/ a1 = b1 /\ a2 < b2
         \/ a1 = b1 /\ a2 = b2 /\ a3 < b3
         \/ a1 = b1 /\ a2 = b2 /\ a3 = b3 /\ a4 < b4
         \/ a1 = b1 /\ a2 = b2 /\ a3 = b3 /\ a4 = b4 /\ a5 < b5
  PROVE  Precedes(<<a1, a2, a3, a4, a5>>, <<b1, b2, b3, b4, b5>>)
<1> DEFINE m == <<a1, a2, a3, a4, a5>>
           n == <<b1, b2, b3, b4, b5>>
<1>1. /\ m[1] = a1 /\ m[2] = a2 /\ m[3] = a3 /\ m[4] = a4 /\ m[5] = a5
      /\ n[1] = b1 /\ n[2] = b2 /\ n[3] = b3 /\ n[4] = b4 /\ n[5] = b5
      /\ DOMAIN m = 1..5
  OBVIOUS
<1> HIDE DEF m, n
<1>2. /\ 1..(1 - 1) = {} /\ 1..(2 - 1) = {1} /\ 1..(3 - 1) = {1, 2}
      /\ 1..(4 - 1) = {1, 2, 3} /\ 1..(5 - 1) = {1, 2, 3, 4}
      /\ 1 \in 1..5 /\ 2 \in 1..5 /\ 3 \in 1..5 /\ 4 \in 1..5 /\ 5 \in 1..5
  OBVIOUS
<1>3. CASE a1 < b1
  <2>1. m[1] < n[1] /\ \A j \in 1..(1 - 1) : m[j] = n[j]
    BY <1>1, <1>2, <1>3
  <2> QED BY <1>1, <1>2, <2>1 DEF Precedes, m, n
<1>4. CASE a1 = b1 /\ a2 < b2
  <2>1. m[2] < n[2] /\ \A j \in 1..(2 - 1) : m[j] = n[j]
    BY <1>1, <1>2, <1>4
  <2> QED BY <1>1, <1>2, <2>1 DEF Precedes, m, n
<1>5. CASE a1 = b1 /\ a2 = b2 /\ a3 < b3
  <2>1. m[3] < n[3] /\ \A j \in 1..(3 - 1) : m[j] = n[j]
    BY <1>1, <1>2, <1>5
  <2> QED BY <1>1, <1>2, <2>1 DEF Precedes, m, n
<1>6. CASE a1 = b1 /\ a2 = b2 /\ a3 = b3 /\ a4 < b4
  <2>1. m[4] < n[4] /\ \A j \in 1..(4 - 1) : m[j] = n[j]
    BY <1>1, <1>2, <1>6
  <2> QED BY <1>1, <1>2, <2>1 DEF Precedes, m, n
<1>7. CASE a1 = b1 /\ a2 = b2 /\ a3 = b3 /\ a4 = b4 /\ a5 < b5
  <2>1. m[5] < n[5] /\ \A j \in 1..(5 - 1) : m[j] = n[j]
    BY <1>1, <1>2, <1>7
  <2> QED BY <1>1, <1>2, <2>1 DEF Precedes, m, n
<1> QED BY <1>3, <1>4, <1>5, <1>6, <1>7

LEMMA StackSums ==
  ASSUME NEW st \in Seq(Frames)
  PROVE  /\ Len(st) \in Nat /\ IsFiniteSet(1..Len(st))
         /\ IntOn(OrderQuantities(st), 1..Len(st)) /\ IntOn(Lengths(st), 1..Len(st))
         /\ Asked(st) \in Int /\ Listed(st) \in Int
         /\ \A f \in 1..Len(st) : /\ OrderQuantities(st)[f] = st[f].order.quantity
                                  /\ Lengths(st)[f] = Len(st[f].working)
                                  /\ st[f].order.quantity \in Nat /\ Len(st[f].working) \in Nat
<1>1. Len(st) \in Nat
  OBVIOUS
<1>2. IsFiniteSet(1..Len(st))
  BY <1>1, FS_Interval
<1>3. ASSUME NEW f \in 1..Len(st)
      PROVE  st[f].order.quantity \in Nat /\ Len(st[f].working) \in Nat
  <2>1. st[f] \in Frames
    BY ElementOfSeq
  <2>2. st[f].order \in Orders /\ st[f].working \in Seq(Orders)
    BY <2>1 DEF Frames
  <2> QED BY <2>2, OrderFields
<1>4. IntOn(OrderQuantities(st), 1..Len(st)) /\ IntOn(Lengths(st), 1..Len(st))
  BY <1>3 DEF IntOn, OrderQuantities, Lengths
<1>5. Asked(st) \in Int /\ Listed(st) \in Int
  BY <1>2, <1>4, SumType DEF Asked, Listed
<1> QED BY <1>1, <1>2, <1>3, <1>4, <1>5 DEF OrderQuantities, Lengths

(* The activation on top is replaced. *)
LEMMA ReplacedSums ==
  ASSUME NEW st \in Seq(Frames), st # <<>>, NEW tt \in Seq(Frames), Len(tt) = Len(st),
         \A f \in 1..Len(st) : f # 1 => tt[f] = st[f]
  PROVE  /\ Asked(tt) = Asked(st) - st[1].order.quantity + tt[1].order.quantity
         /\ Listed(tt) = Listed(st) - Len(st[1].working) + Len(tt[1].working)
<1>1. 1 \in 1..Len(st) /\ Len(st) \in Nat
  OBVIOUS
<1> DEFINE S == 1..Len(st)
<1>2. /\ IsFiniteSet(S) /\ IntOn(OrderQuantities(st), S) /\ IntOn(Lengths(st), S)
      /\ IntOn(OrderQuantities(tt), S) /\ IntOn(Lengths(tt), S)
      /\ \A f \in S : /\ OrderQuantities(st)[f] = st[f].order.quantity
                      /\ Lengths(st)[f] = Len(st[f].working)
                      /\ OrderQuantities(tt)[f] = tt[f].order.quantity
                      /\ Lengths(tt)[f] = Len(tt[f].working)
      /\ 1 \in S
  BY <1>1, StackSums
<1>3. \A f \in S \ {1} : /\ OrderQuantities(st)[f] = OrderQuantities(tt)[f]
                         /\ Lengths(st)[f] = Lengths(tt)[f]
  BY <1>2
<1>4. /\ Asked(st) = Sum(OrderQuantities(st), S) /\ Asked(tt) = Sum(OrderQuantities(tt), S)
      /\ Listed(st) = Sum(Lengths(st), S) /\ Listed(tt) = Sum(Lengths(tt), S)
  BY DEF Asked, Listed
<1> HIDE DEF S
<1>5. Sum(OrderQuantities(tt), S) = Sum(OrderQuantities(st), S) - OrderQuantities(st)[1] + OrderQuantities(tt)[1]
  BY <1>2, <1>3, SumUpdate
<1>6. Sum(Lengths(tt), S) = Sum(Lengths(st), S) - Lengths(st)[1] + Lengths(tt)[1]
  BY <1>2, <1>3, SumUpdate
<1> QED BY <1>2, <1>4, <1>5, <1>6

(* The activation on top returns. *)
LEMMA ReturnedSums ==
  ASSUME NEW st \in Seq(Frames), st # <<>>
  PROVE  Asked(st) = st[1].order.quantity + Asked(Tail(st))
<1> DEFINE tt == Tail(st)
           S  == 1..Len(tt)
           T  == 1..Len(st)
           h  == [i \in S |-> i + 1]
           f  == OrderQuantities(tt)
           g  == OrderQuantities(st)
<1>1. /\ tt \in Seq(Frames) /\ Len(tt) = Len(st) - 1 /\ Len(st) \in Nat \ {0}
      /\ \A i \in 1..(Len(st) - 1) : tt[i] = st[i + 1]
  BY HeadTailProperties
<1> HIDE DEF tt
<1>2. /\ IsFiniteSet(S) /\ IntOn(f, S) /\ \A i \in S : f[i] = tt[i].order.quantity
      /\ IsFiniteSet(T) /\ IntOn(g, T) /\ \A i \in T : g[i] = st[i].order.quantity
  BY <1>1, StackSums
<1>3. {h[x] : x \in S} = T \ {1}
  <2>1. \A x \in S : h[x] \in T \ {1}
    BY <1>1
  <2>2. ASSUME NEW y \in T \ {1} PROVE y - 1 \in S /\ h[y - 1] = y
    BY <1>1
  <2> HIDE DEF S, T, h
  <2> QED BY <2>1, <2>2
<1>4. \A x, y \in S : h[x] = h[y] => x = y
  BY <1>1
<1>5. \A x \in S : g[h[x]] = f[x]
  <2> SUFFICES ASSUME NEW x \in S PROVE g[h[x]] = f[x]
    OBVIOUS
  <2>1. h[x] = x + 1 /\ x + 1 \in T /\ x \in 1..(Len(st) - 1)
    BY <1>1
  <2>2. g[x + 1] = st[x + 1].order.quantity /\ f[x] = tt[x].order.quantity
    BY <1>2, <2>1
  <2> QED BY <1>1, <2>1, <2>2
<1>6. 1 \in T /\ g[1] = st[1].order.quantity
  BY <1>1, <1>2
<1>7. Asked(tt) = Sum(f, S) /\ Asked(st) = Sum(g, T)
  BY DEF Asked
<1> HIDE DEF S, T, h, f, g
<1>8. Sum(f, S) = Sum(g, T \ {1})
  BY <1>2, <1>3, <1>4, <1>5, SumRenamed
<1>9. Sum(g, T) = g[1] + Sum(g, T \ {1})
  BY <1>2, <1>6, SumWithout
<1>10. Asked(st) = st[1].order.quantity + Asked(tt)
  BY <1>6, <1>7, <1>8, <1>9
<1> QED BY <1>10 DEF tt

(* An order that meets the aggressor with nothing shown leaves the book or *)
(* shows a new peak.                                                       *)
LEMMA FillUnspends ==
  ASSUME NEW b, Sound(b), NEW side \in Sides, NEW price, HasLevel(b, side, price),
         NEW qty \in Nat, qty <= b.id_map[FrontId(b, side, price)].quantity
  PROVE  LET id      == FrontId(b, side, price)
             passive == [b.id_map[id] EXCEPT !.quantity = b.id_map[id].quantity - qty]
             c       == AfterFill(FrontDrained(b, side, price), passive, qty)
         IN  has_order(c, id) => c.id_map[id].quantity > 0
<1> DEFINE id      == FrontId(b, side, price)
           order   == b.id_map[id]
           passive == [order EXCEPT !.quantity = order.quantity - qty]
           level   == b.levels[side][price]
           drained == drain_cancelled(level)
           d       == FrontDrained(b, side, price)
           peak    == IF passive.peak_qty <= passive.reserve_qty
                      THEN passive.peak_qty ELSE passive.reserve_qty
           next    == [passive EXCEPT !.reserve_qty = passive.reserve_qty - peak,
                                      !.quantity = peak]
           moved   == push_back(pop_front(drained, qty), passive.id, peak)
           m       == SetLevel(d, side, price, moved)
           c       == AfterFill(d, passive, qty)
<1>1. IsBook(b) /\ price \in Prices
  BY LevelType DEF Sound
<1>2. Proper(level) /\ Alive(level) = Located(b, side, price) /\ Alive(level) # {}
  BY <1>1 DEF Sound, LevelSound
<1>3. /\ Proper(drained) /\ Alive(drained) = Alive(level)
      /\ Queued(drained) \subseteq Queued(level)
      /\ id \in Alive(level) /\ id = drained.queue[1]
  BY <1>2, DrainAlive DEF FrontId
<1>4. /\ has_order(b, id) /\ order.side = side /\ order.price = price
      /\ order \in Orders /\ order.id = id /\ order.quantity - qty \in Nat
  <2>1. id \in Located(b, side, price)
    BY <1>2, <1>3
  <2>2. qty <= order.quantity
    OBVIOUS
  <2> HIDE DEF id
  <2>3. has_order(b, id) /\ order.side = side /\ order.price = price
    BY <2>1 DEF Located, has_order
  <2>4. order \in Orders /\ order.id = id
    BY <1>1, <2>3, OrderInBook DEF Sound, has_order
  <2> HIDE DEF order
  <2> QED BY <2>2, <2>3, <2>4, OrderFields
<1>5. Sound(d) /\ d.id_map = b.id_map /\ HasLevel(d, side, price) /\ d.levels[side][price] = drained
  <2> HIDE DEF level, drained
  <2>1. d = SetLevel(b, side, price, drained)
    BY DEF FrontDrained, level, drained
  <2>2. level = b.levels[side][price]
    BY DEF level
  <2> QED BY <1>2, <1>3, <2>1, <2>2, SetLevelSound
<1> HIDE DEF id, order
<1>6. /\ passive \in Orders /\ passive.id = id /\ passive.side = side /\ passive.price = price
  BY <1>4 DEF Orders
<1> HIDE DEF passive, d
<1>7. has_order(d, passive.id) /\ d.id_map[passive.id] = order
  BY <1>4, <1>5, <1>6 DEF has_order, order
<1>8. CASE passive.quantity = 0 /\ is_iceberg(passive) /\ passive.reserve_qty > 0
  <2>1. peak \in Nat /\ peak > 0
    BY <1>6, <1>8, OrderFields DEF is_iceberg
  <2>2. next.id = id /\ next.quantity = peak
    <3> HIDE DEF peak
    <3> QED BY <1>6 DEF Orders
  <2>3. drain_cancelled(drained).queue[1] = id
    BY <1>2, <1>3, DrainTwice
  <2>4. /\ Proper(moved) /\ Alive(moved) = Alive(drained)
        /\ Queued(moved) \subseteq Queued(drained)
    <3> HIDE DEF drained, peak
    <3> QED BY <1>2, <1>3, <1>6, <2>1, <2>3, PopPushAlive
  <2>5. Sound(m) /\ m.id_map = d.id_map
    <3> HIDE DEF moved, drained
    <3> QED BY <1>5, <2>4, SetLevelSound
  <2>6. c = update_order(m, next)
    BY <1>5, <1>6, <1>8 DEF AfterFill, replenish_iceberg
  <2> HIDE DEF m, next, c, peak
  <2>7. has_order(m, next.id)
    BY <1>6, <1>7, <2>2, <2>5 DEF has_order
  <2>8. c.id_map[id] = next
    BY <2>2, <2>5, <2>6, <2>7, UpdateOrders
  <2> QED BY <2>1, <2>2, <2>8 DEF c, d, passive, order, id
<1>9. CASE passive.quantity = 0 /\ ~(is_iceberg(passive) /\ passive.reserve_qty > 0)
  <2> DEFINE u == update_order(d, passive)
  <2>1. c = cancel_order(u, passive.id)
    BY <1>9 DEF AfterFill
  <2>2. Sound(u) /\ has_order(u, passive.id)
    BY <1>4, <1>5, <1>6, <1>7, UpdateSound
  <2> HIDE DEF u, c
  <2>3. ~has_order(c, id)
    BY <1>6, <2>1, <2>2, CancelSound
  <2> QED BY <2>3 DEF c, d, passive, order, id
<1>10. CASE passive.quantity # 0
  <2> DEFINE r == reduce_level_volume(d, side, price, qty)
  <2>1. c = update_order(r, passive)
    BY <1>6, <1>10 DEF AfterFill
  <2>2. Sound(r) /\ r.id_map = d.id_map
    BY <1>5, ReduceLevelSound
  <2> HIDE DEF r, c
  <2>3. c.id_map[id] = passive
    <3>1. has_order(r, passive.id)
      BY <1>7, <2>2 DEF has_order
    <3> QED BY <1>6, <2>1, <2>2, <3>1, UpdateOrders
  <2>4. passive.quantity > 0
    BY <1>6, <1>10, OrderFields
  <2> QED BY <2>3, <2>4 DEF c, d, passive, order, id
<1> QED BY <1>8, <1>9, <1>10

(* Finitely many orders rest, so those with nothing shown can be counted. *)
FiniteBook == IsFiniteSet(DOMAIN book.id_map)

LEMMA FiniteGrows ==
  ASSUME NEW b, NEW c, IsFiniteSet(DOMAIN b.id_map), NEW id,
         \A x : has_order(c, x) => has_order(b, x) \/ x = id
  PROVE  IsFiniteSet(DOMAIN c.id_map)
<1>1. DOMAIN c.id_map \subseteq DOMAIN b.id_map \cup {id}
  BY DEF has_order
<1>2. IsFiniteSet(DOMAIN b.id_map \cup {id})
  BY FS_AddElement
<1> QED BY <1>1, <1>2, FS_Subset

LEMMA NextFinite ==
  ASSUME Inv, FiniteBook, [Next]_vars
  PROVE  FiniteBook'
<1> USE DEF FiniteBook
<1>0. Sound(book)
  BY DEF Inv
<1>1. ASSUME book' = book PROVE FiniteBook'
  BY <1>1
<1>2. ASSUME NEW id, has_order(book, id), book' = cancel_order(book, id) PROVE FiniteBook'
  <2>1. \A x : has_order(book', x) => has_order(book, x)
    BY <1>0, <1>2, CancelOrders
  <2> QED BY <2>1, FiniteGrows
<1>3. ASSUME NEW id \in Ids, NEW m \in Amendments, ModifyRequeue(id, m) PROVE FiniteBook'
  <2> DEFINE left == cancel_order(book, id)
             moved == Amended(book.id_map[id], m)
  <2>1. has_order(book, id) /\ book' = insert_order(left, moved)
    BY <1>3 DEF ModifyRequeue
  <2>2. Sound(left) /\ \A x : has_order(left, x) => has_order(book, x)
    BY <1>0, <2>1, CancelSound, CancelOrders
  <2> HIDE DEF left, moved
  <2>3. \A x : has_order(book', x) => has_order(left, x) \/ x = moved.id
    BY <2>1, <2>2, InsertOrders
  <2>4. \A x : has_order(book', x) => has_order(book, x) \/ x = moved.id
    BY <2>2, <2>3
  <2> QED BY <2>4, FiniteGrows
<1>4. ASSUME NEW id \in Ids, NEW m \in Amendments, ModifyInPlace(id, m) PROVE FiniteBook'
  <2> DEFINE order == book.id_map[id]
             moved == Amended(order, m)
             delta == order.quantity - moved.quantity
             set   == update_order(book, moved)
  <2>1. /\ has_order(book, id) /\ ~LosesPriority(order, m)
        /\ book' = reduce_level_volume(set, order.side, order.price, delta)
    BY <1>4 DEF ModifyInPlace
  <2>2. order \in Orders /\ order.id = id /\ order.side \in Sides
    BY <2>1, OutsideUnknown, OrderFields
  <2>3. moved \in Orders /\ moved.id = id /\ moved.side = order.side
        /\ moved.price = order.price /\ delta \in Nat
    <3> HIDE DEF order
    <3> QED BY <2>1, <2>2, AmendedType, InPlaceFields
  <2>4. Sound(set) /\ \A x : has_order(set, x) <=> has_order(book, x)
    <3> HIDE DEF moved
    <3> QED BY <1>0, <2>1, <2>3, UpdateSound, UpdateOrders
  <2> HIDE DEF set, delta, moved, order
  <2>5. book'.id_map = set.id_map
    BY <2>1, <2>2, <2>3, <2>4, ReduceLevelSound
  <2>6. \A x : has_order(book', x) => has_order(book, x)
    BY <2>4, <2>5 DEF has_order
  <2> QED BY <2>6, FiniteGrows
<1>5. ASSUME Fill PROVE FiniteBook'
  <2>1. PICK id \in Ids, qty \in Nat : Fills(id, qty)
    BY <1>5, FillEffect
  <2>2. \A x : has_order(book', x) => has_order(book, x) \/ x = id
    BY <2>1 DEF Fills
  <2> QED BY <2>2, FiniteGrows
<1>6. ASSUME FinishResting PROVE FiniteBook'
  <2>1. book' = insert_order(book, Top.order)
    BY <1>6 DEF FinishResting
  <2>2. \A x : has_order(book', x) => has_order(book, x) \/ x = Top.order.id
    BY <1>0, <2>1, InsertOrders
  <2> QED BY <2>2, FiniteGrows
<1>7. CASE Submit
  BY <1>1, <1>2, <1>7 DEF Submit, SubmitNew, process_new_order, CancelPending, CancelResting,
     CancelUnknown, Reject
<1>8. CASE Amend
  BY <1>1, <1>2, <1>3, <1>4, <1>8 DEF Amend, ModifyUnknown, ReplaceOrder, process_new_order,
     ReplaceUnknown, Reject
<1>9. CASE Step
  BY <1>1, <1>5, <1>6, <1>9 DEF Step, TriggerStop, KeepStop, FinishExhausted, FinishFilled
<1>10. CASE UNCHANGED vars
  BY <1>1, <1>10 DEF vars
<1> QED BY <1>7, <1>8, <1>9, <1>10 DEF Next

LEMMA FillProgresses ==
  ASSUME Inv, FiniteBook, Fill
  PROVE  Precedes(Remaining', Remaining)
<1> DEFINE side      == Opposite(Top.order.side)
           aggressor == Top.order
<1>1. ~Idle /\ Sound(book) /\ pending_stops \in Seq(Orders) /\ stop_arrivals' = stop_arrivals
  BY DEF Fill, Matching, Inv, TypeOK
<1>2. /\ stack \in Seq(Frames) /\ stack # <<>> /\ Top = stack[1]
      /\ aggressor \in Orders /\ aggressor.quantity \in Nat /\ side \in Sides
  BY <1>1, TopType, OrderFields DEF Opposite, Sides
<1>3. aggressor.quantity > 0
  BY DEF Fill
<1>4. PICK price \in DOMAIN book.levels[side] :
        LET id        == FrontId(book, side, price)
            standing  == book.id_map[id]
            fill_qty  == Lesser(aggressor.quantity, standing.quantity)
            passive   == [standing EXCEPT !.quantity = standing.quantity - fill_qty]
            left      == [aggressor EXCEPT !.quantity = aggressor.quantity - fill_qty]
        IN  /\ has_order(book, id)
            /\ book' = [AfterFill(FrontDrained(book, side, price), passive, fill_qty)
                          EXCEPT !.last_trade_price = standing.price]
            /\ \/ stack' = [stack EXCEPT ![1] = [order |-> left, working |-> pending_stops,
                                                 last_price |-> standing.price]]
               \/ stack' = [stack EXCEPT ![1] = Activation(left)]
  BY DEF Fill
<1> DEFINE id       == FrontId(book, side, price)
           standing == book.id_map[id]
           fill_qty == Lesser(aggressor.quantity, standing.quantity)
           passive  == [standing EXCEPT !.quantity = standing.quantity - fill_qty]
           left     == [aggressor EXCEPT !.quantity = aggressor.quantity - fill_qty]
           frame    == [order |-> left, working |-> pending_stops, last_price |-> standing.price]
           c        == AfterFill(FrontDrained(book, side, price), passive, fill_qty)
<1>5. HasLevel(book, side, price) /\ has_order(book, id)
  BY <1>4 DEF HasLevel
<1>6. standing.quantity \in Nat /\ standing.price \in Prices
  BY <1>5, OutsideUnknown, OrderFields
<1>7. /\ fill_qty \in Nat /\ fill_qty <= standing.quantity /\ fill_qty <= aggressor.quantity
      /\ fill_qty = 0 => standing.quantity = 0
  <2> HIDE DEF standing, aggressor
  <2> QED BY <1>2, <1>3, <1>6 DEF Lesser
<1>8. left \in Orders /\ left.quantity = aggressor.quantity - fill_qty
  <2>1. aggressor.quantity - fill_qty \in Nat
    <3> HIDE DEF aggressor, fill_qty
    <3> QED BY <1>2, <1>7
  <2> HIDE DEF aggressor, fill_qty
  <2> QED BY <1>2, <2>1 DEF Orders
<1>9. PICK fr \in Frames : fr.order = left /\ stack' = [stack EXCEPT ![1] = fr]
  <2>1. Activation(left) \in Frames /\ Activation(left).order = left
    <3> HIDE DEF left
    <3> QED BY <1>8, ActivationType DEF Activation
  <2>2. frame \in Frames /\ frame.order = left
    <3> HIDE DEF left, standing
    <3> QED BY <1>1, <1>6, <1>8 DEF Frames
  <2>3. stack' = [stack EXCEPT ![1] = frame] \/ stack' = [stack EXCEPT ![1] = Activation(left)]
    BY <1>4
  <2> HIDE DEF frame, left
  <2> QED BY <2>1, <2>2, <2>3
<1>10. /\ stack' \in Seq(Frames) /\ Len(stack') = Len(stack) /\ stack'[1] = fr
       /\ \A f \in 1..Len(stack) : f # 1 => stack'[f] = stack[f]
  BY <1>2, <1>9, ReplaceTop
<1>11. Asked(stack') = Asked(stack) - fill_qty /\ Asked(stack) \in Int
  <2>1. Asked(stack') = Asked(stack) - stack[1].order.quantity + stack'[1].order.quantity
    BY <1>2, <1>10, ReplacedSums
  <2>2. Asked(stack) \in Int
    BY <1>2, StackSums
  <2>3. stack[1].order.quantity = aggressor.quantity
        /\ stack'[1].order.quantity = aggressor.quantity - fill_qty
    BY <1>2, <1>8, <1>9, <1>10
  <2> HIDE DEF aggressor, fill_qty
  <2> QED BY <1>2, <1>7, <2>1, <2>2, <2>3
<1>12. CASE fill_qty > 0
  <2>1. Asked(stack') < Asked(stack)
    <3> HIDE DEF fill_qty
    <3> QED BY <1>7, <1>11, <1>12
  <2> QED BY <1>1, <2>1, RemainingIsMeasure, PrecedesAt DEF Measure
<1>13. CASE fill_qty = 0
  <2>1. Asked(stack') = Asked(stack) /\ standing.quantity = 0
    <3> HIDE DEF fill_qty, standing
    <3> QED BY <1>7, <1>11, <1>13
  <2>2. id \in Spent(book)
    BY <1>5, <2>1 DEF Spent, has_order
  <2>3. book'.id_map = c.id_map
    <3>1. book' = [c EXCEPT !.last_trade_price = standing.price]
      BY <1>4
    <3> HIDE DEF fill_qty, side
    <3>2. Sound(c)
      BY <1>1, <1>2, <1>5, <1>7, FillSound
    <3> HIDE DEF c
    <3> QED BY <3>1, <3>2 DEF Sound, IsBook
  <2>4. has_order(book', id) => book'.id_map[id].quantity > 0
    <3> HIDE DEF fill_qty, side
    <3>1. has_order(c, id) => c.id_map[id].quantity > 0
      BY <1>1, <1>2, <1>5, <1>7, FillUnspends
    <3> HIDE DEF c
    <3> QED BY <2>3, <3>1 DEF has_order
  <2>5. /\ \A x : x # id => (has_order(book', x) <=> has_order(book, x))
        /\ \A x : x # id /\ has_order(book, x) => book'.id_map[x] = book.id_map[x]
    <3> HIDE DEF fill_qty, side
    <3>1. /\ \A x : x # id => (has_order(c, x) <=> has_order(book, x))
          /\ \A x : x # id /\ has_order(book, x) => c.id_map[x] = book.id_map[x]
      BY <1>1, <1>2, <1>5, <1>7, FillOrders
    <3> HIDE DEF c, id
    <3> QED BY <2>3, <3>1 DEF has_order
  <2> HIDE DEF id
  <2>6. Spent(book') = Spent(book) \ {id}
    BY <2>4, <2>5 DEF Spent, has_order
  <2>7. IsFiniteSet(Spent(book))
    BY FS_Subset DEF FiniteBook, Spent
  <2>8. Cardinality(Spent(book')) < Cardinality(Spent(book))
    <3>1. /\ Cardinality(Spent(book) \ {id}) = Cardinality(Spent(book)) - 1
          /\ Cardinality(Spent(book)) \in Nat
      BY <2>2, <2>7, FS_RemoveElement, FS_CardinalityType
    <3> QED BY <2>6, <3>1
  <2> QED BY <1>1, <1>10, <2>1, <2>8, RemainingIsMeasure, PrecedesAt DEF Measure
<1>14. fill_qty > 0 \/ fill_qty = 0
  <2> HIDE DEF fill_qty
  <2> QED BY <1>7
<1> QED BY <1>12, <1>13, <1>14

LEMMA TriggerProgresses ==
  ASSUME Inv, Arrived, TriggerStop
  PROVE  Precedes(Remaining', Remaining)
<1> DEFINE stop == Head(stack[1].working)
<1>1. stop_arrivals' = RemoveFirst(stop_arrivals, stop.id) /\ stop_arrivals \in Seq(Ids)
  BY DEF TriggerStop, Top, Inv, TypeOK
<1>2. stop \in Waiting(pending_stops, stack)
  BY TriggerEffect
<1> HIDE DEF stop
<1> DEFINE x == stop.id
           n == Len(stop_arrivals)
           S == {i \in 1..n : stop_arrivals[i] = x}
<1>3. x \in NamesIn(pending_stops, stack)
  BY <1>2 DEF NamesIn
<1> HIDE DEF x
<1>4. PICK m \in 1..n : stop_arrivals[m] = x
  BY <1>3 DEF Arrived, Lists
<1>5. S = {m} /\ n \in Nat
  BY <1>1, <1>4 DEF Arrived, Lists
<1>6. RemoveFirst(stop_arrivals, x) = RemoveAt(stop_arrivals, m)
  <2>1. RemoveFirst(stop_arrivals, x) = RemoveAt(stop_arrivals, Min(S))
    BY <1>4 DEF RemoveFirst, SelectInSeq
  <2>2. Min(S) = m
    BY <1>4, <1>5 DEF Min
  <2> QED BY <2>1, <2>2
<1>7. Len(stop_arrivals') < Len(stop_arrivals)
  <2>1. Len(RemoveAt(stop_arrivals, m)) = n - 1
    BY <1>1, RemoveAtFields
  <2> QED BY <1>1, <1>5, <1>6, <2>1 DEF x
<1> QED BY <1>7, RemainingIsMeasure, PrecedesAt DEF Measure

LEMMA KeepProgresses ==
  ASSUME Inv, KeepStop
  PROVE  Precedes(Remaining', Remaining)
<1>1. /\ ~Idle /\ stack[1].working # <<>>
      /\ stack' = [stack EXCEPT ![1].working = Tail(stack[1].working)]
      /\ UNCHANGED <<book, stop_arrivals>>
  BY DEF KeepStop, Evaluating, Advanced, Top
<1>2. stack \in Seq(Frames) /\ stack # <<>>
  BY <1>1, TopType
<1>3. /\ stack' \in Seq(Frames) /\ Len(stack') = Len(stack)
      /\ stack'[1].order = stack[1].order
      /\ Len(stack'[1].working) = Len(stack[1].working) - 1
      /\ Len(stack[1].working) \in Nat
      /\ \A f \in 1..Len(stack) : f # 1 => stack'[f] = stack[f]
  BY <1>1, <1>2, AdvancedFields
<1>4. /\ Asked(stack') = Asked(stack) - stack[1].order.quantity + stack'[1].order.quantity
      /\ Listed(stack') = Listed(stack) - Len(stack[1].working) + Len(stack'[1].working)
  BY <1>2, <1>3, ReplacedSums
<1>5. /\ Asked(stack) \in Int /\ Listed(stack) \in Int /\ stack[1].order.quantity \in Nat
  <2>1. 1 \in 1..Len(stack)
    BY <1>2
  <2> QED BY <1>2, <2>1, StackSums
<1>6. Asked(stack') = Asked(stack) /\ Listed(stack') < Listed(stack)
  <2>1. \A a \in Int : \A q \in Nat : a - q + q = a /\ a - q + (q - 1) < a
    OBVIOUS
  <2>2. Asked(stack') = Asked(stack) - stack[1].order.quantity + stack[1].order.quantity
    BY <1>3, <1>4
  <2>3. Listed(stack') = Listed(stack) - Len(stack[1].working) + (Len(stack[1].working) - 1)
    BY <1>3, <1>4
  <2>4. Asked(stack') = Asked(stack)
    BY <1>5, <2>1, <2>2
  <2>5. Listed(stack') < Listed(stack)
    BY <1>3, <1>5, <2>1, <2>3
  <2> QED BY <2>4, <2>5
<1>7. Spent(book') = Spent(book)
  BY <1>1
<1> QED BY <1>1, <1>3, <1>6, <1>7, RemainingIsMeasure, PrecedesAt DEF Measure

LEMMA FinishProgresses ==
  ASSUME Inv, FinishResting \/ FinishExhausted \/ FinishFilled
  PROVE  Precedes(Remaining', Remaining)
<1>1. ~Idle /\ stack' = Tail(stack) /\ stop_arrivals' = stop_arrivals
  BY DEF FinishResting, FinishExhausted, FinishFilled, LoopEnded, Matching
<1>2. stack \in Seq(Frames) /\ stack # <<>>
  BY <1>1, TopType
<1>3. stack' \in Seq(Frames) /\ Len(stack') < Len(stack)
  BY <1>1, <1>2, HeadTailProperties
<1>4. Asked(stack) = stack[1].order.quantity + Asked(stack')
  BY <1>1, <1>2, ReturnedSums
<1>5. stack[1].order.quantity \in Nat /\ Asked(stack') \in Int
  <2>1. 1 \in 1..Len(stack)
    BY <1>2
  <2> QED BY <1>2, <1>3, <2>1, StackSums
<1>6. Asked(stack') = Asked(stack) \/ Asked(stack') < Asked(stack)
  BY <1>4, <1>5
<1> QED BY <1>1, <1>3, <1>6, RemainingIsMeasure, PrecedesAt DEF Measure

(* submit() returns: no step of a call fails to lower the measure, so the  *)
(* call takes finitely many steps, whatever stops its trades trigger and   *)
(* however deep the evaluations nest.  Of the clients only the rules about *)
(* ids are used.                                                           *)
THEOREM Progress ==
  ASSUME {"ids", "requeues"} \subseteq Discipline
  PROVE  Spec => EveryStepProgresses
<1>0. "ids" \in Discipline
  OBVIOUS
<1>1. Init => Inv /\ Arrived /\ FiniteBook
  <2> SUFFICES ASSUME Init PROVE Inv /\ Arrived /\ FiniteBook
    OBVIOUS
  <2>1. /\ pending_stops = <<>> /\ stack = <<>> /\ stop_arrivals = <<>>
        /\ DOMAIN book.id_map = {}
    BY DEF Init, EmptyBook, EmptyMap
  <2>2. NamesIn(pending_stops, stack) = {} /\ 1..Len(stop_arrivals) = {}
    BY <2>1, MembersEmpty DEF NamesIn, Waiting
  <2> QED BY <2>1, <2>2, InitInv, FS_EmptySet DEF Arrived, Lists, FiniteBook
<1>2. Inv /\ Arrived /\ FiniteBook /\ [Next]_vars => Inv' /\ Arrived' /\ FiniteBook'
  BY <1>0, NextInv, NextArrived, NextFinite
<1>3. Inv /\ Arrived /\ FiniteBook /\ [Next]_vars =>
        [~Idle => Precedes(Remaining', Remaining)]_vars
  <2> SUFFICES ASSUME Inv, Arrived, FiniteBook, Next, ~Idle
               PROVE  Precedes(Remaining', Remaining)
    OBVIOUS
  <2>1. ~Submit /\ ~Amend
    BY DEF Submit, Amend, SubmitNew, CancelPending, CancelResting, CancelUnknown, ModifyRequeue,
       ModifyInPlace, ModifyUnknown, ReplaceOrder, ReplaceUnknown
  <2>2. Step
    BY <2>1 DEF Next
  <2> QED BY <2>2, FillProgresses, TriggerProgresses, KeepProgresses, FinishProgresses DEF Step
<1> QED BY <1>1, <1>2, <1>3, PTL DEF Spec, EveryStepProgresses

LEMMA SumNatural ==
  ASSUME NEW f, NEW S, IsFiniteSet(S), \A x \in S : f[x] \in Nat
  PROVE  Sum(f, S) \in Nat
<1>1. IntOn(f, S) /\ \A x \in S \ {} : f[x] >= 0
  BY DEF IntOn
<1>2. Sum(f, {}) = 0 /\ Sum(f, S) \in Int
  BY <1>1, SumType
<1>3. Sum(f, {}) <= Sum(f, S)
  BY <1>1, SumSubset
<1> QED BY <1>2, <1>3

(* The measure is made of natural numbers, so it cannot be lowered for     *)
(* ever: with Progress, a call of submit() has finitely many steps.        *)
THEOREM MeasureNatural ==
  ASSUME {"ids", "requeues"} \subseteq Discipline
  PROVE  Spec => [](Remaining \in Nat \X Nat \X Nat \X Nat \X Nat)
<1>1. Init => Inv /\ FiniteBook
  <2> SUFFICES ASSUME Init PROVE Inv /\ FiniteBook
    OBVIOUS
  <2>1. DOMAIN book.id_map = {}
    BY DEF Init, EmptyBook, EmptyMap
  <2> QED BY <2>1, InitInv, FS_EmptySet DEF FiniteBook
<1>2. Inv /\ FiniteBook /\ [Next]_vars => Inv' /\ FiniteBook'
  BY NextInv, NextFinite
<1>3. Inv /\ FiniteBook => Remaining \in Nat \X Nat \X Nat \X Nat \X Nat
  <2> SUFFICES ASSUME Inv, FiniteBook
               PROVE  Remaining \in Nat \X Nat \X Nat \X Nat \X Nat
    OBVIOUS
  <2>1. stack \in Seq(Frames) /\ Len(stop_arrivals) \in Nat
    BY DEF Inv, TypeOK
  <2>2. /\ Len(stack) \in Nat /\ IsFiniteSet(1..Len(stack))
        /\ \A f \in 1..Len(stack) : /\ OrderQuantities(stack)[f] \in Nat
                                    /\ Lengths(stack)[f] \in Nat
    BY <2>1, StackSums
  <2>3. Asked(stack) \in Nat /\ Listed(stack) \in Nat
    BY <2>2, SumNatural DEF Asked, Listed
  <2>4. Cardinality(Spent(book)) \in Nat
    BY FS_Subset, FS_CardinalityType DEF FiniteBook, Spent
  <2> QED BY <2>1, <2>2, <2>3, <2>4, RemainingIsMeasure DEF Measure
<1> QED BY <1>1, <1>2, <1>3, PTL DEF Spec

=============================================================================
