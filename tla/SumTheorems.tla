----------------------------- MODULE SumTheorems -----------------------------
(***************************************************************************)
(* Sums over finite sets, as SumFunctionOnSet and SumFunction of the       *)
(* community modules define them: the ledgers compare their running totals *)
(* with such sums, and a step of a ledger changes one summand.             *)
(*                                                                         *)
(* The library's induction theorems take an operator as a parameter, which *)
(* the provers cannot instantiate.  The induction principles below speak   *)
(* of sets instead, and follow from the theorem that a well-founded        *)
(* relation has minimal elements.                                          *)
(***************************************************************************)
EXTENDS Integers, Functions, FiniteSetTheorems, TLAPS

\* A nonempty set of naturals has a least element.
LEMMA LeastNatural ==
    ASSUME NEW T, T \subseteq Nat, T # {}
    PROVE  \E n \in T : \A m \in T : n <= m
<1> DEFINE R == {ss \in Nat \X Nat : ss[1] < ss[2]}
<1>1. IsWellFoundedOn(R, Nat)
  BY NatLessThanWellFounded DEF OpToRel
<1>2. PICK n \in T : \A m \in T : ~ <<m, n>> \in R
  <2> HIDE DEF R
  <2> QED BY <1>1, WFMin
<1>3. ASSUME NEW m \in T PROVE n <= m
  <2>1. n \in Nat /\ m \in Nat
    BY <1>2
  <2>2. m < n => <<m, n>> \in R
    BY <2>1
  <2> QED BY <1>2, <2>1, <2>2
<1> QED BY <1>2, <1>3

\* Induction over the naturals, for a set.
LEMMA NaturalInduction ==
    ASSUME NEW T, 0 \in T, \A n \in Nat : n \in T => n + 1 \in T
    PROVE  Nat \subseteq T
<1> SUFFICES ASSUME Nat \ T # {} PROVE FALSE
  OBVIOUS
<1>1. PICK n \in Nat \ T : \A m \in Nat \ T : n <= m
  BY LeastNatural
<1>2. n # 0 /\ n - 1 \in Nat /\ (n - 1) + 1 = n
  BY <1>1
<1>3. n - 1 \in T
  BY <1>1, <1>2
<1> QED BY <1>1, <1>2, <1>3

\* Induction over the subsets of a finite set, for a set of subsets.
LEMMA SubsetInduction ==
    ASSUME NEW S, IsFiniteSet(S), NEW F,
           \A T \in SUBSET S : (\A x \in T : T \ {x} \in F) => T \in F
    PROVE  SUBSET S \subseteq F
<1> DEFINE R == StrictSubsetOrdering(S)
<1>1. IsWellFoundedOn(R, SUBSET S)
  BY FS_StrictSubsetOrderingWellFounded, FS_FiniteSubsetsOfFinite
<1> DEFINE Bad == (SUBSET S) \ F
<1> SUFFICES ASSUME Bad # {} PROVE FALSE
  OBVIOUS
<1>2. PICK T \in Bad : \A U \in Bad : ~ <<U, T>> \in R
  <2>1. Bad \subseteq SUBSET S
    OBVIOUS
  <2> HIDE DEF R, Bad
  <2> QED BY <1>1, <2>1, WFMin
<1>3. ASSUME NEW x \in T PROVE T \ {x} \in F
  <2>1. T \ {x} \in SUBSET S /\ T \ {x} \subseteq T /\ T \ {x} # T
    BY <1>2, <1>3
  <2>2. T \in SUBSET S
    BY <1>2
  <2>3. <<T \ {x}, T>> \in R
    BY <2>1, <2>2 DEF StrictSubsetOrdering
  <2> QED BY <1>2, <2>1, <2>3
<1> QED BY <1>2, <1>3

-----------------------------------------------------------------------------
(* The recursive function behind the fold. *)

Summing(g, f, S) ==
    g = [s \in SUBSET S |->
            IF s = {} THEN 0
            ELSE LET x == CHOOSE x \in s : TRUE IN f[x] + g[s \ {x}]]

LEMMA SumIsFold ==
    ASSUME NEW f, NEW S
    PROVE  SumFunctionOnSet(f, S) = (CHOOSE p : Summing(p, f, S))[S]
BY DEF SumFunctionOnSet, FoldFunctionOnSet, MapThenFoldSet, Summing

LEMMA SumFunctionIsSum ==
    ASSUME NEW f
    PROVE  SumFunction(f) = SumFunctionOnSet(f, DOMAIN f)
BY DEF SumFunction

LEMMA SummingExists ==
    ASSUME NEW f, NEW S, IsFiniteSet(S)
    PROVE  \E g : Summing(g, f, S)
<1> DEFINE body(g, s) == IF s = {} THEN 0
                         ELSE LET x == CHOOSE x \in s : TRUE IN f[x] + g[s \ {x}]
           T == {n \in Nat : \E g : /\ g = [s \in SUBSET S |-> g[s]]
                                    /\ \A s \in SUBSET S : Cardinality(s) <= n => g[s] = body(g, s)}
<1>1. \A s \in SUBSET S : IsFiniteSet(s) /\ Cardinality(s) \in Nat /\ Cardinality(s) <= Cardinality(S)
  BY FS_Subset, FS_CardinalityType
<1>2. 0 \in T
  <2> DEFINE g == [s \in SUBSET S |-> 0]
  <2>1. \A s \in SUBSET S : Cardinality(s) <= 0 => s = {}
    BY <1>1, FS_EmptySet
  <2>2. \A s \in SUBSET S : Cardinality(s) <= 0 => g[s] = body(g, s)
    BY <2>1
  <2>3. g = [s \in SUBSET S |-> g[s]]
    OBVIOUS
  <2> HIDE DEF g
  <2> QED BY <2>2, <2>3
<1>3. ASSUME NEW n \in Nat, n \in T PROVE n + 1 \in T
  <2>1. PICK g : /\ g = [s \in SUBSET S |-> g[s]]
                 /\ \A s \in SUBSET S : Cardinality(s) <= n => g[s] = body(g, s)
    BY <1>3
  <2> DEFINE h == [s \in SUBSET S |-> body(g, s)]
  <2>2. \A s \in SUBSET S : Cardinality(s) <= n => h[s] = g[s]
    BY <2>1
  <2>3. ASSUME NEW s \in SUBSET S, Cardinality(s) <= n + 1 PROVE h[s] = body(h, s)
    <3>1. CASE s = {}
      BY <3>1
    <3>2. CASE s # {}
      <4> DEFINE x == CHOOSE x \in s : TRUE
      <4>1. x \in s
        BY <3>2
      <4>2. s \ {x} \in SUBSET S /\ Cardinality(s \ {x}) = Cardinality(s) - 1
        BY <4>1, <1>1, FS_RemoveElement
      <4>3. h[s \ {x}] = g[s \ {x}]
        <5>1. Cardinality(s) - 1 <= n
          BY <1>1, <2>3
        <5> HIDE DEF h, x
        <5> QED BY <4>2, <5>1, <2>2
      <4>4. h[s] = f[x] + g[s \ {x}]
        BY <3>2
      <4> QED BY <3>2, <4>3, <4>4
    <3> QED BY <3>1, <3>2
  <2>4. h = [s \in SUBSET S |-> h[s]]
    OBVIOUS
  <2>5. n + 1 \in Nat
    OBVIOUS
  <2> HIDE DEF h
  <2> QED BY <2>3, <2>4, <2>5
<1>4. Cardinality(S) \in T
  <2> HIDE DEF T
  <2> QED BY <1>1, <1>2, <1>3, NaturalInduction
<1>5. PICK g : /\ g = [s \in SUBSET S |-> g[s]]
               /\ \A s \in SUBSET S : Cardinality(s) <= Cardinality(S) => g[s] = body(g, s)
  BY <1>4
<1>6. \A s \in SUBSET S : g[s] = body(g, s)
  BY <1>1, <1>5
<1>7. g = [s \in SUBSET S |-> body(g, s)]
  BY <1>5, <1>6
<1> QED BY <1>7 DEF Summing

\* What two such functions say of a set they share does not depend on which
\* larger set they were built for.
LEMMA SummingAgrees ==
    ASSUME NEW f, NEW e, NEW S, IsFiniteSet(S), NEW U, U \subseteq S,
           \A x \in U : f[x] = e[x],
           NEW g, Summing(g, f, S), NEW h, Summing(h, e, U)
    PROVE  g[U] = h[U]
<1> DEFINE F == {T \in SUBSET U : g[T] = h[T]}
<1>1. ASSUME NEW T \in SUBSET U, \A x \in T : T \ {x} \in F
      PROVE  T \in F
  <2>1. CASE T = {}
    BY <2>1 DEF Summing
  <2>2. CASE T # {}
    <3> DEFINE x == CHOOSE x \in T : TRUE
    <3>1. x \in T
      BY <2>2
    <3>2. g[T \ {x}] = h[T \ {x}] /\ f[x] = e[x]
      BY <1>1, <3>1
    <3>3. g[T] = f[x] + g[T \ {x}]
      BY <2>2 DEF Summing
    <3>4. h[T] = e[x] + h[T \ {x}]
      BY <2>2 DEF Summing
    <3> QED BY <3>2, <3>3, <3>4
  <2> QED BY <2>1, <2>2
<1>2. SUBSET U \subseteq F
  <2>1. IsFiniteSet(U)
    BY FS_Subset
  <2> HIDE DEF F
  <2> QED BY <1>1, <2>1, SubsetInduction
<1> QED BY <1>2

-----------------------------------------------------------------------------
(* Sums *)

\* The sum over nothing.
LEMMA SumEmpty ==
    ASSUME NEW f
    PROVE  SumFunctionOnSet(f, {}) = 0
<1>1. Summing(CHOOSE p : Summing(p, f, {}), f, {})
  BY SummingExists, FS_EmptySet
<1> HIDE DEF Summing
<1> DEFINE g == CHOOSE p : Summing(p, f, {})
<1>2. g[{}] = 0
  <2> HIDE DEF g
  <2>1. Summing(g, f, {})
    BY <1>1 DEF g
  <2> QED BY <2>1 DEF Summing
<1> QED BY <1>2, SumIsFold

\* The sum over a nonempty set, by the element CHOOSE takes.
LEMMA SumChosen ==
    ASSUME NEW f, NEW S, IsFiniteSet(S), S # {}
    PROVE  LET x == CHOOSE x \in S : TRUE
           IN  SumFunctionOnSet(f, S) = f[x] + SumFunctionOnSet(f, S \ {x})
<1> DEFINE x == CHOOSE x \in S : TRUE
           U == S \ {x}
           g == CHOOSE p : Summing(p, f, S)
           h == CHOOSE p : Summing(p, f, U)
<1>1. Summing(g, f, S)
  BY SummingExists
<1>2. Summing(h, f, U)
  BY SummingExists, FS_RemoveElement
<1>3. U \subseteq S
  OBVIOUS
<1>4. g[U] = h[U]
  <2> HIDE DEF g, h, U
  <2>1. \A e : (\A y \in U : f[y] = e[y]) /\ Summing(h, e, U) => g[U] = h[U]
    BY <1>1, <1>3, SummingAgrees
  <2> QED BY <1>2, <2>1
<1>5. g[S] = f[x] + g[U]
  <2> HIDE DEF g
  <2> QED BY <1>1 DEF Summing
<1> QED BY <1>4, <1>5, SumIsFold

\* Only the values on the set count.
LEMMA SumSame ==
    ASSUME NEW f, NEW e, NEW S, IsFiniteSet(S), \A x \in S : f[x] = e[x]
    PROVE  SumFunctionOnSet(f, S) = SumFunctionOnSet(e, S)
<1> DEFINE g == CHOOSE p : Summing(p, f, S)
           h == CHOOSE p : Summing(p, e, S)
<1>1. Summing(g, f, S) /\ Summing(h, e, S)
  BY SummingExists
<1>2. g[S] = h[S]
  <2> HIDE DEF g, h
  <2> QED BY <1>1, SummingAgrees
<1> QED BY <1>2, SumIsFold

\* A sum of integers is an integer.
LEMMA SumIsInteger ==
    ASSUME NEW f, NEW S, IsFiniteSet(S), \A x \in S : f[x] \in Int
    PROVE  SumFunctionOnSet(f, S) \in Int
<1> DEFINE F == {T \in SUBSET S : SumFunctionOnSet(f, T) \in Int}
<1>1. ASSUME NEW T \in SUBSET S, \A x \in T : T \ {x} \in F
      PROVE  T \in F
  <2>1. CASE T = {}
    BY <2>1, SumEmpty
  <2>2. CASE T # {}
    <3>1. IsFiniteSet(T)
      BY FS_Subset
    <3> DEFINE x == CHOOSE x \in T : TRUE
    <3>2. x \in T
      BY <2>2
    <3>3. SumFunctionOnSet(f, T) = f[x] + SumFunctionOnSet(f, T \ {x})
      BY <2>2, <3>1, SumChosen
    <3>4. f[x] \in Int /\ SumFunctionOnSet(f, T \ {x}) \in Int
      BY <1>1, <3>2
    <3> HIDE DEF x
    <3> QED BY <3>3, <3>4
  <2> QED BY <2>1, <2>2
<1>2. SUBSET S \subseteq F
  <2> HIDE DEF F
  <2> QED BY <1>1, SubsetInduction
<1> QED BY <1>2

\* A sum of naturals is a natural.
LEMMA SumIsNatural ==
    ASSUME NEW f, NEW S, IsFiniteSet(S), \A x \in S : f[x] \in Nat
    PROVE  SumFunctionOnSet(f, S) \in Nat
<1> DEFINE F == {T \in SUBSET S : SumFunctionOnSet(f, T) \in Nat}
<1>1. ASSUME NEW T \in SUBSET S, \A x \in T : T \ {x} \in F
      PROVE  T \in F
  <2>1. CASE T = {}
    BY <2>1, SumEmpty
  <2>2. CASE T # {}
    <3>1. IsFiniteSet(T)
      BY FS_Subset
    <3> DEFINE x == CHOOSE x \in T : TRUE
    <3>2. x \in T
      BY <2>2
    <3>3. SumFunctionOnSet(f, T) = f[x] + SumFunctionOnSet(f, T \ {x})
      BY <2>2, <3>1, SumChosen
    <3>4. f[x] \in Nat /\ SumFunctionOnSet(f, T \ {x}) \in Nat
      BY <1>1, <3>2
    <3> HIDE DEF x
    <3> QED BY <3>3, <3>4
  <2> QED BY <2>1, <2>2
<1>2. SUBSET S \subseteq F
  <2> HIDE DEF F
  <2> QED BY <1>1, SubsetInduction
<1> QED BY <1>2

\* Any element can be taken first.
LEMMA SumRemove ==
    ASSUME NEW f, NEW S, IsFiniteSet(S), \A x \in S : f[x] \in Int, NEW y \in S
    PROVE  SumFunctionOnSet(f, S) = f[y] + SumFunctionOnSet(f, S \ {y})
<1> DEFINE Sum(T) == SumFunctionOnSet(f, T)
           F == {T \in SUBSET S : \A z \in T : Sum(T) = f[z] + Sum(T \ {z})}
<1>1. ASSUME NEW T \in SUBSET S, \A x \in T : T \ {x} \in F, NEW z \in T
      PROVE  Sum(T) = f[z] + Sum(T \ {z})
  <2> DEFINE x == CHOOSE x \in T : TRUE
  <2>1. IsFiniteSet(T) /\ \A t : IsFiniteSet(T \ {t})
    BY FS_Subset, FS_RemoveElement
  <2>2. x \in T
    BY <1>1
  <2>3. Sum(T) = f[x] + Sum(T \ {x})
    BY <2>1, <1>1, SumChosen
  <2> HIDE DEF x
  <2>4. CASE z = x
    BY <2>3, <2>4
  <2>5. CASE z # x
    <3>1. Sum(T \ {x}) = f[z] + Sum((T \ {x}) \ {z})
      BY <1>1, <2>2, <2>5
    <3>2. Sum(T \ {z}) = f[x] + Sum((T \ {z}) \ {x})
      BY <1>1, <2>2, <2>5
    <3>3. (T \ {x}) \ {z} = (T \ {z}) \ {x}
      OBVIOUS
    <3>4. Sum((T \ {z}) \ {x}) \in Int
      <4>1. IsFiniteSet((T \ {z}) \ {x})
        BY <2>1, FS_RemoveElement
      <4>2. \A t \in (T \ {z}) \ {x} : f[t] \in Int
        OBVIOUS
      <4> QED BY <4>1, <4>2, SumIsInteger
    <3>5. f[x] \in Int /\ f[z] \in Int
      BY <2>2
    <3>6. Sum(T) = f[x] + (f[z] + Sum((T \ {z}) \ {x}))
      BY <2>3, <3>1, <3>3
    <3>7. f[z] + Sum(T \ {z}) = f[z] + (f[x] + Sum((T \ {z}) \ {x}))
      BY <3>2
    <3> QED BY <3>4, <3>5, <3>6, <3>7
  <2> QED BY <2>4, <2>5
<1>2. SUBSET S \subseteq F
  <2>1. \A T \in SUBSET S : (\A x \in T : T \ {x} \in F) => T \in F
    BY <1>1
  <2> HIDE DEF F
  <2> QED BY <2>1, SubsetInduction
<1> QED BY <1>2

\* One more summand.
LEMMA SumAdd ==
    ASSUME NEW f, NEW S, IsFiniteSet(S), NEW y, y \notin S,
           \A x \in S \cup {y} : f[x] \in Int
    PROVE  SumFunctionOnSet(f, S \cup {y}) = f[y] + SumFunctionOnSet(f, S)
<1>1. IsFiniteSet(S \cup {y}) /\ y \in S \cup {y}
  BY FS_AddElement
<1>2. (S \cup {y}) \ {y} = S
  OBVIOUS
<1> QED BY <1>1, <1>2, SumRemove

\* One summand replaced.
LEMMA SumChange ==
    ASSUME NEW f, NEW e, NEW S, IsFiniteSet(S), NEW y \in S,
           \A x \in S : f[x] \in Int /\ e[x] \in Int,
           \A x \in S \ {y} : f[x] = e[x]
    PROVE  SumFunctionOnSet(e, S) = SumFunctionOnSet(f, S) - f[y] + e[y]
<1>1. SumFunctionOnSet(f, S) = f[y] + SumFunctionOnSet(f, S \ {y})
  BY SumRemove
<1>2. SumFunctionOnSet(e, S) = e[y] + SumFunctionOnSet(e, S \ {y})
  BY SumRemove
<1>3. IsFiniteSet(S \ {y})
  BY FS_RemoveElement
<1>4. SumFunctionOnSet(f, S \ {y}) = SumFunctionOnSet(e, S \ {y})
  BY <1>3, SumSame
<1>5. SumFunctionOnSet(f, S \ {y}) \in Int
  BY <1>3, SumIsInteger
<1> QED BY <1>1, <1>2, <1>4, <1>5

\* The sum over two disjoint sets.
LEMMA SumUnion ==
    ASSUME NEW f, NEW S, IsFiniteSet(S), NEW U, IsFiniteSet(U), S \cap U = {},
           \A x \in S \cup U : f[x] \in Int
    PROVE  SumFunctionOnSet(f, S \cup U) = SumFunctionOnSet(f, S) + SumFunctionOnSet(f, U)
<1> DEFINE Sum(T) == SumFunctionOnSet(f, T)
           F == {T \in SUBSET U : Sum(S \cup T) = Sum(S) + Sum(T)}
<1>0. Sum(S) \in Int
  BY SumIsInteger
<1>1. ASSUME NEW T \in SUBSET U, \A x \in T : T \ {x} \in F
      PROVE  Sum(S \cup T) = Sum(S) + Sum(T)
  <2>1. CASE T = {}
    <3>1. S \cup T = S /\ Sum(T) = 0
      BY <2>1, SumEmpty
    <3> QED BY <1>0, <3>1
  <2>2. CASE T # {}
    <3>1. PICK x : x \in T
      BY <2>2
    <3>2. IsFiniteSet(T) /\ IsFiniteSet(S \cup T) /\ IsFiniteSet(T \ {x})
      BY FS_Subset, FS_Union, FS_RemoveElement
    <3>3. Sum(S \cup T) = f[x] + Sum((S \cup T) \ {x})
      BY <3>1, <3>2, SumRemove
    <3>4. Sum(T) = f[x] + Sum(T \ {x})
      BY <3>1, <3>2, SumRemove
    <3>5. (S \cup T) \ {x} = S \cup (T \ {x})
      BY <3>1
    <3>6. Sum(S \cup (T \ {x})) = Sum(S) + Sum(T \ {x})
      BY <1>1, <3>1
    <3>7. Sum(T \ {x}) \in Int
      BY <3>2, SumIsInteger
    <3>8. f[x] \in Int
      BY <3>1
    <3>9. Sum(S \cup T) = f[x] + (Sum(S) + Sum(T \ {x}))
      BY <3>3, <3>5, <3>6
    <3> QED BY <1>0, <3>4, <3>7, <3>8, <3>9
  <2> QED BY <2>1, <2>2
<1>2. SUBSET U \subseteq F
  <2>1. \A T \in SUBSET U : (\A x \in T : T \ {x} \in F) => T \in F
    BY <1>1
  <2> HIDE DEF F
  <2> QED BY <2>1, SubsetInduction
<1> QED BY <1>2

\* The sum over what remains when a part is taken away.
LEMMA SumDifference ==
    ASSUME NEW f, NEW S, IsFiniteSet(S), NEW U, U \subseteq S, \A x \in S : f[x] \in Int
    PROVE  SumFunctionOnSet(f, S \ U) = SumFunctionOnSet(f, S) - SumFunctionOnSet(f, U)
<1>1. IsFiniteSet(U) /\ IsFiniteSet(S \ U)
  BY FS_Subset
<1>2. (S \ U) \cup U = S /\ (S \ U) \cap U = {}
  OBVIOUS
<1>3. SumFunctionOnSet(f, S) = SumFunctionOnSet(f, S \ U) + SumFunctionOnSet(f, U)
  BY <1>1, <1>2, SumUnion
<1>4. SumFunctionOnSet(f, S \ U) \in Int /\ SumFunctionOnSet(f, U) \in Int
  BY <1>1, SumIsInteger
<1> QED BY <1>3, <1>4

\* A sum of naturals is at least each of them.
LEMMA SumAtLeast ==
    ASSUME NEW f, NEW S, IsFiniteSet(S), \A x \in S : f[x] \in Nat, NEW y \in S
    PROVE  f[y] <= SumFunctionOnSet(f, S)
<1>1. SumFunctionOnSet(f, S) = f[y] + SumFunctionOnSet(f, S \ {y})
  BY SumRemove
<1>2. SumFunctionOnSet(f, S \ {y}) \in Nat
  BY FS_RemoveElement, SumIsNatural
<1> QED BY <1>1, <1>2

\* A sum of zeros.
LEMMA SumOfZeros ==
    ASSUME NEW f, NEW S, IsFiniteSet(S), \A x \in S : f[x] = 0
    PROVE  SumFunctionOnSet(f, S) = 0
<1> DEFINE F == {T \in SUBSET S : SumFunctionOnSet(f, T) = 0}
<1>1. ASSUME NEW T \in SUBSET S, \A x \in T : T \ {x} \in F
      PROVE  T \in F
  <2>1. CASE T = {}
    BY <2>1, SumEmpty
  <2>2. CASE T # {}
    <3>1. PICK x : x \in T
      BY <2>2
    <3>2. IsFiniteSet(T) /\ \A y \in T : f[y] \in Int
      BY FS_Subset
    <3>3. SumFunctionOnSet(f, T) = f[x] + SumFunctionOnSet(f, T \ {x})
      BY <3>1, <3>2, SumRemove
    <3>4. SumFunctionOnSet(f, T \ {x}) = 0
      BY <1>1, <3>1
    <3> QED BY <3>1, <3>3, <3>4
  <2> QED BY <2>1, <2>2
<1>2. SUBSET S \subseteq F
  <2>1. \A T \in SUBSET S : (\A x \in T : T \ {x} \in F) => T \in F
    BY <1>1
  <2> HIDE DEF F
  <2> QED BY <2>1, SubsetInduction
<1> QED BY <1>2

\* A sum in which only the places that other things stand for, each for one, count.
LEMMA SumThrough ==
    ASSUME NEW S, IsFiniteSet(S), NEW f, \A x \in S : f[x] \in Int,
           NEW W, IsFiniteSet(W), NEW g, NEW place,
           \A k \in W : place[k] \in S /\ g[k] = f[place[k]],
           \A j, k \in W : place[j] = place[k] => j = k,
           \A x \in S : (\A k \in W : place[k] # x) => f[x] = 0
    PROVE  SumFunctionOnSet(f, S) = SumFunctionOnSet(g, W)
<1> DEFINE Places(T) == {place[k] : k \in T}
           F == {T \in SUBSET W : SumFunctionOnSet(f, Places(T)) = SumFunctionOnSet(g, T)}
<1>1. ASSUME NEW T \in SUBSET W, \A k \in T : T \ {k} \in F
      PROVE  T \in F
  <2>1. CASE T = {}
    <3>1. Places(T) = {}
      BY <2>1
    <3> QED BY <2>1, <3>1, SumEmpty
  <2>2. CASE T # {}
    <3>1. PICK k : k \in T
      BY <2>2
    <3>2. IsFiniteSet(T) /\ \A j \in T : g[j] \in Int
      BY FS_Subset
    <3>3. SumFunctionOnSet(g, T) = g[k] + SumFunctionOnSet(g, T \ {k})
      BY <3>1, <3>2, SumRemove
    <3>4. Places(T) \subseteq S /\ IsFiniteSet(Places(T)) /\ place[k] \in Places(T)
      <4>1. Places(T) \subseteq S
        OBVIOUS
      <4> QED BY <3>1, <4>1, FS_Subset
    <3>5. SumFunctionOnSet(f, Places(T)) = f[place[k]] + SumFunctionOnSet(f, Places(T) \ {place[k]})
      <4>1. \A x \in Places(T) : f[x] \in Int
        BY <3>4
      <4> HIDE DEF Places
      <4> QED BY <3>4, <4>1, SumRemove
    <3>6. Places(T) \ {place[k]} = Places(T \ {k})
      BY <3>1
    <3>7. SumFunctionOnSet(f, Places(T \ {k})) = SumFunctionOnSet(g, T \ {k})
      BY <1>1, <3>1
    <3>8. g[k] = f[place[k]]
      BY <3>1
    <3>9. SumFunctionOnSet(f, Places(T)) = SumFunctionOnSet(g, T)
      BY <3>3, <3>5, <3>6, <3>7, <3>8
    <3> QED BY <3>9
  <2> QED BY <2>1, <2>2
<1>2. W \in F
  <2>1. \A T \in SUBSET W : (\A k \in T : T \ {k} \in F) => T \in F
    BY <1>1
  <2> HIDE DEF F
  <2> QED BY <2>1, SubsetInduction
<1>3. SumFunctionOnSet(f, Places(W)) = SumFunctionOnSet(g, W)
  BY <1>2
<1>4. Places(W) \subseteq S
  OBVIOUS
<1>5. IsFiniteSet(Places(W)) /\ IsFiniteSet(S \ Places(W))
  BY <1>4, FS_Subset
<1>6. SumFunctionOnSet(f, S \ Places(W)) = 0
  <2>1. \A x \in S \ Places(W) : f[x] = 0
    OBVIOUS
  <2> HIDE DEF Places
  <2> QED BY <1>5, <2>1, SumOfZeros
<1> HIDE DEF Places
<1>7. SumFunctionOnSet(f, S \ Places(W)) = SumFunctionOnSet(f, S) - SumFunctionOnSet(f, Places(W))
  BY <1>4, SumDifference
<1>8. SumFunctionOnSet(f, S) \in Int /\ SumFunctionOnSet(f, Places(W)) \in Int
  BY <1>4, <1>5, SumIsInteger
<1> QED BY <1>3, <1>6, <1>7, <1>8
=============================================================================
