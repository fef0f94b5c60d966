-------------------------------- MODULE Sums --------------------------------
(***************************************************************************)
(* Sums over finite sets, and what is selected from a sequence: that the   *)
(* folds the modules sum with add up, in whatever order they take the      *)
(* elements, that a selection holds what is good, in its order, and that a *)
(* sequence of sequences flattens piece by piece.                          *)
(* Induction is over sets of numbers, as the least number outside a set.   *)
(***************************************************************************)
EXTENDS Selections, Integers, SequencesExt, FiniteSets, FiniteSetTheorems, SequenceTheorems, WellFoundedInduction, TLAPS

LEMMA LeastNatural ==
  ASSUME NEW T \in SUBSET Nat, T # {}
  PROVE  \E x \in T : \A y \in T : x <= y
<1> DEFINE R == {ss \in Nat \X Nat : ss[1] < ss[2]}
<1>1. IsWellFoundedOn(R, Nat)
  BY NatLessThanWellFounded DEF OpToRel
<1> HIDE DEF R
<1>2. PICK x \in T : \A y \in T : ~ (<<y, x>> \in R)
  BY <1>1, WFMin
<1>3. \A y \in T : ~ (y < x)
  BY <1>2 DEF R
<1> QED BY <1>3

\* A set of numbers with 0 and every successor is all of them.
LEMMA SetInduction ==
  ASSUME NEW S \in SUBSET Nat, 0 \in S, \A n \in S : n + 1 \in S
  PROVE  S = Nat
<1> SUFFICES ASSUME Nat \ S # {} PROVE FALSE
  OBVIOUS
<1>1. PICK x \in Nat \ S : \A y \in Nat \ S : x <= y
  <2>1. Nat \ S \in SUBSET Nat  OBVIOUS
  <2> QED BY <2>1, LeastNatural
<1>2. x # 0 /\ x - 1 \in Nat
  BY <1>1
<1>3. x - 1 \in S
  BY <1>1, <1>2
<1> QED BY <1>1, <1>3

\* A set of sets, with the empty one and every one that is another and one element more,
\* holds every subset of a finite set.
LEMMA SubsetInduction ==
  ASSUME NEW S, IsFiniteSet(S), NEW F \in SUBSET SUBSET S, {} \in F,
         \A s \in F, x \in S : s \cup {x} \in F
  PROVE  F = SUBSET S
<1> DEFINE Done == {n \in Nat : \A s \in SUBSET S : Cardinality(s) = n => s \in F}
<1>1. \A s \in SUBSET S : IsFiniteSet(s) /\ Cardinality(s) \in Nat
  BY FS_Subset, FS_CardinalityType
<1>2. 0 \in Done
  BY <1>1, FS_EmptySet
<1>3. ASSUME NEW n \in Done  PROVE n + 1 \in Done
  <2>1. SUFFICES ASSUME NEW s \in SUBSET S, Cardinality(s) = n + 1  PROVE s \in F
    BY <1>3
  <2>2. PICK x : x \in s  BY <1>1, <2>1, FS_EmptySet
  <2>3. Cardinality(s \ {x}) = n  BY <1>1, <2>1, <2>2, FS_RemoveElement
  <2>4. s \ {x} \in F  BY <2>3
  <2>5. s = (s \ {x}) \cup {x}  BY <2>2
  <2> QED BY <2>2, <2>4, <2>5
<1>4. Done = Nat
  <2>1. Done \in SUBSET Nat  OBVIOUS
  <2> HIDE DEF Done
  <2> QED BY <1>2, <1>3, <2>1, SetInduction
<1> QED BY <1>1, <1>4

\* f gives every subset of S the sum of its weights.
Sums(f, weight, S) ==
  /\ f \in [SUBSET S -> Nat]
  /\ f[{}] = 0
  /\ \A s \in SUBSET S : \A x \in s : f[s] = weight[x] + f[s \ {x}]

LEMMA SumsExist ==
  ASSUME NEW S, IsFiniteSet(S), NEW weight \in [S -> Nat]
  PROVE  \E f : Sums(f, weight, S)
<1> DEFINE F == {s \in SUBSET S : \E f : Sums(f, weight, s)}
<1>1. {} \in F
  <2> DEFINE f == [s \in SUBSET {} |-> 0]
  <2>1. Sums(f, weight, {})  BY DEF Sums
  <2> QED BY <2>1
<1>2. ASSUME NEW s \in F, NEW x \in S  PROVE s \cup {x} \in F
  <2>1. CASE x \in s
    <3>1. s \cup {x} = s  BY <2>1
    <3> QED BY <3>1
  <2>2. CASE x \notin s
    <3>1. PICK f : Sums(f, weight, s)  OBVIOUS
    <3> DEFINE g == [t \in SUBSET (s \cup {x}) |->
                       IF x \in t THEN weight[x] + f[t \ {x}] ELSE f[t]]
    <3>2. \A t \in SUBSET (s \cup {x}) : t \ {x} \in SUBSET s  OBVIOUS
    <3>3. \A t \in SUBSET (s \cup {x}) : g[t] = IF x \in t THEN weight[x] + f[t \ {x}] ELSE f[t]
      OBVIOUS
    <3>4. \A t \in SUBSET (s \cup {x}) : x \notin t => t \in SUBSET s  OBVIOUS
    <3>5. g \in [SUBSET (s \cup {x}) -> Nat]
      <4>1. weight[x] \in Nat  OBVIOUS
      <4>2. \A t \in SUBSET s : f[t] \in Nat  BY <3>1 DEF Sums
      <4> QED BY <3>2, <3>4, <4>1, <4>2
    <3>6. g[{}] = 0
      BY <3>1, <3>3 DEF Sums
    <3>7. ASSUME NEW t \in SUBSET (s \cup {x}), NEW y \in t
          PROVE  g[t] = weight[y] + g[t \ {y}]
      <4> HIDE DEF g
      <4>1. t \ {y} \in SUBSET (s \cup {x})  OBVIOUS
      <4>2. CASE y = x
        <5>1. x \notin t \ {y}  BY <4>2
        <5> QED BY <3>3, <4>1, <4>2, <5>1
      <4>3. CASE y # x /\ x \notin t
        <5>1. t \in SUBSET s  BY <3>4, <4>3
        <5>2. f[t] = weight[y] + f[t \ {y}]  BY <3>1, <5>1 DEF Sums
        <5> QED BY <3>3, <4>1, <4>3, <5>2
      <4>4. CASE y # x /\ x \in t
        <5> DEFINE u == t \ {x}
        <5>1. u \in SUBSET s /\ y \in u /\ u \ {y} \in SUBSET s  BY <3>2, <4>4
        <5>2. f[u] = weight[y] + f[u \ {y}]  BY <3>1, <5>1 DEF Sums
        <5>3. u \ {y} = (t \ {y}) \ {x}  OBVIOUS
        <5>4. g[t] = weight[x] + f[u]  BY <3>3, <4>4
        <5>5. g[t \ {y}] = weight[x] + f[u \ {y}]  BY <3>3, <4>1, <4>4, <5>3
        <5>6. weight[x] \in Nat /\ weight[y] \in Nat /\ f[u \ {y}] \in Nat
          <6>1. y \in S  OBVIOUS
          <6> QED BY <3>1, <5>1, <6>1 DEF Sums
        <5> HIDE DEF u
        <5> QED BY <5>2, <5>4, <5>5, <5>6
      <4> QED BY <4>2, <4>3, <4>4
    <3>8. Sums(g, weight, s \cup {x})
      <4> HIDE DEF g
      <4> QED BY <3>5, <3>6, <3>7 DEF Sums
    <3> QED BY <3>8
  <2> QED BY <2>1, <2>2
<1>3. F = SUBSET S
  <2>1. F \in SUBSET SUBSET S  OBVIOUS
  <2> HIDE DEF F
  <2> QED BY <1>1, <1>2, <2>1, SubsetInduction
<1> QED BY <1>3

\* g takes an element of each set, adds its weight, and goes on with the others: the fold.
Folds(g, weight, S) ==
  g = [s \in SUBSET S |-> IF s = {} THEN 0
                          ELSE weight[CHOOSE x \in s : TRUE] + g[s \ {CHOOSE x \in s : TRUE}]]

\* The sums are a fold, and the only one.
LEMMA SumsFold ==
  ASSUME NEW S, IsFiniteSet(S), NEW weight, NEW f, Sums(f, weight, S), NEW g
  PROVE  Folds(g, weight, S) <=> g = f
<1>1. \A s \in SUBSET S : s # {} => (CHOOSE x \in s : TRUE) \in s  OBVIOUS
<1>2. Folds(f, weight, S)
  <2>1. \A s \in SUBSET S : f[s] = IF s = {} THEN 0
                          ELSE weight[CHOOSE x \in s : TRUE] + f[s \ {CHOOSE x \in s : TRUE}]
    BY <1>1 DEF Sums
  <2>2. f = [s \in SUBSET S |-> f[s]]  BY DEF Sums
  <2> QED BY <2>1, <2>2, Zenon DEF Folds
<1>3. ASSUME Folds(g, weight, S)  PROVE g = f
  <2>1. \A s \in SUBSET S : g[s] = IF s = {} THEN 0
                          ELSE weight[CHOOSE x \in s : TRUE] + g[s \ {CHOOSE x \in s : TRUE}]
    BY <1>3, Zenon DEF Folds
  <2>2. \A s \in SUBSET S : g[s] = f[s]
    <3> DEFINE Wrong == {n \in Nat : \E s \in SUBSET S : Cardinality(s) = n /\ g[s] # f[s]}
    <3>1. SUFFICES ASSUME Wrong # {}  PROVE FALSE
      BY FS_Subset, FS_CardinalityType
    <3>2. PICK n \in Wrong : \A m \in Wrong : n <= m
      <4>1. Wrong \in SUBSET Nat  OBVIOUS
      <4> HIDE DEF Wrong
      <4> QED BY <3>1, <4>1, LeastNatural
    <3>3. PICK s \in SUBSET S : Cardinality(s) = n /\ g[s] # f[s]  OBVIOUS
    <3>4. s # {}  BY <2>1, <3>3 DEF Sums
    <3> DEFINE x == CHOOSE x \in s : TRUE
               u == s \ {x}
    <3>5. x \in s /\ u \in SUBSET S  BY <3>4
    <3>6. IsFiniteSet(s) /\ n \in Nat  BY FS_Subset
    <3>7. Cardinality(u) = n - 1 /\ Cardinality(u) \in Nat
      BY <3>3, <3>5, <3>6, FS_RemoveElement, FS_CardinalityType
    <3>8. g[u] = f[u]
      <4>1. ~ (n <= n - 1)  BY <3>6
      <4> HIDE DEF u, x
      <4> QED BY <3>2, <3>5, <3>7, <4>1
    <3>9. g[s] = weight[x] + g[u]  BY <2>1, <3>4
    <3>10. f[s] = weight[x] + f[u]  BY <3>5 DEF Sums
    <3> QED BY <3>3, <3>8, <3>9, <3>10
  <2>3. g = [s \in SUBSET S |-> g[s]]  BY <1>3 DEF Folds
  <2>4. f = [s \in SUBSET S |-> f[s]]  BY DEF Sums
  <2> QED BY <2>2, <2>3, <2>4
<1> QED BY <1>2, <1>3

LEMMA SumsUnique ==
  ASSUME NEW S, IsFiniteSet(S), NEW weight, NEW f, Sums(f, weight, S)
  PROVE  f = CHOOSE g : Folds(g, weight, S)
BY SumsFold

----------------------------------------------------------------------------
(* The sum of a set: the fold that MapThenSumSet unfolds to. *)

Sum(weight, S) == (CHOOSE g : Folds(g, weight, S))[S]

LEMMA SumIs ==
  ASSUME NEW S, IsFiniteSet(S), NEW weight, NEW f, Sums(f, weight, S), NEW T \in SUBSET S, NEW v,
         \A x \in T : v[x] = weight[x]
  PROVE  Sum(v, T) = f[T]
<1> DEFINE g == [s \in SUBSET T |-> f[s]]
<1>1. Sums(g, v, T)  BY DEF Sums
<1>2. IsFiniteSet(T)  BY FS_Subset
<1>3. g[T] = f[T]  OBVIOUS
<1> HIDE DEF g
<1> QED BY <1>1, <1>2, <1>3, SumsUnique DEF Sum

LEMMA SumType ==
  ASSUME NEW S, IsFiniteSet(S), NEW weight, \A x \in S : weight[x] \in Nat
  PROVE  Sum(weight, S) \in Nat
<1> DEFINE v == [x \in S |-> weight[x]]
<1>1. PICK f : Sums(f, v, S)  BY SumsExist
<1>2. Sum(weight, S) = f[S]  BY <1>1, SumIs
<1> QED BY <1>1, <1>2 DEF Sums

LEMMA SumEmpty == ASSUME NEW weight PROVE Sum(weight, {}) = 0
<1> DEFINE v == [x \in {} |-> 0]
<1>1. IsFiniteSet({})  BY FS_EmptySet
<1>2. PICK f : Sums(f, v, {})  BY <1>1, SumsExist
<1>3. Sum(weight, {}) = f[{}]  BY <1>1, <1>2, SumIs
<1> QED BY <1>2, <1>3 DEF Sums

\* Weights that agree on a set have one sum there.
LEMMA SumSame ==
  ASSUME NEW S, IsFiniteSet(S), NEW weight, NEW v, \A x \in S : weight[x] \in Nat /\ v[x] = weight[x]
  PROVE  Sum(v, S) = Sum(weight, S)
<1> DEFINE w == [x \in S |-> weight[x]]
<1>1. PICK f : Sums(f, w, S)  BY SumsExist
<1>2. Sum(weight, S) = f[S]  BY <1>1, SumIs
<1>3. Sum(v, S) = f[S]  BY <1>1, SumIs
<1> QED BY <1>2, <1>3

\* The sum of two sets apart is the sum of both.
LEMMA SumApart ==
  ASSUME NEW S, NEW T, IsFiniteSet(S), IsFiniteSet(T), S \cap T = {},
         NEW weight, \A x \in S \cup T : weight[x] \in Nat
  PROVE  Sum(weight, S \cup T) = Sum(weight, S) + Sum(weight, T)
<1> DEFINE All == S \cup T
           w == [x \in All |-> weight[x]]
<1>0. IsFiniteSet(All)  BY FS_Union
<1>1. PICK f : Sums(f, w, All)  BY <1>0, SumsExist
<1>2. Sum(weight, S) = f[S] /\ Sum(weight, T) = f[T] /\ Sum(weight, All) = f[All]
  BY <1>0, <1>1, SumIs
<1> DEFINE F == {t \in SUBSET T : f[S \cup t] = f[S] + f[t]}
<1>3. {} \in F  BY <1>1 DEF Sums
<1>4. ASSUME NEW t \in F, NEW x \in T  PROVE t \cup {x} \in F
  <2>1. CASE x \in t
    <3>1. t \cup {x} = t  BY <2>1
    <3> QED BY <3>1
  <2>2. CASE x \notin t
    <3> DEFINE u == t \cup {x}
               both == S \cup u
    <3>1. u \in SUBSET All /\ both \in SUBSET All /\ x \in u /\ x \in both
          /\ u \ {x} = t /\ both \ {x} = S \cup t
      BY <2>2
    <3>2. f[u] = w[x] + f[t] /\ f[both] = w[x] + f[S \cup t]
      <4> HIDE DEF u, both, w, All, F
      <4> QED BY <1>1, <3>1 DEF Sums
    <3>3. w[x] \in Nat /\ f[t] \in Nat /\ f[S] \in Nat
      <4>1. t \in SUBSET All /\ S \in SUBSET All  OBVIOUS
      <4> QED BY <1>1, <4>1 DEF Sums
    <3>4. f[S \cup t] = f[S] + f[t]  OBVIOUS
    <3>5. u \in SUBSET T  OBVIOUS
    <3> QED BY <3>2, <3>3, <3>4, <3>5
  <2> QED BY <2>1, <2>2
<1>5. F = SUBSET T
  <2>1. F \in SUBSET SUBSET T  OBVIOUS
  <2> HIDE DEF F
  <2> QED BY <1>3, <1>4, <2>1, SubsetInduction
<1> QED BY <1>2, <1>5

LEMMA SumOne ==
  ASSUME NEW weight, NEW x, weight[x] \in Nat
  PROVE  Sum(weight, {x}) = weight[x]
<1> DEFINE v == [y \in {x} |-> weight[y]]
<1>1. IsFiniteSet({x})  BY FS_Singleton
<1>2. PICK f : Sums(f, v, {x})  BY <1>1, SumsExist
<1>3. Sum(weight, {x}) = f[{x}]  BY <1>1, <1>2, SumIs
<1>4. f[{x}] = v[x] + f[{x} \ {x}]  BY <1>2 DEF Sums
<1>5. {x} \ {x} = {}  OBVIOUS
<1>6. f[{}] = 0 /\ v[x] = weight[x]  BY <1>2 DEF Sums
<1> QED BY <1>3, <1>4, <1>5, <1>6

\* What a set without some of its elements comes to.
LEMMA SumWithout ==
  ASSUME NEW S, IsFiniteSet(S), NEW T \in SUBSET S, NEW weight, \A x \in S : weight[x] \in Nat
  PROVE  /\ Sum(weight, S \ T) = Sum(weight, S) - Sum(weight, T)
         /\ Sum(weight, S \ T) \in Nat /\ Sum(weight, T) \in Nat /\ Sum(weight, S) \in Nat
<1>1. IsFiniteSet(T) /\ IsFiniteSet(S \ T)  BY FS_Subset
<1>2. Sum(weight, S \ T) \in Nat /\ Sum(weight, T) \in Nat /\ Sum(weight, S) \in Nat
  BY <1>1, SumType
<1>3. (S \ T) \cup T = S /\ (S \ T) \cap T = {}  OBVIOUS
<1>4. Sum(weight, S) = Sum(weight, S \ T) + Sum(weight, T)
  BY <1>1, <1>3, SumApart
<1> QED BY <1>2, <1>4

\* Weights of nothing come to nothing.
LEMMA SumZero ==
  ASSUME NEW S, IsFiniteSet(S), NEW weight, \A x \in S : weight[x] = 0
  PROVE  Sum(weight, S) = 0
<1> DEFINE F == {s \in SUBSET S : Sum(weight, s) = 0}
<1>1. {} \in F  BY SumEmpty
<1>2. ASSUME NEW s \in F, NEW x \in S  PROVE s \cup {x} \in F
  <2>1. CASE x \in s
    <3>1. s \cup {x} = s  BY <2>1
    <3> QED BY <3>1
  <2>2. CASE x \notin s
    <3>1. IsFiniteSet(s) /\ IsFiniteSet({x}) /\ s \cap {x} = {}
      BY <2>2, FS_Subset, FS_Singleton
    <3>2. \A y \in s \cup {x} : weight[y] \in Nat  OBVIOUS
    <3>3. Sum(weight, s \cup {x}) = Sum(weight, s) + Sum(weight, {x})
      BY <3>1, <3>2, SumApart
    <3>4. Sum(weight, {x}) = 0  BY SumOne
    <3> QED BY <3>3, <3>4
  <2> QED BY <2>1, <2>2
<1>3. F = SUBSET S
  <2>1. F \in SUBSET SUBSET S  OBVIOUS
  <2> HIDE DEF F
  <2> QED BY <1>1, <1>2, <2>1, SubsetInduction
<1> QED BY <1>3

\* A sum is the same under other names.
LEMMA SumMoved ==
  ASSUME NEW S, IsFiniteSet(S), NEW weight, NEW v, NEW b,
         \A x \in S : weight[x] \in Nat /\ v[b[x]] = weight[x],
         \A x, y \in S : b[x] = b[y] => x = y
  PROVE  Sum(v, {b[x] : x \in S}) = Sum(weight, S)
<1> DEFINE Image(s) == {b[x] : x \in s}
           F == {s \in SUBSET S : IsFiniteSet(Image(s)) /\ Sum(v, Image(s)) = Sum(weight, s)}
<1>1. {} \in F
  <2>1. Image({}) = {}  OBVIOUS
  <2> QED BY <2>1, SumEmpty, FS_EmptySet
<1>2. ASSUME NEW s \in F, NEW x \in S  PROVE s \cup {x} \in F
  <2>1. CASE x \in s
    <3>1. s \cup {x} = s  BY <2>1
    <3> QED BY <3>1
  <2>2. CASE x \notin s
    <3> DEFINE I == Image(s)
    <3>1. Image(s \cup {x}) = I \cup {b[x]}  OBVIOUS
    <3>2. b[x] \notin I  BY <2>2
    <3>3. IsFiniteSet(s) /\ IsFiniteSet({x}) /\ IsFiniteSet(I) /\ IsFiniteSet({b[x]})
      BY FS_Subset, FS_Singleton
    <3>4. /\ \A y \in s \cup {x} : weight[y] \in Nat
          /\ \A y \in I \cup {b[x]} : v[y] \in Nat
      OBVIOUS
    <3>5. Sum(v, I) = Sum(weight, s)  OBVIOUS
    <3> HIDE DEF I
    <3>6. Sum(weight, s \cup {x}) = Sum(weight, s) + Sum(weight, {x})
      BY <2>2, <3>3, <3>4, SumApart
    <3>7. Sum(v, I \cup {b[x]}) = Sum(v, I) + Sum(v, {b[x]})
      BY <3>2, <3>3, <3>4, SumApart
    <3>8. Sum(weight, {x}) = weight[x] /\ Sum(v, {b[x]}) = weight[x]
      BY SumOne
    <3>9. IsFiniteSet(I \cup {b[x]})  BY <3>3, FS_Union
    <3> QED BY <3>1, <3>5, <3>6, <3>7, <3>8, <3>9
  <2> QED BY <2>1, <2>2
<1>3. F = SUBSET S
  <2>1. F \in SUBSET SUBSET S  OBVIOUS
  <2> HIDE DEF F
  <2> QED BY <1>1, <1>2, <2>1, SubsetInduction
<1> QED BY <1>3

\* The element a fold takes next.
Some(S) == CHOOSE x \in S : TRUE

\* Whatever adds a weight at a time, in the order of the fold, is the sum.
LEMMA FoldIsSum ==
  ASSUME NEW S, IsFiniteSet(S), NEW weight \in [S -> Nat], NEW g, g[{}] = 0,
         \A s \in SUBSET S : s # {} =>
           (g[s \ {Some(s)}] \in Nat =>
              g[s] = weight[Some(s)] + g[s \ {Some(s)}])
  PROVE  g[S] = Sum(weight, S)
<1>1. PICK f : Sums(f, weight, S)  BY SumsExist
<1>2. Sum(weight, S) = f[S]  BY <1>1, SumIs
<1> DEFINE Wrong == {n \in Nat : \E s \in SUBSET S : Cardinality(s) = n /\ g[s] # f[s]}
<1>3. CASE Wrong = {}
  <2>1. Cardinality(S) \in Nat  BY FS_CardinalityType
  <2> QED BY <1>2, <1>3, <2>1
<1>4. CASE Wrong # {}
  <2>1. PICK n \in Wrong : \A m \in Wrong : n <= m
    <3>1. Wrong \in SUBSET Nat  OBVIOUS
    <3> HIDE DEF Wrong
    <3> QED BY <1>4, <3>1, LeastNatural
  <2>2. PICK s \in SUBSET S : Cardinality(s) = n /\ g[s] # f[s]  OBVIOUS
  <2>3. s # {}  BY <1>1, <2>2 DEF Sums
  <2> DEFINE x == Some(s)
             u == s \ {x}
  <2>4. x \in s /\ u \in SUBSET S  BY <2>3 DEF Some
  <2>5. IsFiniteSet(s) /\ n \in Nat  BY FS_Subset
  <2>6. Cardinality(u) = n - 1 /\ Cardinality(u) \in Nat
    BY <2>2, <2>4, <2>5, FS_RemoveElement, FS_CardinalityType
  <2>7. g[u] = f[u]
    <3>1. ~ (n <= n - 1)  BY <2>5
    <3> HIDE DEF u, x
    <3> QED BY <2>1, <2>4, <2>6, <3>1
  <2>8. f[u] \in Nat  BY <1>1, <2>4 DEF Sums
  <2>9. g[s] = weight[x] + g[u]  BY <2>3, <2>7, <2>8
  <2>10. f[s] = weight[x] + f[u]  BY <1>1, <2>4 DEF Sums
  <2> QED BY <2>2, <2>7, <2>9, <2>10
<1> QED BY <1>3, <1>4

----------------------------------------------------------------------------
(* Sequences. *)

\* A set of sequences with the empty one, and with every one of its own and one
\* element more, is all of them.
LEMMA SequenceInduction ==
  ASSUME NEW T, NEW S \in SUBSET Seq(T), <<>> \in S, \A s \in S, x \in T : Append(s, x) \in S
  PROVE  S = Seq(T)
<1> DEFINE D == {n \in Nat : \A s \in Seq(T) : Len(s) = n => s \in S}
<1>1. 0 \in D
  <2>1. \A s \in Seq(T) : Len(s) = 0 => s = <<>>  OBVIOUS
  <2> QED BY <2>1
<1>2. ASSUME NEW n \in D  PROVE n + 1 \in D
  <2> SUFFICES ASSUME NEW s \in Seq(T), Len(s) = n + 1  PROVE s \in S
    OBVIOUS
  <2>1. PICK front \in Seq(T), x \in T : s = Append(front, x)
    <3>1. s # <<>>  OBVIOUS
    <3> QED BY <3>1, SequenceEmptyOrAppend
  <2>2. Len(front) = n  BY <2>1, AppendProperties
  <2>3. front \in S  BY <2>2
  <2> QED BY <2>1, <2>3
<1>3. D = Nat
  <2>1. D \in SUBSET Nat  OBVIOUS
  <2> HIDE DEF D
  <2> QED BY <1>1, <1>2, <2>1, SetInduction
<1>4. \A s \in Seq(T) : Len(s) \in Nat => s \in S  BY <1>3
<1> QED BY <1>4, LenProperties

\* What Selected unfolds to, of the elements in good: F[i] selects from the first i.
Selects(F, s, n, good) ==
  F = [i \in 0..n |-> IF i = 0 THEN <<>>
                      ELSE IF s[i] \in good THEN Append(F[i - 1], s[i]) ELSE F[i - 1]]

LEMMA SelectsIs ==
  ASSUME NEW F, NEW s, NEW n \in Nat, NEW good, Selects(F, s, n, good)
  PROVE  /\ F[0] = <<>>
         /\ \A i \in 1..n : F[i] = IF s[i] \in good THEN Append(F[i - 1], s[i]) ELSE F[i - 1]
<1>1. \A i \in 0..n : F[i] = IF i = 0 THEN <<>>
                             ELSE IF s[i] \in good THEN Append(F[i - 1], s[i]) ELSE F[i - 1]
  BY Zenon DEF Selects
<1>2. 0 \in 0..n /\ \A i \in 1..n : i \in 0..n /\ i # 0  OBVIOUS
<1> QED BY <1>1, <1>2

LEMMA SelectsExist ==
  ASSUME NEW s, NEW n \in Nat, NEW good
  PROVE  \E F : Selects(F, s, n, good)
<1> DEFINE D == {m \in Nat : \E F : Selects(F, s, m, good)}
<1>1. 0 \in D
  <2> DEFINE F == [i \in 0..0 |-> <<>>]
  <2>1. Selects(F, s, 0, good)  BY DEF Selects
  <2> QED BY <2>1
<1>2. ASSUME NEW m \in D  PROVE m + 1 \in D
  <2>1. PICK F : Selects(F, s, m, good)  OBVIOUS
  <2> DEFINE G == [i \in 0..(m + 1) |->
                     IF i = m + 1 THEN IF s[i] \in good THEN Append(F[i - 1], s[i]) ELSE F[i - 1]
                     ELSE F[i]]
  <2>2. \A i \in 0..m : G[i] = F[i]  OBVIOUS
  <2>3. \A i \in 0..(m + 1) :
          G[i] = IF i = 0 THEN <<>> ELSE IF s[i] \in good THEN Append(G[i - 1], s[i]) ELSE G[i - 1]
    <3>1. ASSUME NEW i \in 1..m
          PROVE  G[i] = IF s[i] \in good THEN Append(G[i - 1], s[i]) ELSE G[i - 1]
      <4>1. i \in 0..m /\ i - 1 \in 0..m  OBVIOUS
      <4> HIDE DEF G
      <4> QED BY <2>1, <2>2, <4>1, SelectsIs
    <3>2. G[0] = <<>>
      <4> HIDE DEF G
      <4> QED BY <2>1, <2>2, SelectsIs
    <3>3. G[m + 1] = IF s[m + 1] \in good THEN Append(G[m], s[m + 1]) ELSE G[m]
      <4>1. m + 1 \in 0..(m + 1) /\ m + 1 - 1 = m  OBVIOUS
      <4>2. G[m + 1] = IF s[m + 1] \in good THEN Append(F[m], s[m + 1]) ELSE F[m]
        BY <4>1
      <4> HIDE DEF G
      <4> QED BY <2>2, <4>2
    <3>4. \A i \in 0..(m + 1) : i = 0 \/ i \in 1..m \/ (i = m + 1 /\ i # 0 /\ i - 1 = m)  OBVIOUS
    <3> HIDE DEF G
    <3> QED BY <3>1, <3>2, <3>3, <3>4
  <2>4. G = [i \in 0..(m + 1) |-> G[i]]  OBVIOUS
  <2>5. Selects(G, s, m + 1, good)
    <3> HIDE DEF G
    <3> QED BY <2>3, <2>4, Zenon DEF Selects
  <2> QED BY <2>5
<1>3. D = Nat
  <2>1. D \in SUBSET Nat  OBVIOUS
  <2> HIDE DEF D
  <2> QED BY <1>1, <1>2, <2>1, SetInduction
<1> QED BY <1>3

\* What is selected from a beginning depends on nothing after it.
LEMMA SelectsAgree ==
  ASSUME NEW s, NEW t, NEW n \in Nat, NEW m \in Nat, n <= m, NEW good,
         NEW F, Selects(F, s, n, good), NEW G, Selects(G, t, m, good),
         \A i \in 1..n : s[i] = t[i]
  PROVE  F[n] = G[n]
<1> DEFINE D == {i \in Nat : i <= n => F[i] = G[i]}
<1>1. 0 \in D  BY SelectsIs
<1>2. ASSUME NEW i \in D  PROVE i + 1 \in D
  <2> SUFFICES ASSUME i + 1 <= n  PROVE F[i + 1] = G[i + 1]
    OBVIOUS
  <2>1. i + 1 \in 1..n /\ i + 1 \in 1..m /\ i + 1 - 1 = i /\ F[i] = G[i]  OBVIOUS
  <2>2. F[i + 1] = IF s[i + 1] \in good THEN Append(F[i], s[i + 1]) ELSE F[i]
    BY <2>1, SelectsIs
  <2>3. G[i + 1] = IF t[i + 1] \in good THEN Append(G[i], t[i + 1]) ELSE G[i]
    BY <2>1, SelectsIs
  <2> QED BY <2>1, <2>2, <2>3
<1>3. D = Nat
  <2>1. D \in SUBSET Nat  OBVIOUS
  <2> HIDE DEF D
  <2> QED BY <1>1, <1>2, <2>1, SetInduction
<1> QED BY <1>3

\* Any function that selects gives them.
LEMMA SelectedIs ==
  ASSUME NEW T, NEW s \in Seq(T), NEW good, NEW F, Selects(F, s, Len(s), good)
  PROVE  F[Len(s)] = Selected(s, good)
<1> DEFINE G == CHOOSE H : Selects(H, s, Len(s), good)
<1>1. Selects(G, s, Len(s), good)  OBVIOUS
<1>2. Len(s) \in Nat  OBVIOUS
<1>3. Selected(s, good) = G[Len(s)]  BY DEF Selected, Selects
<1> HIDE DEF G
<1>4. F[Len(s)] = G[Len(s)]  BY <1>1, <1>2, SelectsAgree
<1> QED BY <1>3, <1>4

\* A sequence with one more at its end, as a function.
LEMMA AppendIs ==
  ASSUME NEW T, NEW s \in Seq(T), NEW x
  PROVE  Append(s, x) = [i \in 1..(Len(s) + 1) |-> IF i = Len(s) + 1 THEN x ELSE s[i]]
<1> DEFINE n == Len(s)
           v == Append(s, x)
<1>1. s \in Seq(T \cup {x}) /\ x \in T \cup {x}  OBVIOUS
<1>2. /\ v \in Seq(T \cup {x}) /\ Len(v) = n + 1 /\ n \in Nat
      /\ v[n + 1] = x /\ \A i \in 1..n : v[i] = s[i]
  BY <1>1
<1> HIDE DEF v
<1>3. v \in [1..(n + 1) -> T \cup {x}]  BY <1>2
<1>4. \A i \in 1..(n + 1) : v[i] = IF i = n + 1 THEN x ELSE s[i]  BY <1>2
<1>5. v = [i \in 1..(n + 1) |-> v[i]]  BY <1>3
<1> QED BY <1>4, <1>5 DEF v

LEMMA SelectedEmpty == ASSUME NEW good PROVE Selected(<<>>, good) = <<>>
<1> DEFINE F == [i \in 0..0 |-> <<>>]
<1>1. Selects(F, <<>>, Len(<<>>), good)  BY DEF Selects
<1>2. <<>> \in Seq({})  OBVIOUS
<1>3. F[Len(<<>>)] = <<>>  OBVIOUS
<1> HIDE DEF F
<1> QED BY <1>1, <1>2, <1>3, SelectedIs

LEMMA SelectedAppend ==
  ASSUME NEW T, NEW s \in Seq(T), NEW x \in T, NEW good
  PROVE  Selected(Append(s, x), good) =
           IF x \in good THEN Append(Selected(s, good), x) ELSE Selected(s, good)
<1> DEFINE t == Append(s, x)
           n == Len(s)
<1>1. t \in Seq(T) /\ Len(t) = n + 1 /\ n \in Nat /\ t[n + 1] = x
      /\ n + 1 \in Nat /\ \A i \in 1..n : s[i] = t[i]
  OBVIOUS
<1> HIDE DEF t, n
<1>2. PICK F : Selects(F, s, n, good)  BY <1>1, SelectsExist
<1>3. PICK G : Selects(G, t, n + 1, good)  BY <1>1, SelectsExist
<1>4. F[n] = Selected(s, good)  BY <1>2, SelectedIs DEF n
<1>5. G[n + 1] = Selected(t, good)  BY <1>1, <1>3, SelectedIs
<1>6. F[n] = G[n]
  <2>1. n <= n + 1 /\ n + 1 \in Nat  BY <1>1
  <2> QED BY <1>1, <1>2, <1>3, <2>1, SelectsAgree
<1>7. G[n + 1] = IF t[n + 1] \in good THEN Append(G[n], t[n + 1]) ELSE G[n]
  <2>1. n + 1 \in 1..(n + 1) /\ n + 1 - 1 = n /\ n + 1 \in Nat  BY <1>1
  <2>2. \A i \in 1..(n + 1) : G[i] = IF t[i] \in good THEN Append(G[i - 1], t[i]) ELSE G[i - 1]
    BY <1>3, <2>1, SelectsIs
  <2> QED BY <1>1, <2>1, <2>2
<1> QED BY <1>1, <1>4, <1>5, <1>6, <1>7 DEF t

LEMMA SelectedType ==
  ASSUME NEW T, NEW s \in Seq(T), NEW good
  PROVE  Selected(s, good) \in Seq(T)
<1> DEFINE S == {t \in Seq(T) : Selected(t, good) \in Seq(T)}
<1>1. <<>> \in S  BY SelectedEmpty, EmptySeq
<1>2. ASSUME NEW t \in S, NEW x \in T  PROVE Append(t, x) \in S
  <2>1. Selected(Append(t, x), good) \in {Selected(t, good), Append(Selected(t, good), x)}
    BY SelectedAppend
  <2>2. Append(Selected(t, good), x) \in Seq(T) /\ Append(t, x) \in Seq(T)
    BY AppendProperties
  <2> QED BY <2>1, <2>2
<1>3. S = Seq(T)
  <2>1. S \in SUBSET Seq(T)  OBVIOUS
  <2> HIDE DEF S
  <2> QED BY <1>1, <1>2, <2>1, SequenceInduction
<1> QED BY <1>3

\* Only what becomes of the elements that are there matters.
LEMMA SelectedSame ==
  ASSUME NEW T, NEW s \in Seq(T), NEW good, NEW other,
         \A i \in 1..Len(s) : s[i] \in good <=> s[i] \in other
  PROVE  Selected(s, good) = Selected(s, other)
<1>0. Len(s) \in Nat  BY LenProperties
<1>1. PICK F : Selects(F, s, Len(s), good)  BY <1>0, SelectsExist
<1>2. Selects(F, s, Len(s), other)
  <2> DEFINE G == [i \in 0..Len(s) |-> IF i = 0 THEN <<>>
                     ELSE IF s[i] \in other THEN Append(F[i - 1], s[i]) ELSE F[i - 1]]
  <2>1. \A i \in 0..Len(s) : i # 0 => i \in 1..Len(s)  BY <1>0
  <2>2. F = [i \in 0..Len(s) |-> IF i = 0 THEN <<>>
                     ELSE IF s[i] \in good THEN Append(F[i - 1], s[i]) ELSE F[i - 1]]
    BY <1>1, Zenon DEF Selects
  <2>3. \A i \in 0..Len(s) :
          (IF i = 0 THEN <<>> ELSE IF s[i] \in good THEN Append(F[i - 1], s[i]) ELSE F[i - 1])
          = IF i = 0 THEN <<>> ELSE IF s[i] \in other THEN Append(F[i - 1], s[i]) ELSE F[i - 1]
    BY <2>1
  <2>4. F = G  BY <2>2, <2>3, Zenon
  <2> QED BY <2>4, Zenon DEF Selects
<1> QED BY <1>1, <1>2, SelectedIs

LEMMA SelectedConcat ==
  ASSUME NEW T, NEW s \in Seq(T), NEW t \in Seq(T), NEW good
  PROVE  Selected(s \o t, good) = Selected(s, good) \o Selected(t, good)
<1> DEFINE S == {u \in Seq(T) : Selected(s \o u, good) = Selected(s, good) \o Selected(u, good)}
<1>0. Selected(s, good) \in Seq(T)  BY SelectedType
<1>1. <<>> \in S
  <2>1. s \o <<>> = s /\ Selected(s, good) \o <<>> = Selected(s, good)  BY <1>0, ConcatEmptySeq
  <2> QED BY <2>1, SelectedEmpty, EmptySeq
<1>2. ASSUME NEW u \in S, NEW x \in T  PROVE Append(u, x) \in S
  <2>1. s \o Append(u, x) = Append(s \o u, x) /\ s \o u \in Seq(T) /\ Append(u, x) \in Seq(T)
    OBVIOUS
  <2>2. Selected(u, good) \in Seq(T)  BY SelectedType
  <2>3. Selected(s, good) \o Append(Selected(u, good), x)
          = Append(Selected(s, good) \o Selected(u, good), x)
    BY <1>0, <2>2
  <2>4. Selected(s \o u, good) = Selected(s, good) \o Selected(u, good)  OBVIOUS
  <2>5. Selected(Append(s \o u, x), good)
          = IF x \in good THEN Append(Selected(s \o u, good), x) ELSE Selected(s \o u, good)
    <3> DEFINE w == s \o u
    <3>1. w \in Seq(T)  BY <2>1
    <3> HIDE DEF w
    <3>2. Selected(Append(w, x), good) = IF x \in good THEN Append(Selected(w, good), x) ELSE Selected(w, good)
      BY ONLY <3>1, x \in T, SelectedAppend
    <3> QED BY <3>2 DEF w
  <2>6. Selected(Append(u, x), good)
          = IF x \in good THEN Append(Selected(u, good), x) ELSE Selected(u, good)
    BY SelectedAppend
  <2>7. Selected(s \o Append(u, x), good) = Selected(s, good) \o Selected(Append(u, x), good)
    BY <2>1, <2>3, <2>4, <2>5, <2>6
  <2> QED BY <2>1, <2>7
<1>3. S = Seq(T)
  <2>1. S \in SUBSET Seq(T)  OBVIOUS
  <2> HIDE DEF S
  <2> QED BY <1>1, <1>2, <2>1, SequenceInduction
<1> QED BY <1>3

\* What is selected is what is there and good.
LEMMA SelectedAmong ==
  ASSUME NEW T, NEW s \in Seq(T), NEW good
  PROVE  \A x \in T : (\E j \in 1..Len(Selected(s, good)) : Selected(s, good)[j] = x)
                      <=> x \in good /\ \E i \in 1..Len(s) : s[i] = x
<1> DEFINE Ok(u) == \A x \in T : (\E j \in 1..Len(Selected(u, good)) : Selected(u, good)[j] = x)
                                <=> x \in good /\ \E i \in 1..Len(u) : u[i] = x
           S == {u \in Seq(T) : Ok(u)}
<1>1. <<>> \in S  BY SelectedEmpty
<1>2. ASSUME NEW u \in S, NEW y \in T  PROVE Append(u, y) \in S
  <2> DEFINE p == Selected(u, good)
             v == Append(u, y)
             q == Selected(v, good)
  <2>1. p \in Seq(T)  BY SelectedType
  <2>2. q = IF y \in good THEN Append(p, y) ELSE p  BY SelectedAppend
  <2>3. v \in Seq(T)  OBVIOUS
  <2>4. ASSUME NEW x \in T
        PROVE  (\E i \in 1..Len(v) : v[i] = x) <=> x = y \/ \E i \in 1..Len(u) : u[i] = x
    OBVIOUS
  <2>5. ASSUME NEW x \in T
        PROVE  (\E j \in 1..Len(Append(p, y)) : Append(p, y)[j] = x)
                 <=> x = y \/ \E j \in 1..Len(p) : p[j] = x
    <3> HIDE DEF p
    <3>1. /\ Len(Append(p, y)) = Len(p) + 1 /\ Append(p, y)[Len(p) + 1] = y /\ Len(p) \in Nat
          /\ \A j \in 1..Len(p) : Append(p, y)[j] = p[j]
      BY <2>1, AppendProperties, LenProperties
    <3>2. \A j \in 1..(Len(p) + 1) : j \in 1..Len(p) \/ j = Len(p) + 1  BY <3>1
    <3>3. \A j \in 1..Len(p) : j \in 1..(Len(p) + 1)  BY <3>1
    <3>4. Len(p) + 1 \in 1..(Len(p) + 1)  BY <3>1
    <3> QED BY <3>1, <3>2, <3>3, <3>4
  <2>6. Ok(u)  OBVIOUS
  <2>7. Ok(v)
    <3> HIDE DEF v
    <3>1. ASSUME NEW x \in T
          PROVE  (\E j \in 1..Len(q) : q[j] = x) <=> x \in good /\ \E i \in 1..Len(v) : v[i] = x
      <4>1. (\E j \in 1..Len(p) : p[j] = x) <=> x \in good /\ \E i \in 1..Len(u) : u[i] = x
        BY <2>6
      <4> HIDE DEF p, q
      <4> QED BY <2>2, <2>4, <2>5, <4>1
    <3> QED BY <3>1
  <2> QED BY <2>3, <2>7
<1>3. S = Seq(T)
  <2>1. S \in SUBSET Seq(T)  OBVIOUS
  <2> HIDE DEF S
  <2> QED BY <1>1, <1>2, <2>1, SequenceInduction
<1> QED BY <1>3

\* Where everything is good, all of it is selected.
LEMMA SelectedAll ==
  ASSUME NEW T, NEW s \in Seq(T), NEW good, \A i \in 1..Len(s) : s[i] \in good
  PROVE  Selected(s, good) = s
<1> DEFINE All(u) == \A i \in 1..Len(u) : u[i] \in good
           S == {u \in Seq(T) : All(u) => Selected(u, good) = u}
<1>1. <<>> \in S  BY SelectedEmpty
<1>2. ASSUME NEW u \in S, NEW y \in T  PROVE Append(u, y) \in S
  <2>1. Append(u, y) \in Seq(T)  BY AppendProperties
  <2> SUFFICES ASSUME All(Append(u, y))  PROVE Selected(Append(u, y), good) = Append(u, y)
    BY <2>1
  <2> DEFINE v == Append(u, y)
  <2>2. /\ \A i \in 1..Len(u) : v[i] = u[i] /\ i \in 1..Len(v)
        /\ v[Len(u) + 1] = y /\ Len(u) + 1 \in 1..Len(v)
    OBVIOUS
  <2>3. All(v)  OBVIOUS
  <2> HIDE DEF v
  <2>4. y \in good /\ All(u)  BY <2>2, <2>3
  <2> HIDE DEF All
  <2>5. Selected(u, good) = u  BY <2>4
  <2>6. u \in Seq(T)  OBVIOUS
  <2>7. Selected(v, good) = IF y \in good THEN Append(Selected(u, good), y) ELSE Selected(u, good)
    BY <2>6, SelectedAppend DEF v
  <2> QED BY <2>4, <2>5, <2>7 DEF v
<1>3. S = Seq(T)
  <2>1. S \in SUBSET Seq(T)  OBVIOUS
  <2> HIDE DEF S
  <2> QED BY <1>1, <1>2, <2>1, SequenceInduction
<1> QED BY <1>3

\* A sequence without repetitions selects none.
LEMMA SelectedOnce ==
  ASSUME NEW T, NEW s \in Seq(T), NEW good, \A i, j \in 1..Len(s) : s[i] = s[j] => i = j
  PROVE  \A i, j \in 1..Len(Selected(s, good)) :
           Selected(s, good)[i] = Selected(s, good)[j] => i = j
<1> DEFINE Once(u) == \A i, j \in 1..Len(u) : u[i] = u[j] => i = j
           S == {u \in Seq(T) : Once(u) => Once(Selected(u, good))}
<1>1. <<>> \in S  BY SelectedEmpty
<1>2. ASSUME NEW u \in S, NEW y \in T  PROVE Append(u, y) \in S
  <2> DEFINE p == Selected(u, good)
             v == Append(u, y)
  <2>0. v \in Seq(T)  BY AppendProperties
  <2> SUFFICES ASSUME Once(v)  PROVE Once(Selected(v, good))
    BY <2>0
  <2>1. p \in Seq(T)  BY SelectedType
  <2>2. Selected(v, good) = IF y \in good THEN Append(p, y) ELSE p  BY SelectedAppend
  <2>3. \A i \in 1..Len(u) : u[i] # y
    <3>1. \A i \in 1..Len(u) : v[i] = u[i] /\ v[Len(u) + 1] = y /\ i \in 1..Len(v)
            /\ Len(u) + 1 \in 1..Len(v) /\ i # Len(u) + 1
      OBVIOUS
    <3> HIDE DEF v
    <3> QED BY <3>1
  <2>4. Once(u)
    <3>1. \A i \in 1..Len(u) : v[i] = u[i] /\ i \in 1..Len(v)  OBVIOUS
    <3> HIDE DEF v
    <3> QED BY <3>1
  <2>5. Once(p)  BY <2>4
  <2>6. \A j \in 1..Len(p) : p[j] # y
    <3>1. u \in Seq(T)  OBVIOUS
    <3>2. \A x \in T : (\E j \in 1..Len(Selected(u, good)) : Selected(u, good)[j] = x)
                      <=> x \in good /\ \E i \in 1..Len(u) : u[i] = x
      BY ONLY <3>1, SelectedAmong
    <3>3. (\E j \in 1..Len(p) : p[j] = y) => \E i \in 1..Len(u) : u[i] = y
      BY ONLY <3>2, y \in T
    <3> HIDE DEF p
    <3> QED BY <2>3, <3>3
  <2>7. Once(Append(p, y))
    <3> HIDE DEF p
    <3> QED BY <2>1, <2>5, <2>6
  <2> HIDE DEF p, v, Once
  <2> QED BY <2>2, <2>5, <2>7
<1>3. S = Seq(T)
  <2>1. S \in SUBSET Seq(T)  OBVIOUS
  <2> HIDE DEF S
  <2> QED BY <1>1, <1>2, <2>1, SequenceInduction
<1> QED BY <1>3

LEMMA SelectedNone ==
  ASSUME NEW T, NEW s \in Seq(T), NEW good, \A i \in 1..Len(s) : s[i] \notin good
  PROVE  Selected(s, good) = <<>>
<1> DEFINE none == Selected(s, good)
<1>1. none \in Seq(T)  BY SelectedType
<1>2. Len(none) \in Nat /\ \A j \in 1..Len(none) : none[j] \in T  BY <1>1
<1>3. \A j \in 1..Len(none) : none[j] \in good /\ \E i \in 1..Len(s) : s[i] = none[j]
  BY <1>2, SelectedAmong
<1> HIDE DEF none
<1>4. 1 \notin 1..Len(none)  BY <1>3
<1>5. Len(none) = 0  BY <1>2, <1>4
<1>6. none = <<>>  BY <1>1, <1>5
<1> QED BY <1>6 DEF none

\* If there is one that is selected, it is all there is.
LEMMA SelectedOne ==
  ASSUME NEW T, NEW s \in Seq(T), NEW good, NEW j \in 1..Len(s), s[j] \in good,
         \A i \in 1..Len(s) : s[i] \in good => i = j
  PROVE  Selected(s, good) = <<s[j]>>
<1> DEFINE One(u) == \A k \in 1..Len(u) :
                       (u[k] \in good /\ \A i \in 1..Len(u) : u[i] \in good => i = k)
                         => Selected(u, good) = <<u[k]>>
           S == {u \in Seq(T) : One(u)}
<1>1. <<>> \in S  OBVIOUS
<1>2. ASSUME NEW u \in S, NEW x \in T  PROVE Append(u, x) \in S
  <2> DEFINE v == Append(u, x)
             n == Len(u)
  <2>1. /\ u \in Seq(T) /\ One(u) /\ n \in Nat /\ v \in Seq(T) /\ Len(v) = n + 1
        /\ v[n + 1] = x /\ \A i \in 1..n : v[i] = u[i]
    OBVIOUS
  <2>2. Selected(v, good) = IF x \in good THEN Append(Selected(u, good), x) ELSE Selected(u, good)
    BY <2>1, SelectedAppend
  <2> SUFFICES ASSUME NEW k \in 1..Len(v), v[k] \in good,
                      \A i \in 1..Len(v) : v[i] \in good => i = k
               PROVE  Selected(v, good) = <<v[k]>>
    BY <2>1
  <2> HIDE DEF v, S
  <2>3. CASE k = n + 1
    <3>1. \A i \in 1..n : u[i] \notin good  BY <2>1, <2>3
    <3>2. Selected(u, good) = <<>>  BY <2>1, <3>1, SelectedNone
    <3>3. x \in good /\ Selected(v, good) = Append(<<>>, x)  BY <2>1, <2>2, <2>3, <3>2
    <3>4. Append(<<>>, x) = <<x>>  OBVIOUS
    <3> QED BY <2>1, <2>3, <3>3, <3>4
  <2>4. CASE k # n + 1
    <3>1. k \in 1..n /\ x \notin good  BY <2>1, <2>4
    <3>2. u[k] \in good /\ \A i \in 1..n : u[i] \in good => i = k  BY <2>1, <3>1
    <3>3. Selected(u, good) = <<u[k]>>  BY <2>1, <3>1, <3>2
    <3> QED BY <2>1, <2>2, <3>1, <3>3
  <2> QED BY <2>3, <2>4
<1> HIDE DEF S
<1>3. S = Seq(T)  BY <1>1, <1>2, SequenceInduction DEF S
<1>4. One(s)  BY <1>3 DEF S
<1> QED BY <1>4

----------------------------------------------------------------------------
(* The listing of a finite set, as SetToSeq chooses one. *)

ListOf(S) ==
  CHOOSE f \in [1..Cardinality(S) -> S] : \A a, b \in DOMAIN f : f[a] = f[b] => a = b

\* It has each element once.
LEMMA Listing ==
  ASSUME NEW S, IsFiniteSet(S)
  PROVE  /\ ListOf(S) \in [1..Cardinality(S) -> S]
         /\ \A x \in S : \E i \in 1..Cardinality(S) : ListOf(S)[i] = x
         /\ \A i, j \in 1..Cardinality(S) : ListOf(S)[i] = ListOf(S)[j] => i = j
         /\ Cardinality(S) \in Nat
<1> DEFINE n == Cardinality(S)
           list == ListOf(S)
           P(f) == \A a, b \in DOMAIN f : f[a] = f[b] => a = b
<1>1. n \in Nat /\ ExistsBijection(1..n, S)  BY FS_CardinalityType
<1>2. \E f \in [1..n -> S] : P(f)
  <2>1. PICK f : f \in Bijection(1..n, S)  BY <1>1 DEF ExistsBijection
  <2> QED BY <2>1 DEF Bijection, Injection, IsInjective
<1>3. list \in [1..n -> S] /\ P(list)  BY <1>2 DEF ListOf
<1> HIDE DEF n, list
<1>4. list \in Surjection(1..n, S)
  <2>1. list \in Injection(1..n, S)  BY <1>3 DEF Injection, IsInjective
  <2>2. IsFiniteSet(1..n) /\ Cardinality(1..n) = n
    <3>1. 1 \in Int /\ n \in Int  BY <1>1
    <3>2. Cardinality(1..n) = IF 1 > n THEN 0 ELSE n - 1 + 1  BY <3>1, FS_Interval
    <3> QED BY <1>1, <3>1, <3>2, FS_Interval
  <2> QED BY <1>1, <2>1, <2>2, FS_Injection DEF n
<1> QED BY <1>1, <1>3, <1>4 DEF Surjection, n, list

----------------------------------------------------------------------------
(* Recursion over numbers, and what FlattenSeq makes of a sequence of sequences. *)

\* What holds of 0, and of a number when it holds of the one before, holds up to n.
LEMMA UpTo ==
  ASSUME NEW n \in Nat, NEW S, 0 \in S, \A i \in 1..n : i - 1 \in S => i \in S
  PROVE  \A i \in 0..n : i \in S
<1> DEFINE D == {i \in Nat : i <= n => i \in S}
<1>1. 0 \in D  OBVIOUS
<1>2. ASSUME NEW i \in D  PROVE i + 1 \in D
  <2> SUFFICES ASSUME i + 1 <= n  PROVE i + 1 \in S
    OBVIOUS
  <2>1. i + 1 \in 1..n /\ i + 1 - 1 = i /\ i \in S  OBVIOUS
  <2> QED BY <2>1
<1>3. D = Nat
  <2>1. D \in SUBSET Nat  OBVIOUS
  <2> HIDE DEF D
  <2> QED BY <1>1, <1>2, <2>1, SetInduction
<1>4. \A i \in 0..n : i \in Nat /\ i <= n  OBVIOUS
<1> QED BY <1>3, <1>4

\* What a recursive function unfolds to: G makes each value from the last one.
Recurs(F, a, G, n) == F = [i \in 0..n |-> IF i = 0 THEN a ELSE G[<<i, F[i - 1]>>]]

LEMMA RecursIs ==
  ASSUME NEW F, NEW a, NEW G, NEW n \in Nat, Recurs(F, a, G, n)
  PROVE  F[0] = a /\ \A i \in 1..n : F[i] = G[<<i, F[i - 1]>>]
<1>1. \A i \in 0..n : F[i] = IF i = 0 THEN a ELSE G[<<i, F[i - 1]>>]
  BY Zenon DEF Recurs
<1>2. 0 \in 0..n /\ \A i \in 1..n : i \in 0..n /\ i # 0  OBVIOUS
<1> QED BY <1>1, <1>2

\* There is one, whatever it makes.
LEMMA RecursExist ==
  ASSUME NEW n \in Nat, NEW a, NEW G
  PROVE  \E F : Recurs(F, a, G, n)
<1> DEFINE D == {m \in Nat : \E F : Recurs(F, a, G, m)}
<1>1. 0 \in D
  <2> DEFINE F == [i \in 0..0 |-> a]
  <2>1. Recurs(F, a, G, 0)  BY DEF Recurs
  <2> QED BY <2>1
<1>2. ASSUME NEW m \in D  PROVE m + 1 \in D
  <2>1. PICK F : Recurs(F, a, G, m)  OBVIOUS
  <2> DEFINE H == [i \in 0..(m + 1) |-> IF i = m + 1 THEN G[<<i, F[i - 1]>>] ELSE F[i]]
  <2>2. \A i \in 0..m : H[i] = F[i]  OBVIOUS
  <2>3. \A i \in 0..(m + 1) : H[i] = IF i = 0 THEN a ELSE G[<<i, H[i - 1]>>]
    <3>1. ASSUME NEW i \in 1..m  PROVE H[i] = G[<<i, H[i - 1]>>]
      <4>1. i \in 0..m /\ i - 1 \in 0..m  OBVIOUS
      <4> HIDE DEF H
      <4> QED BY <2>1, <2>2, <4>1, RecursIs
    <3>2. H[0] = a
      <4> HIDE DEF H
      <4> QED BY <2>1, <2>2, RecursIs
    <3>3. H[m + 1] = G[<<m + 1, H[m]>>]
      <4>1. m + 1 \in 0..(m + 1) /\ m + 1 - 1 = m  OBVIOUS
      <4>2. H[m + 1] = G[<<m + 1, F[m]>>]  BY <4>1
      <4> HIDE DEF H
      <4> QED BY <2>2, <4>2
    <3>4. \A i \in 0..(m + 1) : i = 0 \/ i \in 1..m \/ (i = m + 1 /\ i # 0 /\ i - 1 = m)  OBVIOUS
    <3> HIDE DEF H
    <3> QED BY <3>1, <3>2, <3>3, <3>4
  <2>4. H = [i \in 0..(m + 1) |-> H[i]]  OBVIOUS
  <2>5. Recurs(H, a, G, m + 1)
    <3> HIDE DEF H
    <3> QED BY <2>3, <2>4, Zenon DEF Recurs
  <2> QED BY <2>5
<1>3. D = Nat
  <2>1. D \in SUBSET Nat  OBVIOUS
  <2> HIDE DEF D
  <2> QED BY <1>1, <1>2, <2>1, SetInduction
<1> QED BY <1>3

\* ... and it stays among X when every step does.
Keeps(a, G, n, X) == a \in X /\ \A i \in 1..n, x \in X : G[<<i, x>>] \in X
Evolves(F, a, G, n, X) == F \in [0..n -> X] /\ F[0] = a /\ \A i \in 1..n : F[i] = G[<<i, F[i - 1]>>]

LEMMA RecursTyped ==
  ASSUME NEW n \in Nat, NEW X, NEW a, NEW G, Keeps(a, G, n, X)
  PROVE  \E F : Evolves(F, a, G, n, X)
<1>0. a \in X /\ \A i \in 1..n, x \in X : G[<<i, x>>] \in X  BY DEF Keeps
<1>1. PICK F : Recurs(F, a, G, n)  BY RecursExist
<1>2. F[0] = a /\ \A i \in 1..n : F[i] = G[<<i, F[i - 1]>>]  BY <1>1, RecursIs
<1> DEFINE S == {k \in Nat : F[k] \in X}
<1>3. 0 \in S  BY <1>0, <1>2
<1>4. ASSUME NEW i \in 1..n, i - 1 \in S  PROVE i \in S
  <2>1. i \in Nat /\ F[i - 1] \in X  BY <1>4
  <2> QED BY <1>0, <1>2, <2>1
<1>5. \A i \in 0..n : i \in S
  <2> HIDE DEF S
  <2> QED BY <1>3, <1>4, UpTo
<1>6. F = [i \in 0..n |-> F[i]]  BY <1>1, Zenon DEF Recurs
<1>7. F \in [0..n -> X]  BY <1>5, <1>6
<1> QED BY <1>2, <1>7 DEF Evolves

\* What FlattenSeq unfolds to.
Flattens(F, s) == F = [i \in 1..Len(s) |-> IF i = 1 THEN s[i] ELSE F[i - 1] \o s[i]]

LEMMA FlattensExist ==
  ASSUME NEW T, NEW s \in Seq(Seq(T))
  PROVE  \E F : Flattens(F, s)
<1> DEFINE n == Len(s)
           G == [p \in (1..n) \X Seq(T) |-> p[2] \o s[p[1]]]
<1>0. n \in Nat /\ \A i \in 1..n : s[i] \in Seq(T)  OBVIOUS
<1>1. \A i \in 1..n, t \in Seq(T) : G[<<i, t>>] = t \o s[i] /\ t \o s[i] \in Seq(T)
  <2> SUFFICES ASSUME NEW i \in 1..n, NEW t \in Seq(T)
               PROVE  G[<<i, t>>] = t \o s[i] /\ t \o s[i] \in Seq(T)
    OBVIOUS
  <2>1. s[i] \in Seq(T)  BY <1>0
  <2>2. t \o s[i] \in Seq(T)  BY <2>1, ConcatProperties
  <2> QED BY <2>2
<1> HIDE DEF n, G
<1>2. PICK H : Recurs(H, <<>>, G, n)  BY <1>0, RecursExist
<1>3. H[0] = <<>> /\ \A i \in 1..n : H[i] = G[<<i, H[i - 1]>>]  BY <1>0, <1>2, RecursIs
<1> DEFINE S == {k \in Nat : H[k] \in Seq(T)}
<1>4. 0 \in S  BY <1>3, EmptySeq
<1>5. ASSUME NEW i \in 1..n, i - 1 \in S  PROVE i \in S
  <2>1. H[i - 1] \in Seq(T) /\ i \in Nat  BY <1>0, <1>5
  <2> QED BY <1>1, <1>3, <2>1
<1>6. \A i \in 0..n : i \in S
  <2> HIDE DEF S
  <2> QED BY <1>0, <1>4, <1>5, UpTo
<1>7. \A i \in 1..n : H[i] = H[i - 1] \o s[i] /\ H[i - 1] \in Seq(T)
  <2> SUFFICES ASSUME NEW i \in 1..n  PROVE H[i] = H[i - 1] \o s[i] /\ H[i - 1] \in Seq(T)
    OBVIOUS
  <2>1. i - 1 \in 0..n  BY <1>0
  <2>2. H[i - 1] \in Seq(T)  BY <1>6, <2>1
  <2> QED BY <1>1, <1>3, <2>2
<1> DEFINE F == [i \in 1..n |-> H[i]]
<1>8. ASSUME NEW i \in 1..n  PROVE F[i] = IF i = 1 THEN s[i] ELSE F[i - 1] \o s[i]
  <2>1. CASE i = 1
    <3>0. H[i] = H[i - 1] \o s[i] /\ i - 1 = 0
      <4>1. 1 - 1 = 0  OBVIOUS
      <4> HIDE DEF F, S
      <4> QED BY <1>7, <2>1, <4>1
    <3>1. H[i] = <<>> \o s[i]  BY ONLY <1>3, <3>0
    <3>2. <<>> \o s[i] = s[i]  BY <1>0, ConcatEmptySeq
    <3> QED BY <2>1, <3>1, <3>2
  <2>2. CASE i # 1
    <3>1. i - 1 \in 1..n  BY <1>0, <2>2
    <3> QED BY <3>1, <1>7, <2>2
  <2> QED BY <2>1, <2>2
<1>9. F = [i \in 1..n |-> F[i]]  OBVIOUS
<1>10. Flattens(F, s)
  <2> HIDE DEF F
  <2> QED BY <1>8, <1>9, Zenon DEF Flattens, n
<1> QED BY <1>10

LEMMA FlattensIs ==
  ASSUME NEW T, NEW s \in Seq(Seq(T)), NEW F, Flattens(F, s)
  PROVE  \A i \in 1..Len(s) : F[i] = IF i = 1 THEN s[i] ELSE F[i - 1] \o s[i]
BY Zenon DEF Flattens

LEMMA FlattenEmpty == FlattenSeq(<<>>) = <<>>
BY DEF FlattenSeq

\* Any function that flattens gives it.
LEMMA FlattenIs ==
  ASSUME NEW T, NEW s \in Seq(Seq(T)), s # <<>>
  PROVE  \E F : Flattens(F, s) /\ FlattenSeq(s) = F[Len(s)]
<1> DEFINE F == CHOOSE F : Flattens(F, s)
<1>1. Flattens(F, s)  BY FlattensExist
<1>2. FlattenSeq(s) = F[Len(s)]  BY DEF FlattenSeq, Flattens
<1> QED BY <1>1, <1>2

\* What is flattened of a beginning depends on nothing after it.
LEMMA FlattensAgree ==
  ASSUME NEW T, NEW s \in Seq(Seq(T)), NEW t \in Seq(Seq(T)), Len(s) <= Len(t),
         \A i \in 1..Len(s) : s[i] = t[i], NEW F, Flattens(F, s), NEW G, Flattens(G, t)
  PROVE  \A i \in 1..Len(s) : F[i] = G[i]
<1> DEFINE n == Len(s)
           S == {k \in Nat : k = 0 \/ F[k] = G[k]}
<1>0. n \in Nat /\ Len(t) \in Nat /\ n <= Len(t)  OBVIOUS
<1>1. \A i \in 1..n : F[i] = IF i = 1 THEN s[i] ELSE F[i - 1] \o s[i]  BY FlattensIs
<1>2. \A i \in 1..n : G[i] = IF i = 1 THEN s[i] ELSE G[i - 1] \o s[i]
  <2>1. \A i \in 1..Len(t) : G[i] = IF i = 1 THEN t[i] ELSE G[i - 1] \o t[i]  BY FlattensIs
  <2> HIDE DEF n
  <2>2. \A i \in 1..n : i \in 1..Len(t)  BY <1>0
  <2> QED BY <2>1, <2>2 DEF n
<1> HIDE DEF n
<1>3. 0 \in S  OBVIOUS
<1>4. ASSUME NEW i \in 1..n, i - 1 \in S  PROVE i \in S
  <2>1. i \in Nat /\ (i = 1 \/ F[i - 1] = G[i - 1])  BY <1>0, <1>4
  <2> QED BY <1>1, <1>2, <2>1
<1>5. \A i \in 0..n : i \in S
  <2> HIDE DEF S
  <2> QED BY <1>0, <1>3, <1>4, UpTo
<1>6. \A i \in 1..n : i \in 0..n /\ i # 0  BY <1>0
<1> QED BY <1>5, <1>6 DEF n

LEMMA FlattenOne ==
  ASSUME NEW T, NEW x \in Seq(T)
  PROVE  FlattenSeq(<<x>>) = x
<1>1. <<x>> \in Seq(Seq(T)) /\ <<x>> # <<>> /\ Len(<<x>>) = 1 /\ <<x>>[1] = x  OBVIOUS
<1>2. PICK F : Flattens(F, <<x>>) /\ FlattenSeq(<<x>>) = F[Len(<<x>>)]  BY <1>1, FlattenIs
<1>3. 1 \in 1..Len(<<x>>)  BY <1>1
<1>4. F[1] = <<x>>[1]  BY <1>1, <1>2, <1>3, FlattensIs
<1> QED BY <1>1, <1>2, <1>4

LEMMA FlattenAppend ==
  ASSUME NEW T, NEW s \in Seq(Seq(T)), NEW x \in Seq(T)
  PROVE  FlattenSeq(Append(s, x)) = FlattenSeq(s) \o x
<1>1. CASE s = <<>>
  <2>1. Append(s, x) = <<x>> /\ <<>> \o x = x  BY <1>1
  <2> QED BY <1>1, <2>1, FlattenOne, FlattenEmpty
<1>2. CASE s # <<>>
  <2> DEFINE t == Append(s, x)
             n == Len(s)
  <2>1. /\ t \in Seq(Seq(T)) /\ t # <<>> /\ Len(t) = n + 1 /\ t[n + 1] = x
        /\ n \in Nat /\ n # 0 /\ \A i \in 1..n : s[i] = t[i]
    <3> DEFINE U == Seq(T)
    <3> HIDE DEF U
    <3>1. s \in Seq(U) /\ x \in U  BY DEF U
    <3>2. t \in Seq(U)  BY <3>1, AppendProperties
    <3>3. /\ t # <<>> /\ Len(t) = n + 1 /\ t[n + 1] = x
          /\ n \in Nat /\ n # 0 /\ \A i \in 1..n : s[i] = t[i]
      BY <1>2, <3>1, AppendProperties, LenProperties, EmptySeq
    <3> QED BY <3>2, <3>3 DEF U
  <2> HIDE DEF t, n
  <2>2. PICK F : Flattens(F, s) /\ FlattenSeq(s) = F[n]  BY <1>2, FlattenIs DEF n
  <2>3. PICK G : Flattens(G, t) /\ FlattenSeq(t) = G[Len(t)]  BY <2>1, FlattenIs
  <2>4. \A i \in 1..n : F[i] = G[i]
    <3>1. Len(s) <= Len(t) /\ \A i \in 1..Len(s) : s[i] = t[i]  BY <2>1 DEF n
    <3>2. t \in Seq(Seq(T)) /\ s \in Seq(Seq(T)) /\ Flattens(F, s) /\ Flattens(G, t)
      BY <2>1, <2>2, <2>3
    <3>3. \A i \in 1..Len(s) : F[i] = G[i]
      BY ONLY <3>1, <3>2, FlattensAgree
    <3> QED BY <3>3 DEF n
  <2>5. G[n + 1] = G[n] \o x
    <3>1. n + 1 \in 1..Len(t) /\ n + 1 # 1 /\ n + 1 - 1 = n  BY <2>1
    <3>2. t \in Seq(Seq(T)) /\ Flattens(G, t)  BY <2>1, <2>3
    <3>3. \A i \in 1..Len(t) : G[i] = IF i = 1 THEN t[i] ELSE G[i - 1] \o t[i]
      BY ONLY <3>2, FlattensIs
    <3>4. t[n + 1] = x /\ n \in Nat /\ Len(t) \in Nat  BY <2>1
    <3> DEFINE m == n + 1
    <3> HIDE DEF m
    <3>6. m \in 1..Len(t) /\ m # 1 /\ m - 1 = n  BY <3>1, <3>4 DEF m
    <3>7. G[m] = IF m = 1 THEN t[m] ELSE G[m - 1] \o t[m]  BY ONLY <3>3, <3>6, Zenon
    <3>8. G[m] = G[m - 1] \o t[m]  BY ONLY <3>6, <3>7
    <3>5. G[n + 1] = G[n] \o t[n + 1]  BY ONLY <3>6, <3>8 DEF m
    <3> QED BY ONLY <3>4, <3>5
  <2>6. n \in 1..n  BY <2>1
  <2> QED BY <2>1, <2>2, <2>3, <2>4, <2>5, <2>6 DEF t
<1> QED BY <1>1, <1>2

LEMMA FlattenType ==
  ASSUME NEW T, NEW s \in Seq(Seq(T))
  PROVE  FlattenSeq(s) \in Seq(T)
<1> DEFINE U == Seq(T)
           S == {t \in Seq(U) : FlattenSeq(t) \in Seq(T)}
<1>1. <<>> \in S  BY FlattenEmpty, EmptySeq
<1>2. ASSUME NEW t \in S, NEW x \in U  PROVE Append(t, x) \in S
  <2>1. FlattenSeq(Append(t, x)) = FlattenSeq(t) \o x  BY FlattenAppend
  <2>2. FlattenSeq(t) \o x \in Seq(T)
    <3>1. FlattenSeq(t) \in Seq(T) /\ x \in Seq(T)  OBVIOUS
    <3> QED BY <3>1, ConcatProperties
  <2>3. Append(t, x) \in Seq(U)
    <3>1. t \in Seq(U)  OBVIOUS
    <3> HIDE DEF U, S
    <3> QED BY <3>1, AppendProperties
  <2> QED BY <2>1, <2>2, <2>3
<1>3. S = Seq(U)
  <2>1. S \in SUBSET Seq(U)  OBVIOUS
  <2> HIDE DEF S, U
  <2> QED BY <1>1, <1>2, <2>1, SequenceInduction
<1> QED BY <1>3

Maps(G, X, U) == G \in [X -> U]
Mapped(G, s) == [k \in DOMAIN s |-> G[s[k]]]

LEMMA MappedAppend ==
  ASSUME NEW X, NEW U, NEW G, Maps(G, X, U), NEW s \in Seq(X), NEW x \in X
  PROVE  /\ Mapped(G, s) \in Seq(U)
         /\ Mapped(G, Append(s, x)) = Append(Mapped(G, s), G[x])
<1> DEFINE n == Len(s)
           m == Mapped(G, s)
           c == Append(s, x)
           d == Append(m, G[x])
<1>0. G \in [X -> U]  BY DEF Maps
<1>1. n \in Nat /\ DOMAIN s = 1..n /\ \A k \in 1..n : s[k] \in X  OBVIOUS
<1>2. m = [k \in 1..n |-> G[s[k]]]  BY <1>1 DEF Mapped
<1>3. m \in Seq(U)
  <2>1. m \in [1..n -> U]  BY <1>0, <1>1, <1>2
  <2> QED BY <1>1, <2>1
<1>4. c \in Seq(X) /\ Len(c) = n + 1 /\ DOMAIN c = 1..(n + 1) /\ c[n + 1] = x /\ \A k \in 1..n : c[k] = s[k]
  BY AppendProperties
<1>5. G[x] \in U  BY <1>0
<1>6. Len(m) = n  BY <1>1, <1>2, <1>3
<1>7. /\ d \in Seq(U) /\ Len(d) = n + 1 /\ DOMAIN d = 1..(n + 1) /\ d[n + 1] = G[x]
      /\ \A k \in 1..n : d[k] = m[k]
  <2> HIDE DEF m, n
  <2> QED BY <1>1, <1>3, <1>5, <1>6, AppendProperties
<1>8. \A k \in 1..n : m[k] = G[s[k]]  BY <1>2
<1> DEFINE r == [k \in 1..(n + 1) |-> G[c[k]]]
<1>9. Mapped(G, c) = r  BY <1>4 DEF Mapped
<1>10. \A k \in 1..(n + 1) : r[k] = d[k]
  <2> SUFFICES ASSUME NEW k \in 1..(n + 1)  PROVE r[k] = d[k]
    OBVIOUS
  <2>1. r[k] = G[c[k]]  OBVIOUS
  <2> HIDE DEF c, d, m, n, r
  <2>2. k = n + 1 \/ k \in 1..n  BY <1>1
  <2>3. CASE k = n + 1  BY <1>4, <1>7, <2>1, <2>3
  <2>4. CASE k \in 1..n  BY <1>4, <1>7, <1>8, <2>1, <2>4
  <2> QED BY <2>2, <2>3, <2>4
<1>11. d = [k \in 1..(n + 1) |-> d[k]]  BY <1>7
<1>12. r = [k \in 1..(n + 1) |-> r[k]]  OBVIOUS
<1>13. r = d
  <2> HIDE DEF r, d
  <2> QED BY <1>10, <1>11, <1>12, Zenon
<1> QED BY <1>3, <1>9, <1>13

\* What one more element adds to what the elements of a sequence stand for.
LEMMA FlattenMapped ==
  ASSUME NEW X, NEW T, NEW G, Maps(G, X, Seq(T)), NEW s \in Seq(X), NEW x \in X
  PROVE  /\ FlattenSeq(Mapped(G, s)) \in Seq(T)
         /\ FlattenSeq(Mapped(G, Append(s, x))) = FlattenSeq(Mapped(G, s)) \o G[x]
<1> DEFINE U == Seq(T)
           m == Mapped(G, s)
<1>1. Maps(G, X, U) /\ G[x] \in U  BY DEF Maps
<1> HIDE DEF U
<1>2. m \in Seq(U) /\ Mapped(G, Append(s, x)) = Append(m, G[x]) /\ G[x] \in U
  BY <1>1, MappedAppend
<1> HIDE DEF m
<1>3. m \in Seq(Seq(T)) /\ G[x] \in Seq(T)  BY <1>2 DEF U
<1>4. FlattenSeq(m) \in Seq(T) /\ FlattenSeq(Append(m, G[x])) = FlattenSeq(m) \o G[x]
  BY ONLY <1>3, FlattenAppend, FlattenType
<1> QED BY <1>2, <1>4 DEF m

LEMMA MappedEmpty ==
  ASSUME NEW G  PROVE FlattenSeq(Mapped(G, <<>>)) = <<>>
<1>1. Mapped(G, <<>>) = <<>>  BY DEF Mapped
<1> QED BY <1>1, FlattenEmpty
=============================================================================
