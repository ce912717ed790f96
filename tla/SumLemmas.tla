----------------------------- MODULE SumLemmas -----------------------------
(***************************************************************************)
(* Facts about SumFunctionOnSet, which the ledgers of the models are       *)
(* stated with.  The community module defines it by recursion over the     *)
(* subsets of a finite set.  The induction these facts need is drawn from  *)
(* well-foundedness: a counterexample would have a minimal one.            *)
(***************************************************************************)
EXTENDS Integers, FiniteSets, Functions, WellFoundedInduction,
        FiniteSetTheorems, TLAPS

-----------------------------------------------------------------------------
(***************************************************************************)
(* Induction, over the naturals and over the subsets of a finite set.      *)
(***************************************************************************)

\* A set that holds 0 and, with a number, the next one, holds every number.
LEMMA NaturalInduction ==
  ASSUME NEW G, 0 \in G, \A n \in Nat : n \in G => n + 1 \in G
  PROVE  \A n \in Nat : n \in G
<1>1. SUFFICES ASSUME Nat \ G # {} PROVE FALSE
  OBVIOUS
<1> DEFINE Less == OpToRel(<, Nat)
           Rest == Nat \ G
<1>2. PICK x \in Rest : \A y \in Rest : ~ (<<y, x>> \in Less)
  <2>1. Rest \subseteq Nat /\ Rest # {} /\ IsWellFoundedOn(Less, Nat)
    BY <1>1, NatLessThanWellFounded
  <2> HIDE DEF Rest, Less
  <2>2. QED
    BY <2>1, WFMin, Zenon
<1> HIDE DEF Less
<1>3. x # 0 /\ x - 1 \in Nat
  BY <1>2
<1>4. <<x - 1, x>> \in Less
  BY <1>2, <1>3 DEF OpToRel, Less
<1>5. x - 1 \in G
  BY <1>2, <1>3, <1>4
<1>6. (x - 1) + 1 \in G
  BY <1>3, <1>5
<1>7. QED
  BY <1>2, <1>6

\* Among any subsets of a finite set one has no other below it.
LEMMA MinimalSubset ==
  ASSUME NEW S, IsFiniteSet(S), NEW F, F \subseteq SUBSET S, F # {}
  PROVE  \E T \in F : \A U \in F : U \subseteq T => U = T
<1>1. IsWellFoundedOn(StrictSubsetOrdering(S), SUBSET S)
  BY FS_StrictSubsetOrderingWellFounded, FS_FiniteSubsetsOfFinite
<1>2. PICK T \in F : \A U \in F : ~ (<<U, T>> \in StrictSubsetOrdering(S))
  BY <1>1, WFMin, Zenon
<1>3. QED
  BY <1>2 DEF StrictSubsetOrdering

\* What every set has that has it whenever its proper subsets have it.
LEMMA SubsetInduction ==
  ASSUME NEW S, IsFiniteSet(S), NEW G,
         \A T \in SUBSET S : (\A U \in SUBSET T : U # T => U \in G) => T \in G
  PROVE  S \in G
<1>1. SUFFICES ASSUME S \notin G PROVE FALSE
  OBVIOUS
<1> DEFINE F == {T \in SUBSET S : T \notin G}
<1>2. PICK T \in F : \A U \in F : U \subseteq T => U = T
  <2>1. F \subseteq SUBSET S /\ F # {}
    BY <1>1
  <2> HIDE DEF F
  <2>2. QED
    BY <2>1, MinimalSubset
<1>3. T \in SUBSET S /\ T \notin G
  BY <1>2
<1>4. \A U \in SUBSET T : U # T => U \in G
  BY <1>2, <1>3
<1>5. QED
  BY <1>3, <1>4

-----------------------------------------------------------------------------
(***************************************************************************)
(* The recursion behind SumFunctionOnSet(f, S).                            *)
(***************************************************************************)
Chosen(T) == CHOOSE x \in T : TRUE

\* s is right about the subset T.
RightAt(f, s, T) == s[T] = IF T = {} THEN 0 ELSE f[Chosen(T)] + s[T \ {Chosen(T)}]

SumsOf(f, S, s) ==
  s = [T \in SUBSET S |-> IF T = {} THEN 0 ELSE f[Chosen(T)] + s[T \ {Chosen(T)}]]

Integral(f, S) == \A x \in S : f[x] \in Int

\* The member the recursion takes out of a set is in it.
LEMMA ChosenIsIn ==
  ASSUME NEW T, T # {}
  PROVE  Chosen(T) \in T
BY DEF Chosen

\* There are integers that satisfy the recursion, subset by subset.
LEMMA SumsExist ==
  ASSUME NEW f, NEW S, IsFiniteSet(S), Integral(f, S)
  PROVE  \E s \in [SUBSET S -> Int] : \A T \in SUBSET S : RightAt(f, s, T)
<1> DEFINE UpTo(n) == {s \in [SUBSET S -> Int] :
                         \A T \in SUBSET S : Cardinality(T) <= n => RightAt(f, s, T)}
           G == {n \in Nat : UpTo(n) # {}}
<1>0. \A T \in SUBSET S : IsFiniteSet(T) /\ Cardinality(T) \in Nat /\ Cardinality(T) <= Cardinality(S)
  BY FS_Subset, FS_CardinalityType
<1>1. 0 \in G
  <2> DEFINE s == [T \in SUBSET S |-> 0]
  <2>1. \A T \in SUBSET S : Cardinality(T) <= 0 => T = {}
    BY <1>0, FS_EmptySet
  <2>2. s \in UpTo(0)
    BY <2>1 DEF RightAt
  <2>3. QED
    BY <2>2
<1>2. ASSUME NEW n \in Nat, n \in G PROVE n + 1 \in G
  <2>1. PICK s \in [SUBSET S -> Int] :
               \A T \in SUBSET S : Cardinality(T) <= n => RightAt(f, s, T)
    BY <1>2
  <2> DEFINE r == [T \in SUBSET S |-> IF T = {} THEN 0 ELSE f[Chosen(T)] + s[T \ {Chosen(T)}]]
  <2>2. \A T \in SUBSET S : T # {} => /\ Chosen(T) \in S
                                      /\ f[Chosen(T)] \in Int
                                      /\ T \ {Chosen(T)} \in SUBSET S
                                      /\ s[T \ {Chosen(T)}] \in Int
    BY <2>1, ChosenIsIn DEF Integral
  <2>3. r \in [SUBSET S -> Int]
    BY <2>2
  <2>4. ASSUME NEW T \in SUBSET S, Cardinality(T) <= n PROVE r[T] = s[T]
    BY <2>1, <2>4 DEF RightAt
  <2>5. ASSUME NEW T \in SUBSET S, Cardinality(T) <= n + 1, T # {}
        PROVE  Cardinality(T \ {Chosen(T)}) <= n
    BY <1>0, <2>5, ChosenIsIn, FS_RemoveElement
  <2>6. ASSUME NEW T \in SUBSET S, Cardinality(T) <= n + 1 PROVE RightAt(f, r, T)
    <3>1. CASE T = {}
      BY <3>1 DEF RightAt
    <3>2. CASE T # {}
      <4>1. r[T \ {Chosen(T)}] = s[T \ {Chosen(T)}]
        BY <2>4, <2>5, <2>6, <3>2
      <4>2. QED
        BY <3>2, <4>1 DEF RightAt
    <3>3. QED
      BY <3>1, <3>2
  <2>7. r \in UpTo(n + 1)
    BY <2>3, <2>6
  <2>8. QED
    <3> HIDE DEF r
    <3>1. QED
      BY <2>7
<1>3. Cardinality(S) \in G
  <2>1. \A n \in Nat : n \in G
    <3> HIDE DEF G
    <3>1. QED
      BY <1>1, <1>2, NaturalInduction
  <2>2. QED
    BY <1>0, <2>1
<1>4. PICK s \in UpTo(Cardinality(S)) : TRUE
  BY <1>3
<1>5. QED
  BY <1>0, <1>4

\* The community operator is this recursion.
LEMMA SumUnfolds ==
  ASSUME NEW f, NEW S
  PROVE  SumFunctionOnSet(f, S) = (CHOOSE s : SumsOf(f, S, s))[S]
BY DEF SumFunctionOnSet, FoldFunctionOnSet, MapThenFoldSet, SumsOf, Chosen

\* Any integers that satisfy the recursion below S sum S.
LEMMA SumIsUnique ==
  ASSUME NEW f, NEW S, IsFiniteSet(S), Integral(f, S),
         NEW s, \A T \in SUBSET S : RightAt(f, s, T)
  PROVE  SumFunctionOnSet(f, S) = s[S]
<1>1. PICK r \in [SUBSET S -> Int] : \A T \in SUBSET S : RightAt(f, r, T)
  BY SumsExist
<1>2. SumsOf(f, S, r)
  BY <1>1 DEF RightAt, SumsOf
<1> DEFINE c == CHOOSE t : SumsOf(f, S, t)
<1>3. SumsOf(f, S, c)
  BY <1>2, Zenon
<1> HIDE DEF c
<1>4. \A T \in SUBSET S : RightAt(f, c, T)
  BY <1>3 DEF RightAt, SumsOf
<1> DEFINE G == {T \in SUBSET S : c[T] = s[T]}
<1>5. ASSUME NEW T \in SUBSET S, \A U \in SUBSET T : U # T => U \in G
      PROVE  T \in G
  <2>1. CASE T = {}
    BY <1>4, <2>1 DEF RightAt
  <2>2. CASE T # {}
    <3>1. T \ {Chosen(T)} \in SUBSET T /\ T \ {Chosen(T)} # T
      BY <2>2, ChosenIsIn
    <3>2. c[T \ {Chosen(T)}] = s[T \ {Chosen(T)}]
      BY <1>5, <3>1
    <3>3. QED
      BY <1>4, <2>2, <3>2 DEF RightAt
  <2>3. QED
    BY <2>1, <2>2
<1>6. S \in G
  <2> HIDE DEF G
  <2>1. QED
    BY <1>5, SubsetInduction
<1>7. QED
  BY <1>6, SumUnfolds DEF c

-----------------------------------------------------------------------------
(***************************************************************************)
(* What the models use.                                                    *)
(***************************************************************************)
LEMMA EmptySum ==
  ASSUME NEW f
  PROVE  SumFunctionOnSet(f, {}) = 0
<1>1. PICK s \in [SUBSET {} -> Int] : \A T \in SUBSET {} : RightAt(f, s, T)
  BY SumsExist, FS_EmptySet DEF Integral
<1>2. SumFunctionOnSet(f, {}) = s[{}]
  BY <1>1, SumIsUnique, FS_EmptySet DEF Integral
<1>3. QED
  BY <1>1, <1>2 DEF RightAt

\* A sum of integers is one.
LEMMA SumIsInteger ==
  ASSUME NEW f, NEW S, IsFiniteSet(S), Integral(f, S)
  PROVE  SumFunctionOnSet(f, S) \in Int
<1>1. PICK s \in [SUBSET S -> Int] : \A T \in SUBSET S : RightAt(f, s, T)
  BY SumsExist
<1>2. QED
  BY <1>1, SumIsUnique

\* A sum is one of its terms and the sum of the others, for the term the
\* recursion takes.
LEMMA SumStep ==
  ASSUME NEW f, NEW S, IsFiniteSet(S), Integral(f, S), S # {}
  PROVE  SumFunctionOnSet(f, S) = f[Chosen(S)] + SumFunctionOnSet(f, S \ {Chosen(S)})
<1>1. PICK s \in [SUBSET S -> Int] : \A T \in SUBSET S : RightAt(f, s, T)
  BY SumsExist
<1>2. SumFunctionOnSet(f, S) = s[S]
  BY <1>1, SumIsUnique
<1> DEFINE R == S \ {Chosen(S)}
<1>3. IsFiniteSet(R) /\ R \in SUBSET S
  BY FS_Subset
<1>4. Integral(f, R) /\ \A T \in SUBSET R : RightAt(f, s, T)
  BY <1>1, <1>3 DEF Integral
<1>5. SumFunctionOnSet(f, R) = s[R]
  BY <1>3, <1>4, SumIsUnique
<1>6. QED
  BY <1>1, <1>2, <1>5 DEF RightAt

\* The order of the addition does not matter: any element may come first.
LEMMA SumRemove ==
  ASSUME NEW f, NEW S, IsFiniteSet(S), Integral(f, S), NEW x \in S
  PROVE  SumFunctionOnSet(f, S) = f[x] + SumFunctionOnSet(f, S \ {x})
<1> DEFINE Sum(T) == SumFunctionOnSet(f, T)
           G == {T \in SUBSET S : \A y \in T : Sum(T) = f[y] + Sum(T \ {y})}
<1>0. \A T \in SUBSET S : IsFiniteSet(T) /\ Integral(f, T) /\ Sum(T) \in Int
  BY FS_Subset, SumIsInteger DEF Integral
<1> HIDE DEF Sum
<1>1. ASSUME NEW T \in SUBSET S, \A U \in SUBSET T : U # T => U \in G
      PROVE  T \in G
  <2>1. SUFFICES ASSUME NEW y \in T PROVE Sum(T) = f[y] + Sum(T \ {y})
    OBVIOUS
  <2> DEFINE c == Chosen(T)
  <2>2. c \in T
    BY ChosenIsIn
  <2>3. Sum(T) = f[c] + Sum(T \ {c})
    BY <1>0, SumStep DEF Sum
  <2> HIDE DEF c
  <2>4. CASE y = c
    BY <2>3, <2>4
  <2>5. CASE y # c
    <3>1. /\ T \ {c} \in SUBSET T /\ T \ {c} # T /\ y \in T \ {c}
          /\ T \ {y} \in SUBSET T /\ T \ {y} # T /\ c \in T \ {y}
      BY <2>2, <2>5
    <3>2. Sum(T \ {c}) = f[y] + Sum((T \ {c}) \ {y})
      BY <1>1, <3>1
    <3>3. Sum(T \ {y}) = f[c] + Sum((T \ {y}) \ {c})
      BY <1>1, <3>1
    <3>4. Sum((T \ {c}) \ {y}) = Sum((T \ {y}) \ {c})
      <4>1. (T \ {c}) \ {y} = (T \ {y}) \ {c}
        OBVIOUS
      <4>2. QED
        BY <4>1, Zenon
    <3>5. /\ f[c] \in Int /\ f[y] \in Int
          /\ Sum((T \ {c}) \ {y}) \in Int
      BY <1>0, <2>2 DEF Integral
    <3>6. QED
      BY <2>3, <3>2, <3>3, <3>4, <3>5
  <2>6. QED
    BY <2>4, <2>5
<1>2. S \in G
  <2> HIDE DEF G
  <2>1. QED
    BY <1>1, SubsetInduction
<1>3. QED
  BY <1>2 DEF Sum

\* An element that comes in adds its value.
LEMMA SumInsert ==
  ASSUME NEW f, NEW S, IsFiniteSet(S), NEW x, x \notin S, Integral(f, S \cup {x})
  PROVE  SumFunctionOnSet(f, S \cup {x}) = f[x] + SumFunctionOnSet(f, S)
<1>1. IsFiniteSet(S \cup {x}) /\ (S \cup {x}) \ {x} = S
  BY FS_AddElement
<1>2. QED
  BY <1>1, SumRemove

\* The sum looks at nothing but the values of its elements.
LEMMA SumAgrees ==
  ASSUME NEW f, NEW g, NEW S, IsFiniteSet(S), Integral(f, S),
         \A x \in S : f[x] = g[x]
  PROVE  SumFunctionOnSet(f, S) = SumFunctionOnSet(g, S)
<1>1. PICK s \in [SUBSET S -> Int] : \A T \in SUBSET S : RightAt(f, s, T)
  BY SumsExist
<1>2. \A T \in SUBSET S : RightAt(g, s, T)
  BY <1>1, ChosenIsIn DEF RightAt
<1>3. Integral(g, S)
  BY DEF Integral
<1>4. QED
  BY <1>1, <1>2, <1>3, SumIsUnique

\* When one value changes, the sum changes by as much.
LEMMA SumChange ==
  ASSUME NEW f, NEW g, NEW S, IsFiniteSet(S), Integral(f, S), Integral(g, S),
         NEW x, \A y \in S \ {x} : f[y] = g[y]
  PROVE  SumFunctionOnSet(g, S) =
           IF x \in S THEN SumFunctionOnSet(f, S) + g[x] - f[x] ELSE SumFunctionOnSet(f, S)
<1>1. IsFiniteSet(S \ {x}) /\ Integral(f, S \ {x})
  BY FS_Subset DEF Integral
<1>2. SumFunctionOnSet(f, S \ {x}) = SumFunctionOnSet(g, S \ {x})
  BY <1>1, SumAgrees
<1>3. SumFunctionOnSet(f, S \ {x}) \in Int
  BY <1>1, SumIsInteger
<1>4. CASE x \in S
  BY <1>2, <1>3, <1>4, SumRemove DEF Integral
<1>5. CASE x \notin S
  <2>1. S \ {x} = S
    BY <1>5
  <2>2. QED
    BY <1>2, <1>5, <2>1
<1>6. QED
  BY <1>4, <1>5

\* Natural numbers sum to a natural number, and a part of them to no more.
LEMMA SumIsNatural ==
  ASSUME NEW f, NEW S, IsFiniteSet(S), \A x \in S : f[x] \in Nat
  PROVE  SumFunctionOnSet(f, S) \in Nat
<1> DEFINE G == {T \in SUBSET S : SumFunctionOnSet(f, T) \in Nat}
<1>1. ASSUME NEW T \in SUBSET S, \A U \in SUBSET T : U # T => U \in G
      PROVE  T \in G
  <2>1. CASE T = {}
    BY <2>1, EmptySum
  <2>2. CASE T # {}
    <3>1. IsFiniteSet(T) /\ Integral(f, T) /\ Chosen(T) \in T
      BY <2>2, FS_Subset, ChosenIsIn DEF Integral
    <3>2. SumFunctionOnSet(f, T \ {Chosen(T)}) \in Nat
      BY <1>1, <3>1
    <3>3. QED
      BY <2>2, <3>1, <3>2, SumStep
  <2>3. QED
    BY <2>1, <2>2
<1>2. S \in G
  <2> HIDE DEF G
  <2>1. QED
    BY <1>1, SubsetInduction
<1>3. QED
  BY <1>2

\* A part of a sum of naturals is no larger than the whole.
LEMMA SumOfPart ==
  ASSUME NEW f, NEW S, IsFiniteSet(S), \A x \in S : f[x] \in Nat, NEW T \in SUBSET S
  PROVE  SumFunctionOnSet(f, T) <= SumFunctionOnSet(f, S)
<1> DEFINE Sum(U) == SumFunctionOnSet(f, U)
           G == {U \in SUBSET S : \A V \in SUBSET U : Sum(V) <= Sum(U)}
<1>0. \A U \in SUBSET S : IsFiniteSet(U) /\ Integral(f, U) /\ Sum(U) \in Nat
  BY FS_Subset, SumIsNatural DEF Integral
<1>1. ASSUME NEW U \in SUBSET S, \A V \in SUBSET U : V # U => V \in G
      PROVE  U \in G
  <2>1. SUFFICES ASSUME NEW V \in SUBSET U PROVE Sum(V) <= Sum(U)
    OBVIOUS
  <2>2. CASE V = U
    <3>1. Sum(V) = Sum(U) /\ Sum(U) \in Nat
      BY <1>0, <2>2
    <3>2. QED
      BY <3>1
  <2>3. CASE V # U
    <3>1. PICK x \in U : x \notin V
      BY <2>3
    <3>2. U \ {x} \in SUBSET U /\ U \ {x} # U /\ V \in SUBSET (U \ {x})
      BY <3>1
    <3>3. Sum(V) <= Sum(U \ {x})
      BY <1>1, <3>2
    <3>4. Sum(U) = f[x] + Sum(U \ {x})
      BY <1>0, SumRemove
    <3>5. Sum(V) \in Nat /\ Sum(U) \in Nat /\ Sum(U \ {x}) \in Nat /\ f[x] \in Nat
      BY <1>0, <3>2
    <3> HIDE DEF Sum
    <3>6. QED
      BY <3>3, <3>4, <3>5
  <2>4. QED
    BY <2>2, <2>3
<1>2. S \in G
  <2> HIDE DEF G
  <2>1. QED
    BY <1>1, SubsetInduction
<1>3. QED
  BY <1>2

\* A sum of zeros is zero.
LEMMA ZeroSum ==
  ASSUME NEW f, NEW S, IsFiniteSet(S), \A x \in S : f[x] = 0
  PROVE  SumFunctionOnSet(f, S) = 0
<1> DEFINE s == [T \in SUBSET S |-> 0]
<1>1. \A T \in SUBSET S : RightAt(f, s, T)
  BY ChosenIsIn DEF RightAt
<1>2. Integral(f, S)
  BY DEF Integral
<1> HIDE DEF s
<1>3. SumFunctionOnSet(f, S) = s[S]
  BY <1>1, <1>2, SumIsUnique
<1>4. QED
  BY <1>3 DEF s

-----------------------------------------------------------------------------
(***************************************************************************)
(* Amounts a[x], each counted c[x] times.                                  *)
(***************************************************************************)
Counted(c, a, D) == [x \in D |-> c[x] * a[x]]

\* The products the provers need.
LEMMA OneMoreTime ==
  \A m, n \in Nat : m * n \in Nat /\ (m + 1) * n = m * n + n /\ 0 * n = 0
OBVIOUS

\* They sum to a natural number.
LEMMA CountedSum ==
  ASSUME NEW D, NEW c \in [D -> Nat], NEW a, \A x \in D : a[x] \in Nat,
         NEW S \in SUBSET D, IsFiniteSet(S)
  PROVE  /\ \A x \in S : Counted(c, a, D)[x] \in Nat
         /\ SumFunctionOnSet(Counted(c, a, D), S) \in Nat
<1>1. \A x \in S : c[x] \in Nat /\ a[x] \in Nat /\ Counted(c, a, D)[x] = c[x] * a[x]
  BY DEF Counted
<1>2. \A x \in S : Counted(c, a, D)[x] \in Nat
  BY <1>1, OneMoreTime
<1>3. QED
  BY <1>2, SumIsNatural

\* What is counted once more adds its amount.
LEMMA CountOnce ==
  ASSUME NEW D, NEW c \in [D -> Nat], NEW a, \A y \in D : a[y] \in Nat,
         NEW S \in SUBSET D, IsFiniteSet(S),
         NEW d \in [D -> Nat], NEW x \in S, d[x] = c[x] + 1, \A y \in D \ {x} : d[y] = c[y]
  PROVE  SumFunctionOnSet(Counted(d, a, D), S) = SumFunctionOnSet(Counted(c, a, D), S) + a[x]
<1> DEFINE f == Counted(c, a, D)
           g == Counted(d, a, D)
<1>1. /\ \A y \in S : f[y] \in Nat /\ g[y] \in Nat
      /\ SumFunctionOnSet(f, S) \in Nat
  BY CountedSum
<1>2. \A y \in S \ {x} : f[y] = g[y]
  BY DEF Counted
<1>3. g[x] = f[x] + a[x] /\ a[x] \in Nat /\ f[x] \in Nat
  <2>1. c[x] \in Nat /\ a[x] \in Nat /\ d[x] = c[x] + 1
    OBVIOUS
  <2>2. (c[x] + 1) * a[x] = c[x] * a[x] + a[x] /\ c[x] * a[x] \in Nat
    BY <2>1, OneMoreTime
  <2>3. f[x] = c[x] * a[x] /\ g[x] = d[x] * a[x]
    BY DEF Counted
  <2>4. QED
    BY <2>1, <2>2, <2>3
<1> HIDE DEF f, g
<1>4. Integral(f, S) /\ Integral(g, S)
  BY <1>1 DEF Integral
<1>5. SumFunctionOnSet(g, S) = SumFunctionOnSet(f, S) + g[x] - f[x]
  BY <1>2, <1>4, SumChange
<1>6. QED
  BY <1>1, <1>3, <1>5 DEF f, g

\* What is counted elsewhere adds nothing.
LEMMA CountElsewhere ==
  ASSUME NEW D, NEW c \in [D -> Nat], NEW a, \A y \in D : a[y] \in Nat,
         NEW S \in SUBSET D, IsFiniteSet(S),
         NEW d \in [D -> Nat], \A y \in S : d[y] = c[y]
  PROVE  SumFunctionOnSet(Counted(d, a, D), S) = SumFunctionOnSet(Counted(c, a, D), S)
<1> DEFINE f == Counted(c, a, D)
           g == Counted(d, a, D)
<1>1. \A y \in S : f[y] \in Nat /\ f[y] = g[y]
  BY CountedSum DEF Counted
<1> HIDE DEF f, g
<1>2. Integral(f, S)
  BY <1>1 DEF Integral
<1>3. SumFunctionOnSet(f, S) = SumFunctionOnSet(g, S)
  BY <1>1, <1>2, SumAgrees
<1>4. QED
  BY <1>3 DEF f, g

\* What is never counted sums to nothing.
LEMMA CountNone ==
  ASSUME NEW D, NEW a, \A x \in D : a[x] \in Nat, NEW S \in SUBSET D, IsFiniteSet(S)
  PROVE  SumFunctionOnSet(Counted([x \in D |-> 0], a, D), S) = 0
<1>1. \A x \in S : Counted([y \in D |-> 0], a, D)[x] = 0
  <2>1. \A x \in S : Counted([y \in D |-> 0], a, D)[x] = 0 * a[x] /\ a[x] \in Nat
    BY DEF Counted
  <2>2. QED
    BY <2>1, OneMoreTime
<1>2. QED
  BY <1>1, ZeroSum
=============================================================================
