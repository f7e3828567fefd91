------------------------------ MODULE Induction ------------------------------
(***************************************************************************)
(* Induction over the natural numbers and over finite sets in a form the   *)
(* proofs of this project can use: about a set of numbers or of sets, not  *)
(* about an operator.  And what follows from it for sums: the fold of the  *)
(* community modules is the sum of the values of a function, in any order. *)
(***************************************************************************)
EXTENDS Integers, FiniteSets, Functions, FiniteSetTheorems, WellFoundedInduction, TLAPS

\* Every set of natural numbers that is not empty has a least element.
LEMMA LeastNat ==
    ASSUME NEW T \in SUBSET Nat, T # {}
    PROVE  \E n \in T : \A m \in T : n <= m
<1> DEFINE R == OpToRel(<, Nat)
<1>1. IsWellFoundedOn(R, Nat)
  BY NatLessThanWellFounded
<1> HIDE DEF R
<1>2. PICK n \in T : \A m \in T : <<m, n>> \notin R
  BY <1>1, WFMin
<1>3. \A m \in T : ~(m < n)
  BY <1>2 DEF R, OpToRel
<1> QED
  BY <1>3

\* A set that holds 0, and with each number the next one, holds them all.
LEMMA SetInduction ==
    ASSUME NEW S, 0 \in S, \A n \in Nat : n \in S => n + 1 \in S
    PROVE  Nat \subseteq S
<1> SUFFICES ASSUME Nat \ S # {} PROVE FALSE
  OBVIOUS
<1>1. PICK n \in Nat \ S : \A m \in Nat \ S : n <= m
  BY LeastNat
<1>2. n # 0 /\ n - 1 \in Nat
  BY <1>1
<1>3. n - 1 \in S
  BY <1>1, <1>2
<1> QED
  BY <1>1, <1>2, <1>3

\* A set of natural numbers with an upper bound has a greatest element.
LEMMA GreatestNat ==
    ASSUME NEW T \in SUBSET Nat, T # {}, NEW N \in Nat, \A m \in T : m <= N
    PROVE  \E n \in T : \A m \in T : m <= n
<1> DEFINE U == {d \in Nat : N - d \in T}
<1>1. U # {}
  <2>1. PICK m \in T : TRUE
    OBVIOUS
  <2>2. N - m \in U
    BY <2>1
  <2> QED
    BY <2>2
<1>2. PICK d \in U : \A e \in U : d <= e
  BY <1>1, LeastNat
<1>3. ASSUME NEW m \in T PROVE m <= N - d
  <2>1. N - m \in U
    BY <1>3
  <2> QED
    BY <1>2, <2>1
<1> QED
  BY <1>2, <1>3

\* A set of n + 1 elements has one, and n without it.
LEMMA OneLess ==
    ASSUME NEW S, IsFiniteSet(S), NEW n \in Nat, Cardinality(S) = n + 1
    PROVE  S # {} /\ \A x \in S : IsFiniteSet(S \ {x}) /\ Cardinality(S \ {x}) = n
<1>1. S # {}
  <2> SUFFICES ASSUME S = {} PROVE FALSE
    OBVIOUS
  <2>1. Cardinality(S) = 0
    BY FS_EmptySet
  <2> QED
    BY <2>1
<1>2. ASSUME NEW x \in S PROVE IsFiniteSet(S \ {x}) /\ Cardinality(S \ {x}) = n
  <2>1. IsFiniteSet(S \ {x}) /\ Cardinality(S \ {x}) = Cardinality(S) - 1
    BY FS_RemoveElement
  <2> QED
    BY <2>1
<1> QED
  BY <1>1, <1>2

\* What holds for the empty set, and for each set with one element more, holds
\* for a finite set.  P is the set of sets it holds for.
LEMMA FiniteInduction ==
    ASSUME NEW S, IsFiniteSet(S), NEW P, {} \in P,
           \A T \in SUBSET S, x \in S : T \in P /\ x \notin T => T \cup {x} \in P
    PROVE  S \in P
<1> DEFINE D == {n \in Nat : \A T \in SUBSET S : Cardinality(T) = n => T \in P}
<1>1. 0 \in D
  <2> SUFFICES ASSUME NEW T \in SUBSET S, Cardinality(T) = 0 PROVE T \in P
    OBVIOUS
  <2>1. T = {}
    BY FS_Subset, FS_EmptySet
  <2> QED
    BY <2>1
<1>2. ASSUME NEW n \in Nat, n \in D PROVE n + 1 \in D
  <2> SUFFICES ASSUME NEW T \in SUBSET S, Cardinality(T) = n + 1 PROVE T \in P
    OBVIOUS
  <2>1. IsFiniteSet(T)
    BY FS_Subset
  <2>2. T # {}
    BY <2>1, OneLess
  <2>3. PICK x \in T : TRUE
    BY <2>2
  <2>4. Cardinality(T \ {x}) = n
    BY <2>1, <2>3, OneLess
  <2>5. T \ {x} \in P
    BY <1>2, <2>4
  <2>6. T = (T \ {x}) \cup {x}
    BY <2>3
  <2> QED
    BY <2>5, <2>6
<1> HIDE DEF D
<1>3. Nat \subseteq D
  BY <1>1, <1>2, SetInduction
<1>4. Cardinality(S) \in D
  BY <1>3, FS_CardinalityType
<1> QED
  BY <1>4 DEF D

-----------------------------------------------------------------------------
\* One step of the fold that sums, and the fold.
SumStep(g, f, s) ==
    IF s = {} THEN 0 ELSE f[CHOOSE x \in s : TRUE] + g[s \ {CHOOSE x \in s : TRUE}]
IsSum(g, f, S) == g = [s \in SUBSET S |-> SumStep(g, f, s)]
SumOf(f, S) == CHOOSE g : IsSum(g, f, S)
SameOn(f, h, S) == \A x \in S : f[x] = h[x]

\* The fold over a set, as a function of the parts of the set.
LEMMA SumUnfolds ==
    ASSUME NEW f, NEW S
    PROVE  SumFunctionOnSet(f, S) = SumOf(f, S)[S]
BY DEF SumFunctionOnSet, FoldFunctionOnSet, MapThenFoldSet, SumOf, IsSum, SumStep

\* The fold is defined for finite sets.
LEMMA SumExists ==
    ASSUME NEW f, NEW S, IsFiniteSet(S)
    PROVE  IsSum(SumOf(f, S), f, S)
<1> DEFINE Upto(g, n) == \A s \in SUBSET S : Cardinality(s) <= n => g[s] = SumStep(g, f, s)
           D == {n \in Nat : \E g : Upto(g, n)}
<1>0. ASSUME NEW s \in SUBSET S
      PROVE  /\ IsFiniteSet(s) /\ Cardinality(s) \in Nat /\ (Cardinality(s) <= 0 => s = {})
             /\ \A x \in s : s \ {x} \in SUBSET S /\ Cardinality(s \ {x}) = Cardinality(s) - 1
  BY FS_Subset, FS_EmptySet, FS_CardinalityType, FS_RemoveElement
<1>1. 0 \in D
  <2> DEFINE g == [s \in SUBSET S |-> 0]
  <2>1. Upto(g, 0)
    BY <1>0 DEF SumStep
  <2> QED
    BY <2>1
<1>2. ASSUME NEW n \in Nat, n \in D PROVE n + 1 \in D
  <2>1. PICK g : Upto(g, n)
    BY <1>2
  <2> DEFINE h == [s \in SUBSET S |-> IF Cardinality(s) <= n THEN g[s] ELSE SumStep(g, f, s)]
  <2>2. ASSUME NEW s \in SUBSET S, Cardinality(s) <= n + 1 PROVE h[s] = SumStep(h, f, s)
    <3>1. SumStep(h, f, s) = SumStep(g, f, s)
      <4>1. CASE s = {}
        BY <4>1 DEF SumStep
      <4>2. CASE s # {}
        <5>1. PICK x : x = CHOOSE y \in s : TRUE
          OBVIOUS
        <5>2. x \in s
          BY <4>2, <5>1
        <5>3. s \ {x} \in SUBSET S /\ Cardinality(s \ {x}) <= n
          BY <1>0, <2>2, <5>2
        <5>4. h[s \ {x}] = g[s \ {x}]
          BY <5>3
        <5> QED
          BY <4>2, <5>1, <5>4 DEF SumStep
      <4> QED
        BY <4>1, <4>2
    <3>2. h[s] = SumStep(g, f, s)
      BY <2>1
    <3> QED
      BY <3>1, <3>2
  <2>3. Upto(h, n + 1)
    BY <2>2
  <2> HIDE DEF h, Upto
  <2> QED
    BY <2>3
<1>3. Nat \subseteq D
  <2> HIDE DEF D
  <2> QED
    BY <1>1, <1>2, SetInduction
<1>4. Cardinality(S) \in Nat
  BY FS_CardinalityType
<1>5. PICK g : Upto(g, Cardinality(S))
  BY <1>3, <1>4
<1> DEFINE h == [s \in SUBSET S |-> g[s]]
<1>6. ASSUME NEW s \in SUBSET S PROVE h[s] = SumStep(h, f, s)
  <2>1. Cardinality(s) <= Cardinality(S)
    BY FS_Subset
  <2>2. g[s] = SumStep(g, f, s)
    BY <1>5, <2>1
  <2> QED
    BY <1>0, <2>2 DEF SumStep
<1>7. IsSum(h, f, S)
  BY <1>6 DEF IsSum
<1> QED
  BY <1>7, Zenon DEF SumOf

\* Two folds agree on a set on which their functions agree.
LEMMA SumsAgree ==
    ASSUME NEW f, NEW h, NEW S, NEW T, NEW g, NEW k, NEW U, U \subseteq S, U \subseteq T, IsFiniteSet(U),
           IsSum(g, f, S), IsSum(k, h, T), SameOn(f, h, U)
    PROVE  g[U] = k[U]
<1> DEFINE D == {n \in Nat : \A s \in SUBSET U : Cardinality(s) = n => g[s] = k[s]}
<1>0. ASSUME NEW s \in SUBSET U PROVE g[s] = SumStep(g, f, s) /\ k[s] = SumStep(k, h, s)
  <2>1. s \in SUBSET S /\ s \in SUBSET T
    OBVIOUS
  <2> QED
    BY <2>1, Zenon DEF IsSum
<1>1. 0 \in D
  <2> SUFFICES ASSUME NEW s \in SUBSET U, Cardinality(s) = 0 PROVE g[s] = k[s]
    OBVIOUS
  <2>1. s = {}
    BY FS_Subset, FS_EmptySet
  <2> QED
    BY <1>0, <2>1 DEF SumStep
<1>2. ASSUME NEW n \in Nat, n \in D PROVE n + 1 \in D
  <2> SUFFICES ASSUME NEW s \in SUBSET U, Cardinality(s) = n + 1 PROVE g[s] = k[s]
    OBVIOUS
  <2>1. IsFiniteSet(s) /\ s # {}
    BY FS_Subset, OneLess
  <2>2. PICK x : x = CHOOSE y \in s : TRUE
    OBVIOUS
  <2>3. x \in s
    BY <2>1, <2>2
  <2>4. Cardinality(s \ {x}) = n
    BY <2>1, <2>3, OneLess
  <2>5. g[s \ {x}] = k[s \ {x}]
    BY <1>2, <2>4
  <2>6. g[s] = f[x] + g[s \ {x}] /\ k[s] = h[x] + k[s \ {x}]
    BY <1>0, <2>1, <2>2 DEF SumStep
  <2> QED
    BY <2>3, <2>5, <2>6 DEF SameOn
<1> HIDE DEF D
<1>3. Nat \subseteq D
  BY <1>1, <1>2, SetInduction
<1>4. Cardinality(U) \in D
  BY <1>3, FS_CardinalityType
<1> QED
  BY <1>4 DEF D

\* A sum depends on the values over the set only.
LEMMA SumEqual ==
    ASSUME NEW f, NEW h, NEW S, IsFiniteSet(S), \A x \in S : f[x] = h[x]
    PROVE  SumFunctionOnSet(f, S) = SumFunctionOnSet(h, S)
<1>1. IsSum(SumOf(f, S), f, S) /\ IsSum(SumOf(h, S), h, S)
  BY SumExists
<1>2. SameOn(f, h, S)
  BY DEF SameOn
<1>3. SumOf(f, S)[S] = SumOf(h, S)[S]
  BY <1>1, <1>2, SumsAgree
<1> QED
  BY <1>3, SumUnfolds

\* The sum over no element.
LEMMA SumEmpty == ASSUME NEW f PROVE SumFunctionOnSet(f, {}) = 0
<1>1. IsSum(SumOf(f, {}), f, {})
  BY SumExists, FS_EmptySet
<1>2. SumOf(f, {})[{}] = SumStep(SumOf(f, {}), f, {})
  BY <1>1, Zenon DEF IsSum
<1> QED
  BY <1>2, SumUnfolds DEF SumStep

\* The fold takes one of the elements off.
LEMMA SumChosen ==
    ASSUME NEW f, NEW S, IsFiniteSet(S), S # {}
    PROVE  \E x \in S : SumFunctionOnSet(f, S) = f[x] + SumFunctionOnSet(f, S \ {x})
<1>1. PICK x : x = CHOOSE y \in S : TRUE
  OBVIOUS
<1>2. x \in S
  BY <1>1
<1>3. IsSum(SumOf(f, S), f, S) /\ IsSum(SumOf(f, S \ {x}), f, S \ {x})
  BY SumExists, FS_Subset
<1>4. SumOf(f, S)[S] = SumStep(SumOf(f, S), f, S)
  BY <1>3, Zenon DEF IsSum
<1>5. SumOf(f, S)[S] = f[x] + SumOf(f, S)[S \ {x}]
  BY <1>1, <1>4 DEF SumStep
<1>6. SumOf(f, S)[S \ {x}] = SumOf(f, S \ {x})[S \ {x}]
  <2>1. SameOn(f, f, S \ {x}) /\ IsFiniteSet(S \ {x})
    BY FS_Subset DEF SameOn
  <2> QED
    BY <1>3, <2>1, SumsAgree
<1> QED
  BY <1>2, <1>5, <1>6, SumUnfolds

\* A sum of integers is one.
LEMMA SumInt ==
    ASSUME NEW f, NEW S, IsFiniteSet(S), \A x \in S : f[x] \in Int
    PROVE  SumFunctionOnSet(f, S) \in Int
<1> DEFINE D == {n \in Nat : \A T \in SUBSET S : Cardinality(T) = n => SumFunctionOnSet(f, T) \in Int}
<1>1. 0 \in D
  <2> SUFFICES ASSUME NEW T \in SUBSET S, Cardinality(T) = 0 PROVE SumFunctionOnSet(f, T) \in Int
    OBVIOUS
  <2>1. T = {}
    BY FS_Subset, FS_EmptySet
  <2> QED
    BY <2>1, SumEmpty
<1>2. ASSUME NEW n \in Nat, n \in D PROVE n + 1 \in D
  <2> SUFFICES ASSUME NEW T \in SUBSET S, Cardinality(T) = n + 1 PROVE SumFunctionOnSet(f, T) \in Int
    OBVIOUS
  <2>1. IsFiniteSet(T) /\ T # {}
    BY FS_Subset, OneLess
  <2>2. PICK x \in T : SumFunctionOnSet(f, T) = f[x] + SumFunctionOnSet(f, T \ {x})
    BY <2>1, SumChosen
  <2>3. Cardinality(T \ {x}) = n
    BY <2>1, OneLess
  <2>4. SumFunctionOnSet(f, T \ {x}) \in Int
    BY <1>2, <2>3
  <2> QED
    BY <2>2, <2>4
<1> HIDE DEF D
<1>3. Nat \subseteq D
  BY <1>1, <1>2, SetInduction
<1>4. Cardinality(S) \in D
  BY <1>3, FS_CardinalityType
<1> QED
  BY <1>4 DEF D

\* Any of the elements can be taken off.
LEMMA SumRemove ==
    ASSUME NEW f, NEW S, IsFiniteSet(S), \A x \in S : f[x] \in Int, NEW y \in S
    PROVE  SumFunctionOnSet(f, S) = f[y] + SumFunctionOnSet(f, S \ {y})
<1> DEFINE Splits(T) == \A z \in T : SumFunctionOnSet(f, T) = f[z] + SumFunctionOnSet(f, T \ {z})
           D == {n \in Nat : \A T \in SUBSET S : Cardinality(T) = n => Splits(T)}
<1>1. 0 \in D
  BY FS_Subset, FS_EmptySet
<1>2. ASSUME NEW n \in Nat, n \in D PROVE n + 1 \in D
  <2> SUFFICES ASSUME NEW T \in SUBSET S, Cardinality(T) = n + 1, NEW z \in T
               PROVE  SumFunctionOnSet(f, T) = f[z] + SumFunctionOnSet(f, T \ {z})
    OBVIOUS
  <2>1. IsFiniteSet(T) /\ T # {}
    BY FS_Subset, OneLess
  <2>2. PICK x \in T : SumFunctionOnSet(f, T) = f[x] + SumFunctionOnSet(f, T \ {x})
    BY <2>1, SumChosen
  <2>3. CASE z = x
    BY <2>2, <2>3
  <2>4. CASE z # x
    <3>1. Cardinality(T \ {x}) = n /\ Cardinality(T \ {z}) = n
      BY <2>1, OneLess
    <3>2. Splits(T \ {x}) /\ Splits(T \ {z})
      BY <1>2, <3>1
    <3>3. (T \ {x}) \ {z} = (T \ {z}) \ {x} /\ z \in T \ {x} /\ x \in T \ {z}
      BY <2>4
    <3>4. /\ SumFunctionOnSet(f, T \ {x}) = f[z] + SumFunctionOnSet(f, (T \ {x}) \ {z})
          /\ SumFunctionOnSet(f, T \ {z}) = f[x] + SumFunctionOnSet(f, (T \ {x}) \ {z})
      BY <3>2, <3>3, Zenon
    <3>5. IsFiniteSet((T \ {x}) \ {z})
      BY <2>1, FS_Subset
    <3>6. SumFunctionOnSet(f, (T \ {x}) \ {z}) \in Int
      BY <3>5, SumInt
    <3> QED
      BY <2>2, <3>4, <3>6
  <2> QED
    BY <2>3, <2>4
<1> HIDE DEF D
<1>3. Nat \subseteq D
  BY <1>1, <1>2, SetInduction
<1>4. Cardinality(S) \in D
  BY <1>3, FS_CardinalityType
<1>5. Splits(S)
  BY <1>4 DEF D
<1> QED
  BY <1>5

\* An element is added.
LEMMA SumInsert ==
    ASSUME NEW f, NEW S, IsFiniteSet(S), NEW y, y \notin S, f[y] \in Int, \A x \in S : f[x] \in Int
    PROVE  SumFunctionOnSet(f, S \cup {y}) = f[y] + SumFunctionOnSet(f, S)
<1>1. IsFiniteSet(S \cup {y})
  BY FS_AddElement
<1>2. (S \cup {y}) \ {y} = S
  OBVIOUS
<1>3. SumFunctionOnSet(f, S \cup {y}) = f[y] + SumFunctionOnSet(f, (S \cup {y}) \ {y})
  BY <1>1, SumRemove
<1> QED
  BY <1>2, <1>3

\* One of the values changes.
LEMMA SumUpdate ==
    ASSUME NEW f, NEW h, NEW S, IsFiniteSet(S), NEW y \in S,
           \A x \in S : f[x] \in Int, h[y] \in Int, \A x \in S \ {y} : h[x] = f[x]
    PROVE  SumFunctionOnSet(h, S) = SumFunctionOnSet(f, S) + (h[y] - f[y])
<1>1. \A x \in S : h[x] \in Int
  OBVIOUS
<1>2. IsFiniteSet(S \ {y})
  BY FS_Subset
<1>3. SumFunctionOnSet(h, S \ {y}) = SumFunctionOnSet(f, S \ {y})
  BY <1>2, SumEqual
<1>4. SumFunctionOnSet(f, S \ {y}) \in Int
  BY <1>2, SumInt
<1>5. /\ SumFunctionOnSet(f, S) = f[y] + SumFunctionOnSet(f, S \ {y})
      /\ SumFunctionOnSet(h, S) = h[y] + SumFunctionOnSet(h, S \ {y})
  BY <1>1, SumRemove
<1> QED
  BY <1>3, <1>4, <1>5

\* A sum of smaller values is smaller.
LEMMA SumLeq ==
    ASSUME NEW f, NEW h, NEW S, IsFiniteSet(S),
           \A x \in S : f[x] \in Int /\ h[x] \in Int /\ f[x] <= h[x]
    PROVE  SumFunctionOnSet(f, S) <= SumFunctionOnSet(h, S)
<1> DEFINE P == {T \in SUBSET S : SumFunctionOnSet(f, T) <= SumFunctionOnSet(h, T)}
<1>1. {} \in P
  BY SumEmpty
<1>2. ASSUME NEW T \in SUBSET S, NEW x \in S, T \in P, x \notin T PROVE T \cup {x} \in P
  <2>1. IsFiniteSet(T)
    BY FS_Subset
  <2>2. /\ SumFunctionOnSet(f, T \cup {x}) = f[x] + SumFunctionOnSet(f, T)
        /\ SumFunctionOnSet(h, T \cup {x}) = h[x] + SumFunctionOnSet(h, T)
    BY <1>2, <2>1, SumInsert
  <2>3. SumFunctionOnSet(f, T) \in Int /\ SumFunctionOnSet(h, T) \in Int
    BY <2>1, SumInt
  <2> QED
    BY <1>2, <2>2, <2>3
<1>3. S \in P
  <2> HIDE DEF P
  <2> QED
    BY <1>1, <1>2, FiniteInduction
<1> QED
  BY <1>3

\* A sum of sums.
LEMMA SumPlus ==
    ASSUME NEW f, NEW g, NEW h, NEW S, IsFiniteSet(S),
           \A x \in S : f[x] \in Int /\ g[x] \in Int /\ h[x] = f[x] + g[x]
    PROVE  SumFunctionOnSet(h, S) = SumFunctionOnSet(f, S) + SumFunctionOnSet(g, S)
<1> DEFINE P == {T \in SUBSET S :
                    SumFunctionOnSet(h, T) = SumFunctionOnSet(f, T) + SumFunctionOnSet(g, T)}
<1>1. {} \in P
  BY SumEmpty
<1>2. ASSUME NEW T \in SUBSET S, NEW x \in S, T \in P, x \notin T PROVE T \cup {x} \in P
  <2>1. IsFiniteSet(T)
    BY FS_Subset
  <2>2. \A y \in S : h[y] \in Int
    OBVIOUS
  <2>3. /\ SumFunctionOnSet(f, T \cup {x}) = f[x] + SumFunctionOnSet(f, T)
        /\ SumFunctionOnSet(g, T \cup {x}) = g[x] + SumFunctionOnSet(g, T)
        /\ SumFunctionOnSet(h, T \cup {x}) = h[x] + SumFunctionOnSet(h, T)
    BY <1>2, <2>1, <2>2, SumInsert
  <2>4. SumFunctionOnSet(f, T) \in Int /\ SumFunctionOnSet(g, T) \in Int
    BY <2>1, SumInt
  <2> QED
    BY <1>2, <2>3, <2>4
<1>3. S \in P
  <2> HIDE DEF P
  <2> QED
    BY <1>1, <1>2, FiniteInduction
<1> QED
  BY <1>3

\* A common factor.
LEMMA SumTimes ==
    ASSUME NEW f, NEW h, NEW c \in Int, NEW S, IsFiniteSet(S),
           \A x \in S : f[x] \in Int /\ h[x] = c * f[x]
    PROVE  SumFunctionOnSet(h, S) = c * SumFunctionOnSet(f, S)
<1> DEFINE P == {T \in SUBSET S : SumFunctionOnSet(h, T) = c * SumFunctionOnSet(f, T)}
<1>0. \A a, b \in Int : c * (a + b) = c * a + c * b /\ c * a \in Int
  OBVIOUS
<1>1. {} \in P
  BY SumEmpty
<1>2. ASSUME NEW T \in SUBSET S, NEW x \in S, T \in P, x \notin T PROVE T \cup {x} \in P
  <2>1. IsFiniteSet(T)
    BY FS_Subset
  <2>2. \A y \in S : h[y] \in Int
    BY <1>0
  <2>3. /\ SumFunctionOnSet(f, T \cup {x}) = f[x] + SumFunctionOnSet(f, T)
        /\ SumFunctionOnSet(h, T \cup {x}) = h[x] + SumFunctionOnSet(h, T)
    BY <1>2, <2>1, <2>2, SumInsert
  <2>4. SumFunctionOnSet(f, T) \in Int
    BY <2>1, SumInt
  <2>5. SumFunctionOnSet(h, T \cup {x}) = c * (f[x] + SumFunctionOnSet(f, T))
    BY <1>0, <1>2, <2>3, <2>4
  <2> QED
    BY <2>3, <2>5
<1>3. S \in P
  <2> HIDE DEF P
  <2> QED
    BY <1>1, <1>2, FiniteInduction
<1> QED
  BY <1>3

\* A sum of zeros.
LEMMA SumZero ==
    ASSUME NEW f, NEW S, IsFiniteSet(S), \A x \in S : f[x] = 0
    PROVE  SumFunctionOnSet(f, S) = 0
<1>1. \A x \in S : f[x] \in Int /\ f[x] = 0 * f[x]
  OBVIOUS
<1>2. SumFunctionOnSet(f, S) = 0 * SumFunctionOnSet(f, S) /\ SumFunctionOnSet(f, S) \in Int
  BY <1>1, SumTimes, SumInt
<1> QED
  BY <1>2

\* A sum of natural numbers is one, and as large as each of them.
LEMMA SumNat ==
    ASSUME NEW f, NEW S, IsFiniteSet(S), \A x \in S : f[x] \in Nat
    PROVE  SumFunctionOnSet(f, S) \in Nat /\ \A x \in S : f[x] <= SumFunctionOnSet(f, S)
<1> DEFINE z == [x \in S |-> 0]
<1>1. \A T \in SUBSET S : SumFunctionOnSet(f, T) \in Nat
  <2> SUFFICES ASSUME NEW T \in SUBSET S PROVE SumFunctionOnSet(f, T) \in Nat
    OBVIOUS
  <2>1. IsFiniteSet(T)
    BY FS_Subset
  <2>2. SumFunctionOnSet(z, T) = 0 * SumFunctionOnSet(f, T) /\ SumFunctionOnSet(f, T) \in Int
    BY <2>1, SumTimes, SumInt
  <2>3. SumFunctionOnSet(z, T) <= SumFunctionOnSet(f, T)
    BY <2>1, SumLeq
  <2> QED
    BY <2>2, <2>3
<1>2. ASSUME NEW x \in S PROVE f[x] <= SumFunctionOnSet(f, S)
  <2>1. SumFunctionOnSet(f, S) = f[x] + SumFunctionOnSet(f, S \ {x})
    BY SumRemove
  <2>2. SumFunctionOnSet(f, S \ {x}) \in Nat
    BY <1>1
  <2> QED
    BY <2>1, <2>2
<1> QED
  BY <1>1, <1>2

\* The sum of a sequence that is longer by one.
LEMMA SumAppend ==
    ASSUME NEW f, NEW h, NEW n \in Nat, DOMAIN f = 1 .. n, DOMAIN h = 1 .. n + 1,
           \A i \in 1 .. n : f[i] \in Int /\ h[i] = f[i], h[n + 1] \in Int
    PROVE  SumFunction(h) = SumFunction(f) + h[n + 1]
<1>1. IsFiniteSet(1 .. n) /\ 1 .. n + 1 = (1 .. n) \cup {n + 1} /\ n + 1 \notin 1 .. n
  <2>1. IsFiniteSet(1 .. n)
    BY FS_Interval
  <2>2. 1 .. n + 1 = (1 .. n) \cup {n + 1} /\ n + 1 \notin 1 .. n
    OBVIOUS
  <2> QED
    BY <2>1, <2>2
<1>2. \A i \in 1 .. n : h[i] \in Int
  OBVIOUS
<1>3. SumFunctionOnSet(h, (1 .. n) \cup {n + 1}) = h[n + 1] + SumFunctionOnSet(h, 1 .. n)
  BY <1>1, <1>2, SumInsert
<1>4. SumFunctionOnSet(h, 1 .. n) = SumFunctionOnSet(f, 1 .. n) /\ SumFunctionOnSet(f, 1 .. n) \in Int
  BY <1>1, SumEqual, SumInt
<1>5. SumFunction(h) = SumFunctionOnSet(h, 1 .. n + 1) /\ SumFunction(f) = SumFunctionOnSet(f, 1 .. n)
  BY DEF SumFunction
<1>6. SumFunction(h) = SumFunctionOnSet(h, (1 .. n) \cup {n + 1})
  BY <1>1, <1>5
<1> QED
  BY <1>3, <1>4, <1>5, <1>6

\* A sum over a part of a set.
LEMMA SumPart ==
    ASSUME NEW f, NEW h, NEW S, IsFiniteSet(S), NEW T \in SUBSET S,
           \A x \in T : f[x] \in Int /\ h[x] = f[x], \A x \in S \ T : h[x] = 0
    PROVE  SumFunctionOnSet(h, S) = SumFunctionOnSet(f, T)
<1> DEFINE P == {U \in SUBSET S : SumFunctionOnSet(h, U) = SumFunctionOnSet(f, U \cap T)}
<1>1. {} \in P
  BY SumEmpty
<1>2. ASSUME NEW U \in SUBSET S, NEW x \in S, U \in P, x \notin U PROVE U \cup {x} \in P
  <2>1. IsFiniteSet(U) /\ IsFiniteSet(U \cap T) /\ \A y \in S : h[y] \in Int
    BY FS_Subset
  <2>2. SumFunctionOnSet(h, U \cup {x}) = h[x] + SumFunctionOnSet(h, U) /\ SumFunctionOnSet(h, U) \in Int
    BY <1>2, <2>1, SumInsert, SumInt
  <2>3. CASE x \in T
    <3>1. (U \cup {x}) \cap T = (U \cap T) \cup {x}
      BY <2>3
    <3>2. SumFunctionOnSet(f, (U \cap T) \cup {x}) = f[x] + SumFunctionOnSet(f, U \cap T)
      BY <1>2, <2>1, <2>3, SumInsert
    <3> QED
      BY <1>2, <2>2, <2>3, <3>1, <3>2
  <2>4. CASE x \notin T
    <3>1. (U \cup {x}) \cap T = U \cap T
      BY <2>4
    <3>2. SumFunctionOnSet(h, U \cup {x}) = SumFunctionOnSet(h, U)
      BY <2>2, <2>4
    <3> QED
      BY <1>2, <3>1, <3>2
  <2> QED
    BY <2>3, <2>4
<1>3. S \in P
  <2> HIDE DEF P
  <2> QED
    BY <1>1, <1>2, FiniteInduction
<1>4. S \cap T = T
  OBVIOUS
<1> QED
  BY <1>3, <1>4

\* Shares of an amount, each rounded down, come to no more than the amount.
LEMMA SharesSum ==
    ASSUME NEW f, NEW h, NEW a \in Nat, NEW S, IsFiniteSet(S),
           \A x \in S : f[x] \in Nat, SumFunctionOnSet(f, S) > 0,
           \A x \in S : h[x] = (a * f[x]) \div SumFunctionOnSet(f, S)
    PROVE  SumFunctionOnSet(h, S) \in Nat /\ SumFunctionOnSet(h, S) <= a
<1> DEFINE t == SumFunctionOnSet(f, S)
           p == [x \in S |-> a * f[x]]
           q == [x \in S |-> t * h[x]]
<1>1. t \in Nat /\ t > 0
  BY SumNat
<1> HIDE DEF t
<1>2. ASSUME NEW x \in S PROVE a * f[x] \in Nat /\ h[x] \in Nat /\ t * h[x] <= a * f[x] /\ t * h[x] \in Nat
  <2>1. a * f[x] \in Nat
    OBVIOUS
  <2>2. h[x] = (a * f[x]) \div t
    BY DEF t
  <2>3. \A m \in Nat : m \div t \in Nat /\ t * (m \div t) <= m /\ t * (m \div t) \in Nat
    BY <1>1
  <2> QED
    BY <2>1, <2>2, <2>3
<1>3. SumFunctionOnSet(h, S) \in Nat
  BY <1>2, SumNat
<1>4. SumFunctionOnSet(p, S) = a * t
  BY SumTimes DEF t
<1>5. SumFunctionOnSet(q, S) = t * SumFunctionOnSet(h, S)
  BY <1>1, <1>2, SumTimes
<1>6. SumFunctionOnSet(q, S) <= SumFunctionOnSet(p, S)
  BY <1>2, SumLeq
<1>7. \A m \in Nat : t * m <= a * t => m <= a
  BY <1>1
<1> QED
  BY <1>3, <1>4, <1>5, <1>6, <1>7

-----------------------------------------------------------------------------
(* The elements of a finite set in order. *)

\* A strict order of all the elements of F, as a set of pairs.
IsOrder(R, F) ==
    /\ \A f \in F : <<f, f>> \notin R
    /\ \A f, g, h \in F : <<f, g>> \in R /\ <<g, h>> \in R => <<f, h>> \in R
    /\ \A f, g \in F : f = g \/ <<f, g>> \in R \/ <<g, f>> \in R
Below(R, F, f) == {g \in F : <<g, f>> \in R}

\* The places of the elements of a finite set are 0, 1, ...
LEMMA PlacesInOrder ==
    ASSUME NEW F, IsFiniteSet(F), NEW R, IsOrder(R, F)
    PROVE  /\ \A f, g \in F : Cardinality(Below(R, F, f)) = Cardinality(Below(R, F, g)) => f = g
           /\ \A n \in 1 .. Cardinality(F) : \E f \in F : Cardinality(Below(R, F, f)) = n - 1
           /\ \A f \in F : Cardinality(Below(R, F, f)) + 1 \in 1 .. Cardinality(F)
<1> DEFINE rank == [f \in F |-> Cardinality(Below(R, F, f))]
           N == Cardinality(F)
<1>1. N \in Nat
  BY FS_CardinalityType
<1>2. ASSUME NEW f \in F PROVE rank[f] \in 0 .. N - 1
  <2>1. Below(R, F, f) \subseteq F /\ f \notin Below(R, F, f)
    BY DEF Below, IsOrder
  <2>2. Cardinality(Below(R, F, f)) < N /\ Cardinality(Below(R, F, f)) \in Nat
    BY <2>1, FS_Subset, FS_CardinalityType
  <2> QED
    BY <1>1, <2>2
<1>3. ASSUME NEW f \in F, NEW g \in F, <<f, g>> \in R PROVE rank[f] < rank[g]
  <2>1. /\ Below(R, F, f) \subseteq Below(R, F, g)
        /\ f \in Below(R, F, g) /\ f \notin Below(R, F, f)
    BY <1>3 DEF Below, IsOrder
  <2>2. IsFiniteSet(Below(R, F, g))
    BY FS_Subset DEF Below
  <2>3. Cardinality(Below(R, F, f)) < Cardinality(Below(R, F, g))
    BY <2>1, <2>2, FS_Subset, FS_CardinalityType
  <2> QED
    BY <2>3
<1>4. ASSUME NEW f \in F, NEW g \in F, rank[f] = rank[g] PROVE f = g
  <2>1. rank[f] \in Int /\ rank[g] \in Int
    BY <1>2
  <2>2. ~(rank[f] < rank[g]) /\ ~(rank[g] < rank[f])
    BY <1>4, <2>1
  <2> QED
    BY <1>3, <2>2 DEF IsOrder
<1>5. rank \in Injection(F, 0 .. N - 1)
  BY <1>2, <1>4 DEF Injection, IsInjective
<1>6. IsFiniteSet(0 .. N - 1) /\ Cardinality(0 .. N - 1) = N
  BY <1>1, FS_Interval
<1>7. rank \in Surjection(F, 0 .. N - 1)
  BY <1>5, <1>6, FS_Injection
<1>8. ASSUME NEW n \in 1 .. N PROVE \E f \in F : rank[f] = n - 1
  <2>1. n - 1 \in 0 .. N - 1
    BY <1>1
  <2> QED
    BY <1>7, <2>1 DEF Surjection
<1> QED
  BY <1>1, <1>2, <1>4, <1>8

\* The n-th of a finite set of numbers is one of them.
LEMMA NthOfSet ==
    ASSUME NEW S \in SUBSET Nat, IsFiniteSet(S), NEW n \in 1 .. Cardinality(S)
    PROVE  (CHOOSE k \in S : Cardinality({l \in S : l < k}) = n - 1) \in S
<1> DEFINE less == {p \in S \X S : p[1] < p[2]}
<1>1. \A k \in S : {l \in S : l < k} = Below(less, S, k)
  BY DEF Below
<1>2. IsOrder(less, S)
  <2>1. \A k, l \in S : <<k, l>> \in less <=> k < l
    OBVIOUS
  <2> HIDE DEF less
  <2> QED
    BY <2>1 DEF IsOrder
<1> HIDE DEF less
<1>3. /\ \A k, l \in S : Cardinality(Below(less, S, k)) = Cardinality(Below(less, S, l)) => k = l
      /\ \A m \in 1 .. Cardinality(S) : \E k \in S : Cardinality(Below(less, S, k)) = m - 1
      /\ \A k \in S : Cardinality(Below(less, S, k)) + 1 \in 1 .. Cardinality(S)
  BY <1>2, PlacesInOrder
<1>4. \E k \in S : Cardinality({l \in S : l < k}) = n - 1
  BY <1>1, <1>3
<1> QED
  BY <1>4

===============================================================================
