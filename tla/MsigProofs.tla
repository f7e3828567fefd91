------------------------------ MODULE MsigProofs ------------------------------
(***************************************************************************)
(* The authority checker decides who can act, and what the multisignature  *)
(* contract sends has the consent of those who can.                        *)
(*                                                                         *)
(* The checker is a recursion over accounts whose depth is limited, with a *)
(* loop over the factors inside and a cache that all branches share.  That *)
(* the recursion and the loops are defined, and keep their types, is shown *)
(* first.  Soundness is the claim that a cache which calls satisfied only  *)
(* accounts that can act stays so; completeness, that where the references *)
(* fall in height the recursion meets no account it is at, and runs out of *)
(* neither levels nor factors.                                             *)
(***************************************************************************)
EXTENDS Msig, Induction, TLAPS

-----------------------------------------------------------------------------
(* Weights. *)

IsFactors(F) == F \subseteq Factor /\ IsFiniteSet(F)

LEMMA WeightsType ==
    ASSUME NEW F, IsFactors(F)
    PROVE  Weights(F) \in Nat
<1>1. \A f \in F : [g \in F |-> g.weight][f] \in Nat
  BY DEF IsFactors, Factor
<1> QED
  BY <1>1, SumNat DEF IsFactors, Weights

LEMMA WeightsInsert ==
    ASSUME NEW F, IsFactors(F), NEW f \in Factor, f \notin F
    PROVE  IsFactors(F \cup {f}) /\ Weights(F \cup {f}) = f.weight + Weights(F)
<1> DEFINE w == [g \in F \cup {f} |-> g.weight]
           u == [g \in F |-> g.weight]
<1>1. IsFactors(F \cup {f}) /\ IsFiniteSet(F)
  BY FS_AddElement DEF IsFactors
<1>2. w[f] \in Int /\ \A g \in F : w[g] \in Int
  BY DEF IsFactors, Factor
<1>3. SumFunctionOnSet(w, F \cup {f}) = w[f] + SumFunctionOnSet(w, F)
  BY <1>1, <1>2, SumInsert
<1>4. \A g \in F : w[g] = u[g]
  OBVIOUS
<1>5. SumFunctionOnSet(w, F) = SumFunctionOnSet(u, F)
  BY <1>1, <1>4, SumEqual
<1> QED
  BY <1>1, <1>3, <1>5 DEF Weights

LEMMA WeightsEmpty == IsFactors({}) /\ Weights({}) = 0
BY FS_EmptySet, SumEmpty DEF Weights, IsFactors

\* More factors weigh more.
LEMMA WeightsGrow ==
    ASSUME NEW F, IsFactors(F), NEW H \in SUBSET F
    PROVE  IsFactors(H) /\ Weights(H) <= Weights(F)
<1> DEFINE P == {D \in SUBSET (F \ H) : IsFactors(H \cup D) /\ Weights(H) <= Weights(H \cup D)}
<1>1. IsFactors(H) /\ IsFiniteSet(F \ H)
  BY FS_Subset DEF IsFactors
<1>2. {} \in P
  BY <1>1, WeightsType
<1>3. ASSUME NEW D \in SUBSET (F \ H), NEW f \in F \ H, D \in P, f \notin D PROVE D \cup {f} \in P
  <2>1. H \cup (D \cup {f}) = (H \cup D) \cup {f} /\ f \notin H \cup D /\ f \in Factor
    BY <1>3 DEF IsFactors
  <2>2. IsFactors((H \cup D) \cup {f}) /\ Weights((H \cup D) \cup {f}) = f.weight + Weights(H \cup D)
    BY <1>3, <2>1, WeightsInsert
  <2>3. f.weight \in Nat /\ Weights(H \cup D) \in Nat /\ Weights(H) \in Nat
    BY <1>1, <1>3, <2>1, WeightsType DEF Factor
  <2>4. Weights(H) <= Weights((H \cup D) \cup {f})
    BY <1>3, <2>2, <2>3
  <2> QED
    BY <2>1, <2>2, <2>4
<1>4. F \ H \in P
  <2> HIDE DEF P
  <2> QED
    BY <1>1, <1>2, <1>3, FiniteInduction
<1>5. H \cup (F \ H) = F
  OBVIOUS
<1> QED
  BY <1>1, <1>4, <1>5

-----------------------------------------------------------------------------
(* The order of the factors. *)

\* Factors of which no two are the same key, account or wait.
Distinct(F) == \A f, g \in F : f.kind = g.kind /\ f.what = g.what => f = g

\* The comparison orders such factors.
LEMMA PrecedesOrders ==
    ASSUME NEW F, IsFactors(F), Distinct(F)
    PROVE  IsOrder({p \in F \X F : Precedes(p[1], p[2])}, F)
<1> DEFINE R == {p \in F \X F : Precedes(p[1], p[2])}
<1>1. \A f, g \in F : <<f, g>> \in R <=> Precedes(f, g)
  OBVIOUS
<1>2. /\ Rank["wait"] = 1 /\ Rank["key"] = 2 /\ Rank["account"] = 3
  BY DEF Rank
<1>3. \A f \in F : /\ f.weight \in Nat /\ f.what \in Nat /\ f.kind \in {"wait", "key", "account"}
                   /\ Rank[f.kind] \in 1 .. 3
  BY <1>2 DEF IsFactors, Factor, Kind
<1>4. \A f, g \in F : Rank[f.kind] = Rank[g.kind] => f.kind = g.kind
  BY <1>2, <1>3
<1>5. \A f \in F : ~Precedes(f, f)
  BY <1>3 DEF Precedes
<1>6. \A f, g, h \in F : Precedes(f, g) /\ Precedes(g, h) => Precedes(f, h)
  BY <1>3, <1>4 DEF Precedes
<1>7. \A f, g \in F : f = g \/ Precedes(f, g) \/ Precedes(g, f)
  BY <1>3, <1>4 DEF Precedes, Distinct
<1> HIDE DEF R
<1>8. IsOrder(R, F)
  BY <1>1, <1>5, <1>6, <1>7 DEF IsOrder
<1> QED
  BY <1>8 DEF R

\* Sorted lists every factor once.
LEMMA SortedLists ==
    ASSUME NEW F, IsFactors(F), Distinct(F)
    PROVE  /\ Cardinality(F) \in Nat
           /\ \A n \in 1 .. Cardinality(F) : Sorted(F)[n] \in F
           /\ \A m, n \in 1 .. Cardinality(F) : Sorted(F)[m] = Sorted(F)[n] => m = n
           /\ \A f \in F : \E n \in 1 .. Cardinality(F) : f = Sorted(F)[n]
<1> DEFINE R == {p \in F \X F : Precedes(p[1], p[2])}
           rank(f) == Cardinality(Below(R, F, f))
           N == Cardinality(F)
<1>1. \A f \in F : {g \in F : Precedes(g, f)} = Below(R, F, f)
  BY DEF Below
<1>2. IsOrder(R, F)
  BY PrecedesOrders
<1> HIDE DEF R
<1>3. /\ \A f, g \in F : rank(f) = rank(g) => f = g
      /\ \A n \in 1 .. N : \E f \in F : rank(f) = n - 1
      /\ \A f \in F : rank(f) + 1 \in 1 .. N
  BY <1>2, PlacesInOrder DEF IsFactors
<1>4. N \in Nat /\ \A f \in F : rank(f) \in Nat
  <2>1. \A f \in F : Below(R, F, f) \in SUBSET F
    BY DEF Below
  <2> QED
    BY <2>1, FS_CardinalityType, FS_Subset DEF IsFactors
<1> HIDE DEF rank, N
<1>5. ASSUME NEW n \in 1 .. N PROVE Sorted(F)[n] \in F /\ rank(Sorted(F)[n]) = n - 1
  <2>1. Sorted(F)[n] = CHOOSE f \in F : Cardinality({g \in F : Precedes(g, f)}) = n - 1
    BY DEF Sorted, N
  <2>2. \A f \in F : Cardinality({g \in F : Precedes(g, f)}) = rank(f)
    BY <1>1 DEF rank
  <2>3. \E f \in F : Cardinality({g \in F : Precedes(g, f)}) = n - 1
    BY <1>3, <2>2
  <2>4. Sorted(F)[n] \in F /\ Cardinality({g \in F : Precedes(g, Sorted(F)[n])}) = n - 1
    BY <2>1, <2>3
  <2> QED
    BY <2>2, <2>4
<1>6. ASSUME NEW f \in F PROVE \E n \in 1 .. N : f = Sorted(F)[n]
  <2>1. rank(f) + 1 \in 1 .. N
    BY <1>3
  <2>2. rank(Sorted(F)[rank(f) + 1]) = (rank(f) + 1) - 1 /\ Sorted(F)[rank(f) + 1] \in F
    BY <1>5, <2>1
  <2>3. rank(Sorted(F)[rank(f) + 1]) = rank(f)
    BY <1>4, <2>2
  <2> QED
    BY <1>3, <2>1, <2>2, <2>3
<1>7. ASSUME NEW m \in 1 .. N, NEW n \in 1 .. N, Sorted(F)[m] = Sorted(F)[n] PROVE m = n
  <2>1. m - 1 = n - 1
    BY <1>5, <1>7
  <2> QED
    BY <1>4, <2>1
<1> QED
  BY <1>4, <1>5, <1>6, <1>7 DEF N

-----------------------------------------------------------------------------
(* The loop over the factors. *)

\* One round of the loop, and all its rounds.
LoopStep(visit, auth, keys, delay, x, run, n) ==
    IF n = 0
    THEN [weight |-> 0, cache |-> Put(x.cache, x.of, "being_evaluated"), used |-> x.used]
    ELSE LET s == run[n - 1]
         IN  IF s.weight >= auth.threshold THEN s
             ELSE tally(visit, keys, delay, x.depth, s, Sorted(auth.factors)[n])
IsLoop(run, visit, auth, keys, delay, x) ==
    \A n \in 0 .. Cardinality(auth.factors) : run[n] = LoopStep(visit, auth, keys, delay, x, run, n)

\* The recursive function of the loop is defined.
LEMMA LoopRuns ==
    ASSUME NEW visit, NEW auth, NEW keys, NEW delay, NEW x, Cardinality(auth.factors) \in Nat
    PROVE  \E run : /\ IsLoop(run, visit, auth, keys, delay, x)
                    /\ loop(visit, auth, keys, delay, x) = run[Cardinality(auth.factors)]
<1> DEFINE N == Cardinality(auth.factors)
           Step(run, n) == LoopStep(visit, auth, keys, delay, x, run, n)
           Fine(run) == run = [n \in 0 .. N |-> Step(run, n)]
           D == {k \in Nat : \E run : \A n \in 0 .. k : run[n] = Step(run, n)}
<1>0. ASSUME NEW g, NEW h, NEW n \in Nat, n # 0 => g[n - 1] = h[n - 1] PROVE Step(g, n) = Step(h, n)
  BY <1>0 DEF LoopStep
<1>1. 0 \in D
  <2> DEFINE run == [n \in {0} |-> Step(<<>>, n)]
  <2>1. Step(run, 0) = Step(<<>>, 0)
    BY <1>0
  <2>2. \A n \in 0 .. 0 : run[n] = Step(run, n)
    BY <2>1
  <2> HIDE DEF run, Step
  <2> QED
    BY <2>2
<1>2. ASSUME NEW k \in Nat, k \in D PROVE k + 1 \in D
  <2>1. PICK g : \A n \in 0 .. k : g[n] = Step(g, n)
    BY <1>2
  <2> DEFINE h == [n \in 0 .. k + 1 |-> IF n <= k THEN g[n] ELSE Step(g, n)]
  <2> HIDE DEF Step
  <2>2. ASSUME NEW n \in 0 .. k + 1 PROVE h[n] = Step(h, n)
    <3>1. n # 0 => h[n - 1] = g[n - 1]
      OBVIOUS
    <3>2. Step(h, n) = Step(g, n)
      BY <1>0, <3>1
    <3> QED
      BY <2>1, <3>2
  <2> HIDE DEF h
  <2> QED
    BY <2>2
<1> HIDE DEF Step
<1>3. Nat \subseteq D
  <2> HIDE DEF D
  <2> QED
    BY <1>1, <1>2, SetInduction
<1>4. PICK g : \A n \in 0 .. N : g[n] = Step(g, n)
  BY <1>3
<1> DEFINE h == [n \in 0 .. N |-> g[n]]
<1>5. ASSUME NEW n \in 0 .. N PROVE h[n] = Step(h, n)
  <2>1. n # 0 => h[n - 1] = g[n - 1]
    OBVIOUS
  <2>2. Step(h, n) = Step(g, n)
    BY <1>0, <2>1
  <2> QED
    BY <1>4, <2>2
<1>6. Fine(h)
  BY <1>5
<1> HIDE DEF h
<1>7. Fine(CHOOSE run : Fine(run))
  BY <1>6, Zenon
<1>8. loop(visit, auth, keys, delay, x) = (CHOOSE run : Fine(run))[N]
  BY DEF loop, Step, LoopStep
<1>9. PICK run : run = CHOOSE f : Fine(f)
  OBVIOUS
<1>10. IsLoop(run, visit, auth, keys, delay, x)
  BY <1>7, <1>9 DEF IsLoop, Step
<1> QED
  BY <1>8, <1>9, <1>10

-----------------------------------------------------------------------------
(* The recursion over the accounts. *)

GoodTable(t) == IsTable(t) /\ \A a \in Account : Valid(t[a])

Answers == [ok : BOOLEAN, cache : Cache, used : SUBSET Key]
Tallies == [weight : Nat, cache : Cache, used : SUBSET Key]
Ask(a, n, s) == [of |-> a, depth |-> n, cache |-> s.cache, used |-> s.used]

\* The answers below a depth are answers, and those of two checkers the same.
TypedBelow(v, n) == \A y \in Question : y.depth = n + 1 => v[y] \in Answers
SameBelow(v, w, n) == \A y \in Question : y.depth = n + 1 => v[y] = w[y]

LEMMA GoodFactors ==
    ASSUME NEW t, GoodTable(t), NEW a \in Account
    PROVE  /\ IsFactors(t[a].factors) /\ Distinct(t[a].factors) /\ t[a].threshold \in Nat
           /\ \A f \in t[a].factors : f.kind = "account" => f.what \in Account
BY DEF GoodTable, IsTable, IsAuthority, Valid, validate, validate_authority_precondition,
       IsFactors, Distinct

LEMMA CachePut ==
    ASSUME NEW c \in Cache, NEW a \in Account, NEW st \in Status
    PROVE  Put(c, a, st) \in Cache
<1>1. PICK known \in SUBSET Account : c \in [known -> Status]
  BY DEF Cache
<1>2. Put(c, a, st) \in [known \cup {a} -> Status]
  BY <1>1 DEF Put
<1>3. known \cup {a} \in SUBSET Account
  BY <1>1
<1> QED
  BY <1>2, <1>3, Zenon DEF Cache

LEMMA CacheFacts ==
    ASSUME NEW c \in Cache
    PROVE  DOMAIN c \subseteq Account /\ \A a \in DOMAIN c : c[a] \in Status
BY DEF Cache

\* One factor.
LEMMA TallyType ==
    ASSUME NEW v, NEW n \in 0 .. MaxDepth - 1, TypedBelow(v, n), NEW keys \in SUBSET Key, NEW delay \in Nat,
           NEW s \in Tallies, NEW f \in Factor, f.kind = "account" => f.what \in Account
    PROVE  tally(v, keys, delay, n, s, f) \in Tallies
<1>0. /\ f.kind \in {"wait", "key", "account"} /\ f.weight \in Nat /\ f.what \in Nat
      /\ s.weight \in Nat /\ s.cache \in Cache /\ s.used \in SUBSET Key
  BY DEF Factor, Kind, Tallies
<1>1. CASE f.kind = "account"
  <2>1. Ask(f.what, n + 1, s) \in Question /\ Ask(f.what, n + 1, s).depth = n + 1
    BY <1>0, <1>1, AuthorityAssumption DEF Ask, Question
  <2>2. PICK r \in Answers : r = v[Ask(f.what, n + 1, s)]
    BY <2>1 DEF TypedBelow
  <2>3. tally(v, keys, delay, n, s, f) =
          [weight |-> s.weight + (IF r.ok THEN f.weight ELSE 0), cache |-> r.cache, used |-> r.used]
    BY <1>1, <2>2 DEF tally, Ask
  <2>4. r.cache \in Cache /\ r.used \in SUBSET Key
    BY DEF Answers
  <2> QED
    BY <1>0, <2>3, <2>4 DEF Tallies
<1>2. CASE f.kind = "key"
  <2>1. CASE f.what \in keys
    <3>1. tally(v, keys, delay, n, s, f) = [s EXCEPT !.weight = s.weight + f.weight, !.used = s.used \cup {f.what}]
      BY <1>2, <2>1 DEF tally
    <3>2. s.weight + f.weight \in Nat /\ s.used \cup {f.what} \in SUBSET Key
      BY <1>0, <2>1
    <3> QED
      BY <3>1, <3>2 DEF Tallies
  <2>2. CASE f.what \notin keys
    BY <1>2, <2>2 DEF tally
  <2> QED
    BY <2>1, <2>2
<1>3. CASE f.kind = "wait"
  BY <1>0, <1>3 DEF tally, Tallies
<1> QED
  BY <1>0, <1>1, <1>2, <1>3

LEMMA TallySame ==
    ASSUME NEW v, NEW w, NEW n \in 0 .. MaxDepth - 1, SameBelow(v, w, n), NEW keys \in SUBSET Key, NEW delay \in Nat,
           NEW s \in Tallies, NEW f \in Factor, f.kind = "account" => f.what \in Account
    PROVE  tally(v, keys, delay, n, s, f) = tally(w, keys, delay, n, s, f)
<1>1. CASE f.kind = "account"
  <2>1. Ask(f.what, n + 1, s) \in Question /\ Ask(f.what, n + 1, s).depth = n + 1
    BY <1>1, AuthorityAssumption DEF Ask, Question, Factor, Tallies
  <2>2. v[Ask(f.what, n + 1, s)] = w[Ask(f.what, n + 1, s)]
    BY <2>1 DEF SameBelow
  <2> QED
    BY <1>1, <2>2 DEF tally, Ask
<1>2. CASE f.kind # "account"
  BY <1>2 DEF tally
<1> QED
  BY <1>1, <1>2

\* The state of the loop keeps its type.
LEMMA LoopType ==
    ASSUME NEW t, GoodTable(t), NEW keys \in SUBSET Key, NEW delay \in Nat, NEW v,
           NEW x \in Question, x.depth < MaxDepth, TypedBelow(v, x.depth),
           NEW run, IsLoop(run, v, t[x.of], keys, delay, x)
    PROVE  \A n \in 0 .. Cardinality(t[x.of].factors) : run[n] \in Tallies
<1> DEFINE F == t[x.of].factors
           N == Cardinality(F)
           D == {n \in Nat : n <= N => run[n] \in Tallies}
<1>0. /\ x.of \in Account /\ x.cache \in Cache /\ x.used \in SUBSET Key /\ x.depth \in 0 .. MaxDepth - 1
      /\ N \in Nat
  <2>1. /\ x.of \in Account /\ x.cache \in Cache /\ x.used \in SUBSET Key /\ x.depth \in 0 .. MaxDepth - 1
    BY AuthorityAssumption DEF Question
  <2> QED
    BY <2>1, GoodFactors, FS_CardinalityType DEF IsFactors
<1>1. 0 \in D
  <2>1. run[0] = [weight |-> 0, cache |-> Put(x.cache, x.of, "being_evaluated"), used |-> x.used]
    BY <1>0 DEF IsLoop, LoopStep
  <2>2. Put(x.cache, x.of, "being_evaluated") \in Cache
    BY <1>0, CachePut DEF Status
  <2> QED
    BY <1>0, <2>1, <2>2 DEF Tallies
<1>2. ASSUME NEW n \in Nat, n \in D PROVE n + 1 \in D
  <2> SUFFICES ASSUME n + 1 <= N PROVE run[n + 1] \in Tallies
    OBVIOUS
  <2>1. run[n] \in Tallies /\ n + 1 \in 1 .. N
    BY <1>0, <1>2
  <2>2. Sorted(F)[n + 1] \in Factor /\ (Sorted(F)[n + 1].kind = "account" => Sorted(F)[n + 1].what \in Account)
    BY <1>0, <2>1, GoodFactors, SortedLists DEF IsFactors
  <2>3. tally(v, keys, delay, x.depth, run[n], Sorted(F)[n + 1]) \in Tallies
    BY <1>0, <2>1, <2>2, TallyType
  <2>4. run[n + 1] = LoopStep(v, t[x.of], keys, delay, x, run, n + 1)
    BY <1>0, <2>1 DEF IsLoop
  <2>5. (n + 1) - 1 = n /\ n + 1 # 0
    OBVIOUS
  <2> QED
    BY <2>1, <2>3, <2>4, <2>5 DEF LoopStep
<1> HIDE DEF D
<1>3. Nat \subseteq D
  BY <1>1, <1>2, SetInduction
<1> QED
  BY <1>0, <1>3 DEF D

\* Two loops with the same answers below run alike.
LEMMA LoopSame ==
    ASSUME NEW t, GoodTable(t), NEW keys \in SUBSET Key, NEW delay \in Nat, NEW v, NEW w,
           NEW x \in Question, x.depth < MaxDepth, TypedBelow(v, x.depth), SameBelow(v, w, x.depth)
    PROVE  loop(v, t[x.of], keys, delay, x) = loop(w, t[x.of], keys, delay, x)
<1> DEFINE F == t[x.of].factors
           N == Cardinality(F)
<1>0. x.of \in Account /\ x.depth \in 0 .. MaxDepth - 1 /\ N \in Nat
  <2>1. x.of \in Account /\ x.depth \in 0 .. MaxDepth - 1
    BY AuthorityAssumption DEF Question
  <2> QED
    BY <2>1, GoodFactors, FS_CardinalityType DEF IsFactors
<1>1. PICK g : IsLoop(g, v, t[x.of], keys, delay, x) /\ loop(v, t[x.of], keys, delay, x) = g[N]
  BY <1>0, LoopRuns
<1>2. PICK h : IsLoop(h, w, t[x.of], keys, delay, x) /\ loop(w, t[x.of], keys, delay, x) = h[N]
  BY <1>0, LoopRuns
<1>3. \A n \in 0 .. N : g[n] \in Tallies
  BY <1>1, LoopType
<1> DEFINE D == {n \in Nat : n <= N => g[n] = h[n]}
<1>4. 0 \in D
  BY <1>0, <1>1, <1>2 DEF IsLoop, LoopStep
<1>5. ASSUME NEW n \in Nat, n \in D PROVE n + 1 \in D
  <2> SUFFICES ASSUME n + 1 <= N PROVE g[n + 1] = h[n + 1]
    OBVIOUS
  <2>1. g[n] = h[n] /\ n + 1 \in 1 .. N /\ g[n] \in Tallies
    BY <1>0, <1>3, <1>5
  <2>2. Sorted(F)[n + 1] \in Factor /\ (Sorted(F)[n + 1].kind = "account" => Sorted(F)[n + 1].what \in Account)
    BY <1>0, <2>1, GoodFactors, SortedLists DEF IsFactors
  <2>3. tally(v, keys, delay, x.depth, g[n], Sorted(F)[n + 1]) = tally(w, keys, delay, x.depth, g[n], Sorted(F)[n + 1])
    BY <1>0, <2>1, <2>2, TallySame
  <2>4. /\ g[n + 1] = LoopStep(v, t[x.of], keys, delay, x, g, n + 1)
        /\ h[n + 1] = LoopStep(w, t[x.of], keys, delay, x, h, n + 1)
    BY <1>0, <1>1, <1>2, <2>1 DEF IsLoop
  <2>5. (n + 1) - 1 = n /\ n + 1 # 0
    OBVIOUS
  <2> QED
    BY <2>1, <2>3, <2>4, <2>5 DEF LoopStep
<1> HIDE DEF D
<1>6. Nat \subseteq D
  BY <1>4, <1>5, SetInduction
<1>7. g[N] = h[N]
  BY <1>0, <1>6 DEF D
<1> QED
  BY <1>1, <1>2, <1>7

\* The end of the loop has its type.
LEMMA LoopEnd ==
    ASSUME NEW t, GoodTable(t), NEW keys \in SUBSET Key, NEW delay \in Nat, NEW v,
           NEW x \in Question, x.depth < MaxDepth, TypedBelow(v, x.depth)
    PROVE  loop(v, t[x.of], keys, delay, x) \in Tallies
<1>1. x.of \in Account
  BY DEF Question
<1>2. Cardinality(t[x.of].factors) \in Nat
  BY <1>1, GoodFactors, FS_CardinalityType DEF IsFactors
<1>3. PICK run : /\ IsLoop(run, v, t[x.of], keys, delay, x)
                 /\ loop(v, t[x.of], keys, delay, x) = run[Cardinality(t[x.of].factors)]
  BY <1>2, LoopRuns
<1>4. \A n \in 0 .. Cardinality(t[x.of].factors) : run[n] \in Tallies
  BY <1>3, LoopType
<1> QED
  BY <1>2, <1>3, <1>4

LEMMA AnswerType ==
    ASSUME NEW t, GoodTable(t), NEW keys \in SUBSET Key, NEW delay \in Nat, NEW v,
           NEW x \in Question, TypedBelow(v, x.depth)
    PROVE  answer(v, t, keys, delay, x) \in Answers
<1>0. /\ x.of \in Account /\ x.cache \in Cache /\ x.used \in SUBSET Key
      /\ t[x.of].threshold \in Nat
  <2>1. /\ x.of \in Account /\ x.cache \in Cache /\ x.used \in SUBSET Key
    BY DEF Question
  <2> QED
    BY <2>1, GoodFactors
<1>1. CASE x.of \in DOMAIN x.cache
  BY <1>0, <1>1 DEF answer, Answers, Counts
<1>2. CASE x.of \notin DOMAIN x.cache /\ ~WithinLimit(x.depth)
  BY <1>0, <1>2 DEF answer, Answers
<1>3. CASE x.of \notin DOMAIN x.cache /\ WithinLimit(x.depth)
  <2>1. PICK end \in Tallies : end = loop(v, t[x.of], keys, delay, x)
    BY <1>3, LoopEnd DEF WithinLimit
  <2>2. PICK ok : ok = (end.weight >= t[x.of].threshold)
    OBVIOUS
  <2>3. answer(v, t, keys, delay, x) =
          [ok |-> ok, cache |-> Put(end.cache, x.of, IF ok THEN "satisfied" ELSE "unsatisfied"),
           used |-> IF ok THEN end.used ELSE x.used]
    BY <1>3, <2>1, <2>2 DEF answer
  <2>4. ok \in BOOLEAN /\ end.cache \in Cache /\ end.used \in SUBSET Key
    BY <2>2 DEF Tallies
  <2>5. Put(end.cache, x.of, IF ok THEN "satisfied" ELSE "unsatisfied") \in Cache
    BY <1>0, <2>4, CachePut DEF Status
  <2> QED
    BY <1>0, <2>3, <2>4, <2>5 DEF Answers
<1> QED
  BY <1>1, <1>2, <1>3

LEMMA AnswerSame ==
    ASSUME NEW t, GoodTable(t), NEW keys \in SUBSET Key, NEW delay \in Nat, NEW v, NEW w,
           NEW x \in Question, TypedBelow(v, x.depth), SameBelow(v, w, x.depth)
    PROVE  answer(v, t, keys, delay, x) = answer(w, t, keys, delay, x)
<1>1. CASE x.of \in DOMAIN x.cache
  BY <1>1 DEF answer
<1>2. CASE x.of \notin DOMAIN x.cache /\ ~WithinLimit(x.depth)
  BY <1>2 DEF answer
<1>3. CASE x.of \notin DOMAIN x.cache /\ WithinLimit(x.depth)
  <2>1. loop(v, t[x.of], keys, delay, x) = loop(w, t[x.of], keys, delay, x)
    BY <1>3, LoopSame DEF WithinLimit
  <2> QED
    BY <1>3, <2>1 DEF answer
<1> QED
  BY <1>1, <1>2, <1>3

\* The checker as a function of the questions.
IsVisit(v, t, keys, delay) == v = [x \in Question |-> answer(v, t, keys, delay, x)]
Visit(t, keys, delay) == CHOOSE v : IsVisit(v, t, keys, delay)

LEMMA SatisfiedVisits ==
    ASSUME NEW t, NEW keys, NEW delay, NEW a, NEW cache, NEW used
    PROVE  satisfied(t, keys, delay, a, cache, used) =
             Visit(t, keys, delay)[[of |-> a, depth |-> 0, cache |-> cache, used |-> used]]
BY DEF satisfied, Visit, IsVisit

\* The recursion ends: the depth of the questions is limited.
LEMMA VisitExists ==
    ASSUME NEW t, GoodTable(t), NEW keys \in SUBSET Key, NEW delay \in Nat
    PROVE  IsVisit(Visit(t, keys, delay), t, keys, delay)
<1> DEFINE Right(v, n) == \A x \in Question : x.depth > MaxDepth - n => v[x] = answer(v, t, keys, delay, x)
           D == {n \in Nat : \E v \in [Question -> Answers] : Right(v, n)}
<1>0. MaxDepth \in Nat /\ \A x \in Question : x.depth \in 0 .. MaxDepth
  BY AuthorityAssumption DEF Question
<1>1. ASSUME NEW v \in [Question -> Answers], NEW n \in Nat PROVE TypedBelow(v, n)
  BY <1>1 DEF TypedBelow
<1>2. 0 \in D
  <2>1. PICK r : r = [ok |-> FALSE, cache |-> <<>>, used |-> {}]
    OBVIOUS
  <2>2. r \in Answers
    <3>1. <<>> \in [{} -> Status]
      OBVIOUS
    <3>2. <<>> \in Cache
      BY <3>1, Zenon DEF Cache
    <3> QED
      BY <2>1, <3>2 DEF Answers
  <2>3. [x \in Question |-> r] \in [Question -> Answers]
    BY <2>2
  <2>4. Right([x \in Question |-> r], 0)
    BY <1>0
  <2> QED
    BY <2>3, <2>4
<1>3. ASSUME NEW n \in Nat, n \in D PROVE n + 1 \in D
  <2>1. PICK v \in [Question -> Answers] : Right(v, n)
    BY <1>3
  <2> DEFINE w == [x \in Question |-> answer(v, t, keys, delay, x)]
  <2>2. \A x \in Question : answer(v, t, keys, delay, x) \in Answers
    BY <1>0, <1>1, AnswerType
  <2>3. w \in [Question -> Answers]
    BY <2>2
  <2>4. ASSUME NEW x \in Question, x.depth > MaxDepth - (n + 1) PROVE w[x] = answer(w, t, keys, delay, x)
    <3>1. SameBelow(v, w, x.depth)
      <4> SUFFICES ASSUME NEW y \in Question, y.depth = x.depth + 1 PROVE v[y] = w[y]
        BY DEF SameBelow
      <4>1. y.depth > MaxDepth - n
        BY <1>0, <2>4
      <4> QED
        BY <2>1, <4>1
    <3>2. TypedBelow(v, x.depth)
      BY <1>0, <1>1
    <3>3. answer(v, t, keys, delay, x) = answer(w, t, keys, delay, x)
      <4> HIDE DEF w
      <4> QED
        BY <3>1, <3>2, AnswerSame
    <3> QED
      BY <3>3
  <2> HIDE DEF w
  <2>5. Right(w, n + 1)
    BY <2>4
  <2> QED
    BY <2>3, <2>5
<1>4. Nat \subseteq D
  <2> HIDE DEF D
  <2> QED
    BY <1>2, <1>3, SetInduction
<1>5. PICK v \in [Question -> Answers] : Right(v, MaxDepth + 1)
  <2> HIDE DEF D, Right
  <2>1. MaxDepth + 1 \in D
    BY <1>0, <1>4
  <2> USE DEF D
  <2> QED
    BY <2>1
<1>6. \A x \in Question : v[x] = answer(v, t, keys, delay, x)
  BY <1>0, <1>5
<1>7. IsVisit(v, t, keys, delay)
  BY <1>6 DEF IsVisit
<1> QED
  BY <1>7, Zenon DEF Visit

\* Every answer of the checker is one.
LEMMA VisitType ==
    ASSUME NEW t, GoodTable(t), NEW keys \in SUBSET Key, NEW delay \in Nat
    PROVE  \A n \in Nat : TypedBelow(Visit(t, keys, delay), n)
<1> DEFINE v == Visit(t, keys, delay)
           D == {n \in Nat : \A x \in Question : x.depth > MaxDepth - n => v[x] \in Answers}
<1>0. MaxDepth \in Nat /\ \A x \in Question : x.depth \in 0 .. MaxDepth
  BY AuthorityAssumption DEF Question
<1>1. \A x \in Question : v[x] = answer(v, t, keys, delay, x)
  <2>1. IsVisit(v, t, keys, delay)
    BY VisitExists
  <2> HIDE DEF v
  <2> QED
    BY <2>1, Zenon DEF IsVisit
<1> HIDE DEF v
<1>2. 0 \in D
  BY <1>0
<1>3. ASSUME NEW n \in Nat, n \in D PROVE n + 1 \in D
  <2> SUFFICES ASSUME NEW x \in Question, x.depth > MaxDepth - (n + 1) PROVE v[x] \in Answers
    OBVIOUS
  <2>1. TypedBelow(v, x.depth)
    BY <1>0, <1>3 DEF TypedBelow
  <2>2. answer(v, t, keys, delay, x) \in Answers
    BY <2>1, AnswerType
  <2> QED
    BY <1>1, <2>2
<1>4. Nat \subseteq D
  <2> HIDE DEF D
  <2> QED
    BY <1>2, <1>3, SetInduction
<1>5. \A x \in Question : v[x] \in Answers
  BY <1>0, <1>4
<1> QED
  BY <1>5 DEF TypedBelow, v

-----------------------------------------------------------------------------
(* The accounts that can act. *)

\* The factors that count when the accounts of S act, and one round more.
HeldBy(F, keys, S, delay) == {f \in F : Held(f, keys, S, delay)}
Shows(t, a, keys, S, delay) == Weights(HeldBy(t[a].factors, keys, S, delay)) >= t[a].threshold
Round(t, keys, S, delay) == S \cup {a \in Account : Shows(t, a, keys, S, delay)}

LEMMA HeldGrows ==
    ASSUME NEW t, GoodTable(t), NEW keys, NEW delay, NEW S, NEW T, S \subseteq T, NEW a \in Account,
           Shows(t, a, keys, S, delay)
    PROVE  Shows(t, a, keys, T, delay)
<1> DEFINE F == t[a].factors
<1>1. IsFactors(F) /\ t[a].threshold \in Nat
  BY GoodFactors
<1>2. \A f \in F : Held(f, keys, S, delay) => Held(f, keys, T, delay)
  <2>1. \A f \in F : f.kind \in {"wait", "key", "account"}
    BY <1>1 DEF IsFactors, Factor, Kind
  <2> QED
    BY <2>1 DEF Held
<1>3. HeldBy(F, keys, S, delay) \subseteq HeldBy(F, keys, T, delay) /\ HeldBy(F, keys, T, delay) \subseteq F
  BY <1>2 DEF HeldBy
<1> HIDE DEF F
<1>4. IsFactors(HeldBy(F, keys, T, delay)) /\ IsFactors(HeldBy(F, keys, S, delay))
  BY <1>1, <1>3, WeightsGrow
<1>5. Weights(HeldBy(F, keys, S, delay)) <= Weights(HeldBy(F, keys, T, delay))
  BY <1>3, <1>4, WeightsGrow
<1>6. Weights(HeldBy(F, keys, S, delay)) \in Nat /\ Weights(HeldBy(F, keys, T, delay)) \in Nat
  BY <1>4, WeightsType
<1> QED
  BY <1>1, <1>5, <1>6 DEF Shows, F

\* The rounds, as the recursive function of Granted.
IsRounds(acts, t, keys, provided, delay) ==
    acts = [n \in 0 .. Cardinality(Account) |->
               IF n = 0 THEN provided ELSE Round(t, keys, acts[n - 1], delay)]

LEMMA RoundsExist ==
    ASSUME NEW t, NEW keys, NEW provided, NEW delay
    PROVE  \E acts : /\ IsRounds(acts, t, keys, provided, delay)
                     /\ Granted(t, keys, provided, delay) = acts[Cardinality(Account)]
<1> DEFINE N == Cardinality(Account)
           Step(g, n) == IF n = 0 THEN provided ELSE Round(t, keys, g[n - 1], delay)
           D == {k \in Nat : \E g : \A n \in 0 .. k : g[n] = Step(g, n)}
<1>n. N \in Nat
  BY AuthorityAssumption, FS_CardinalityType
<1>1. 0 \in D
  <2>1. \A n \in 0 .. 0 : [k \in {0} |-> provided][n] = Step([k \in {0} |-> provided], n)
    OBVIOUS
  <2> HIDE DEF Step
  <2> QED
    BY <2>1
<1>2. ASSUME NEW k \in Nat, k \in D PROVE k + 1 \in D
  <2>1. PICK g : \A n \in 0 .. k : g[n] = Step(g, n)
    BY <1>2
  <2> DEFINE h == [n \in 0 .. k + 1 |-> IF n <= k THEN g[n] ELSE Step(g, n)]
  <2>2. ASSUME NEW n \in 0 .. k + 1 PROVE h[n] = Step(h, n)
    <3>1. n # 0 => h[n - 1] = g[n - 1]
      OBVIOUS
    <3>2. Step(h, n) = Step(g, n)
      BY <3>1
    <3> HIDE DEF Step
    <3> QED
      BY <2>1, <3>2
  <2> HIDE DEF h, Step
  <2> QED
    BY <2>2
<1>3. Nat \subseteq D
  <2> HIDE DEF D
  <2> QED
    BY <1>1, <1>2, SetInduction
<1>4. PICK g : \A n \in 0 .. N : g[n] = Step(g, n)
  <2> HIDE DEF Step, N
  <2> QED
    BY <1>n, <1>3
<1> DEFINE h == [n \in 0 .. N |-> g[n]]
<1>5. ASSUME NEW n \in 0 .. N PROVE h[n] = Step(h, n)
  <2>1. n # 0 => h[n - 1] = g[n - 1]
    BY <1>n
  <2>2. Step(h, n) = Step(g, n)
    BY <2>1
  <2> QED
    BY <1>4, <2>2
<1>6. IsRounds(h, t, keys, provided, delay)
  BY <1>5 DEF IsRounds
<1>7. Granted(t, keys, provided, delay) = (CHOOSE f : IsRounds(f, t, keys, provided, delay))[N]
  BY DEF Granted, IsRounds, Round, Shows, HeldBy
<1>8. IsRounds(CHOOSE f : IsRounds(f, t, keys, provided, delay), t, keys, provided, delay)
  BY <1>6, Zenon
<1> QED
  BY <1>7, <1>8

\* After as many rounds as there are accounts nobody is missing, and everybody
\* found was provided or shows the weight.
LEMMA GrantedFacts ==
    ASSUME NEW t, GoodTable(t), NEW keys, NEW provided \in SUBSET Account, NEW delay
    PROVE  /\ provided \subseteq Granted(t, keys, provided, delay)
           /\ Granted(t, keys, provided, delay) \subseteq Account
           /\ \A a \in Account : Shows(t, a, keys, Granted(t, keys, provided, delay), delay)
                                  => a \in Granted(t, keys, provided, delay)
           /\ \A a \in Granted(t, keys, provided, delay) :
                  a \in provided \/ Shows(t, a, keys, Granted(t, keys, provided, delay), delay)
<1> DEFINE N == Cardinality(Account)
<1>1. PICK acts : /\ IsRounds(acts, t, keys, provided, delay)
                  /\ Granted(t, keys, provided, delay) = acts[N]
  BY RoundsExist
<1>2. N \in Nat /\ IsFiniteSet(Account)
  BY AuthorityAssumption, FS_CardinalityType
<1>3. acts[0] = provided
  BY <1>1, <1>2 DEF IsRounds
<1>4. ASSUME NEW n \in Nat, n + 1 <= N PROVE acts[n + 1] = Round(t, keys, acts[n], delay)
  <2>1. n + 1 \in 0 .. N /\ n + 1 # 0 /\ (n + 1) - 1 = n
    BY <1>2, <1>4
  <2>2. acts[n + 1] = IF n + 1 = 0 THEN provided ELSE Round(t, keys, acts[(n + 1) - 1], delay)
    BY <1>1, <2>1, Zenon DEF IsRounds
  <2> QED
    BY <2>1, <2>2
<1> HIDE DEF N
<1> DEFINE Good(n) == /\ provided \subseteq acts[n] /\ acts[n] \subseteq Account
                      /\ \A a \in acts[n] : a \in provided \/ Shows(t, a, keys, acts[n], delay)
                      /\ Cardinality(acts[n]) >= n \/ Round(t, keys, acts[n], delay) = acts[n]
<1>5. \A n \in Nat : n <= N => Good(n)
  <2> DEFINE D == {n \in Nat : n <= N => Good(n)}
  <2>1. 0 \in D
    <3>1. Cardinality(provided) \in Nat
      BY <1>2, FS_Subset, FS_CardinalityType
    <3> QED
      BY <1>3, <3>1
  <2>2. ASSUME NEW n \in Nat, n \in D PROVE n + 1 \in D
    <3> SUFFICES ASSUME n + 1 <= N PROVE Good(n + 1)
      OBVIOUS
    <3>1. Good(n) /\ acts[n + 1] = Round(t, keys, acts[n], delay)
      BY <1>2, <1>4, <2>2
    <3>2. provided \subseteq acts[n + 1] /\ acts[n + 1] \subseteq Account /\ acts[n] \subseteq acts[n + 1]
      BY <3>1 DEF Round
    <3>3. ASSUME NEW a \in acts[n + 1] PROVE a \in provided \/ Shows(t, a, keys, acts[n + 1], delay)
      <4>1. a \in Account /\ (a \in provided \/ Shows(t, a, keys, acts[n], delay))
        BY <3>1, <3>2 DEF Round
      <4> QED
        BY <3>2, <4>1, HeldGrows
    <3>4. Cardinality(acts[n + 1]) >= n + 1 \/ Round(t, keys, acts[n + 1], delay) = acts[n + 1]
      <4>1. CASE Round(t, keys, acts[n], delay) = acts[n]
        BY <3>1, <4>1
      <4>2. CASE Round(t, keys, acts[n], delay) # acts[n]
        <5>1. IsFiniteSet(acts[n + 1]) /\ IsFiniteSet(acts[n])
          BY <1>2, <3>1, <3>2, FS_Subset
        <5>2. Cardinality(acts[n]) \in Nat /\ Cardinality(acts[n + 1]) \in Nat
          BY <5>1, FS_CardinalityType
        <5>3. Cardinality(acts[n]) <= Cardinality(acts[n + 1]) /\ Cardinality(acts[n + 1]) # Cardinality(acts[n])
          BY <3>1, <3>2, <4>2, <5>1, FS_Subset
        <5> QED
          BY <3>1, <4>2, <5>2, <5>3
      <4> QED
        BY <4>1, <4>2
    <3> QED
      BY <3>2, <3>3, <3>4
  <2>3. Nat \subseteq D
    <3> HIDE DEF D
    <3> QED
      BY <2>1, <2>2, SetInduction
  <2> QED
    BY <2>3
<1>6. /\ provided \subseteq acts[N] /\ acts[N] \subseteq Account
      /\ \A a \in acts[N] : a \in provided \/ Shows(t, a, keys, acts[N], delay)
      /\ Cardinality(acts[N]) >= N \/ Round(t, keys, acts[N], delay) = acts[N]
  <2>1. N <= N
    BY <1>2
  <2>2. Good(N)
    <3> HIDE DEF Good
    <3> QED
      BY <1>2, <1>5, <2>1
  <2> QED
    BY <2>2
<1>7. Round(t, keys, acts[N], delay) = acts[N]
  <2>1. CASE Cardinality(acts[N]) >= N
    <3>2. acts[N] = Account
      BY <1>2, <2>1, <1>6, FS_Subset, FS_CardinalityType DEF N
    <3> QED
      BY <3>2 DEF Round
  <2> QED
    BY <1>6, <2>1
<1>8. \A a \in Account : Shows(t, a, keys, acts[N], delay) => a \in acts[N]
  BY <1>7 DEF Round
<1> QED
  BY <1>1, <1>6, <1>8

-----------------------------------------------------------------------------
(* The factors the loop has seen. *)

First(F, n) == {Sorted(F)[k] : k \in 1 .. n}
Upto(F, n, keys, S, delay) == HeldBy(First(F, n), keys, S, delay)
Adds(f, keys, S, delay) == IF Held(f, keys, S, delay) THEN f.weight ELSE 0

\* What the loop has seen grows by the weight of a factor that counts.
LEMMA UptoGrows ==
    ASSUME NEW F, IsFactors(F), Distinct(F), NEW keys, NEW S, NEW delay,
           NEW n \in Nat, n + 1 <= Cardinality(F)
    PROVE  /\ Sorted(F)[n + 1] \in F
           /\ Weights(Upto(F, n, keys, S, delay)) \in Nat
           /\ Adds(Sorted(F)[n + 1], keys, S, delay) \in Nat
           /\ Weights(Upto(F, n + 1, keys, S, delay)) =
                Weights(Upto(F, n, keys, S, delay)) + Adds(Sorted(F)[n + 1], keys, S, delay)
<1> DEFINE N == Cardinality(F)
           f == Sorted(F)[n + 1]
           U == Upto(F, n, keys, S, delay)
<1>1. /\ N \in Nat
      /\ \A k \in 1 .. N : Sorted(F)[k] \in F
      /\ \A m, k \in 1 .. N : Sorted(F)[m] = Sorted(F)[k] => m = k
  BY SortedLists
<1>2. n + 1 \in 1 .. N /\ \A k \in 1 .. n : k \in 1 .. N /\ k # n + 1
  BY <1>1
<1>3. f \in F /\ f \in Factor /\ First(F, n) \subseteq F
  BY <1>1, <1>2 DEF First, IsFactors
<1>4. f \notin First(F, n)
  BY <1>1, <1>2 DEF First
<1>5. First(F, n + 1) = First(F, n) \cup {f}
  <2>1. 1 .. n + 1 = (1 .. n) \cup {n + 1}
    OBVIOUS
  <2> QED
    BY <2>1 DEF First
<1>6. f.weight \in Nat
  BY <1>3 DEF Factor
<1> HIDE DEF f
<1>7. U \subseteq F /\ f \notin U
  BY <1>3, <1>4 DEF Upto, HeldBy
<1>8. IsFactors(U) /\ Weights(U) \in Nat
  BY <1>7, WeightsGrow, WeightsType
<1>9. CASE Held(f, keys, S, delay)
  <2>1. Upto(F, n + 1, keys, S, delay) = U \cup {f}
    BY <1>5, <1>9 DEF Upto, HeldBy
  <2>2. Weights(U \cup {f}) = f.weight + Weights(U)
    BY <1>3, <1>7, <1>8, WeightsInsert
  <2>3. Adds(f, keys, S, delay) = f.weight
    BY <1>9 DEF Adds
  <2> HIDE DEF U
  <2>t. Weights(Upto(F, n + 1, keys, S, delay)) = f.weight + Weights(U)
    BY <2>1, <2>2, Zenon
  <2>4. Weights(Upto(F, n + 1, keys, S, delay)) = Weights(U) + Adds(f, keys, S, delay)
    BY <1>6, <1>8, <2>t, <2>3
  <2> QED
    BY <1>3, <1>6, <1>8, <2>3, <2>4 DEF f, U
<1>10. CASE ~Held(f, keys, S, delay)
  <2>1. Upto(F, n + 1, keys, S, delay) = U
    BY <1>5, <1>10 DEF Upto, HeldBy
  <2> QED
    BY <1>3, <1>8, <1>10, <2>1 DEF Adds, f
<1> QED
  BY <1>9, <1>10

\* It begins with nothing and ends with all of them.
LEMMA UptoEnds ==
    ASSUME NEW F, IsFactors(F), Distinct(F), NEW keys, NEW S, NEW delay
    PROVE  /\ Weights(Upto(F, 0, keys, S, delay)) = 0
           /\ Upto(F, Cardinality(F), keys, S, delay) = HeldBy(F, keys, S, delay)
           /\ Weights(HeldBy(F, keys, S, delay)) \in Nat
<1>1. First(F, 0) = {}
  BY DEF First
<1>2. Upto(F, 0, keys, S, delay) = {}
  BY <1>1 DEF Upto, HeldBy
<1>3. First(F, Cardinality(F)) = F
  BY SortedLists DEF First
<1>4. HeldBy(F, keys, S, delay) \subseteq F
  BY DEF HeldBy
<1> QED
  BY <1>2, <1>3, <1>4, WeightsEmpty, WeightsGrow, WeightsType DEF Upto

-----------------------------------------------------------------------------
(* The checker accepts nobody it should not. *)

\* An account the cache calls satisfied can act.
SoundCache(c, S) == \A a \in DOMAIN c : c[a] = "satisfied" => a \in S
\* Asked with such a cache, the checker below a depth answers soundly.
SoundAnswer(y, r, S) == SoundCache(y.cache, S) => SoundCache(r.cache, S) /\ (r.ok => y.of \in S)
SoundBelow(v, n, S) == \A y \in Question : y.depth = n + 1 => SoundAnswer(y, v[y], S)

LEMMA TallySound ==
    ASSUME NEW v, NEW n \in 0 .. MaxDepth - 1, NEW S, TypedBelow(v, n), SoundBelow(v, n, S),
           NEW keys \in SUBSET Key, NEW delay \in Nat,
           NEW s \in Tallies, SoundCache(s.cache, S),
           NEW f \in Factor, f.kind = "account" => f.what \in Account
    PROVE  /\ SoundCache(tally(v, keys, delay, n, s, f).cache, S)
           /\ tally(v, keys, delay, n, s, f).weight <= s.weight + Adds(f, keys, S, delay)
<1>0. /\ f.kind \in {"wait", "key", "account"} /\ f.weight \in Nat /\ f.what \in Nat
      /\ s.weight \in Nat /\ s.cache \in Cache /\ s.used \in SUBSET Key
  BY DEF Factor, Kind, Tallies
<1>1. CASE f.kind = "account"
  <2>1. Ask(f.what, n + 1, s) \in Question /\ Ask(f.what, n + 1, s).depth = n + 1
    BY <1>0, <1>1, AuthorityAssumption DEF Ask, Question
  <2>2. PICK r \in Answers : r = v[Ask(f.what, n + 1, s)]
    BY <2>1 DEF TypedBelow
  <2>3. tally(v, keys, delay, n, s, f) =
          [weight |-> s.weight + (IF r.ok THEN f.weight ELSE 0), cache |-> r.cache, used |-> r.used]
    BY <1>1, <2>2 DEF tally, Ask
  <2>4. SoundAnswer(Ask(f.what, n + 1, s), r, S)
    BY <2>1, <2>2 DEF SoundBelow
  <2>5. SoundCache(r.cache, S) /\ (r.ok => f.what \in S)
    BY <2>4 DEF SoundAnswer, Ask
  <2>6. Held(f, keys, S, delay) <=> f.what \in S
    BY <1>1 DEF Held
  <2> QED
    BY <1>0, <2>3, <2>5, <2>6 DEF Adds
<1>2. CASE f.kind = "key"
  <2>1. Held(f, keys, S, delay) <=> f.what \in keys
    BY <1>2 DEF Held
  <2>2. CASE f.what \in keys
    <3>1. tally(v, keys, delay, n, s, f) = [s EXCEPT !.weight = s.weight + f.weight, !.used = s.used \cup {f.what}]
      BY <1>2, <2>2 DEF tally
    <3> QED
      BY <1>0, <2>1, <2>2, <3>1 DEF Adds, Tallies
  <2>3. CASE f.what \notin keys
    <3>1. tally(v, keys, delay, n, s, f) = s
      BY <1>2, <2>3 DEF tally
    <3> QED
      BY <1>0, <2>1, <2>3, <3>1 DEF Adds
  <2> QED
    BY <2>2, <2>3
<1>3. CASE f.kind = "wait"
  <2>1. Held(f, keys, S, delay) <=> f.what <= delay
    BY <1>3 DEF Held
  <2>2. CASE f.what <= delay
    <3>1. tally(v, keys, delay, n, s, f) = [s EXCEPT !.weight = s.weight + f.weight]
      BY <1>3, <2>2 DEF tally
    <3> QED
      BY <1>0, <2>1, <2>2, <3>1 DEF Adds, Tallies
  <2>3. CASE ~(f.what <= delay)
    <3>1. tally(v, keys, delay, n, s, f) = s
      BY <1>3, <2>3 DEF tally
    <3> QED
      BY <1>0, <2>1, <2>3, <3>1 DEF Adds
  <2> QED
    BY <2>2, <2>3
<1> QED
  BY <1>0, <1>1, <1>2, <1>3

LEMMA SoundPut ==
    ASSUME NEW c, NEW S, SoundCache(c, S), NEW a, NEW st, st = "satisfied" => a \in S
    PROVE  SoundCache(Put(c, a, st), S)
BY DEF SoundCache, Put

\* The loop counts no more than the weight of the factors that are held.
LEMMA LoopSound ==
    ASSUME NEW t, GoodTable(t), NEW keys \in SUBSET Key, NEW delay \in Nat, NEW v, NEW S,
           NEW x \in Question, x.depth < MaxDepth, TypedBelow(v, x.depth), SoundBelow(v, x.depth, S),
           SoundCache(x.cache, S)
    PROVE  /\ SoundCache(loop(v, t[x.of], keys, delay, x).cache, S)
           /\ loop(v, t[x.of], keys, delay, x).weight <= Weights(HeldBy(t[x.of].factors, keys, S, delay))
<1> DEFINE F == t[x.of].factors
           N == Cardinality(F)
           W(n) == Weights(Upto(F, n, keys, S, delay))
<1>0. x.of \in Account /\ x.depth \in 0 .. MaxDepth - 1 /\ t[x.of].threshold \in Nat
  BY AuthorityAssumption, GoodFactors DEF Question
<1>1. /\ IsFactors(F) /\ Distinct(F) /\ N \in Nat
      /\ \A f \in F : f \in Factor /\ (f.kind = "account" => f.what \in Account)
  BY <1>0, GoodFactors, FS_CardinalityType DEF IsFactors
<1>2. PICK run : /\ IsLoop(run, v, t[x.of], keys, delay, x)
                 /\ loop(v, t[x.of], keys, delay, x) = run[N]
  BY <1>1, LoopRuns
<1>3. \A n \in 0 .. N : run[n] \in Tallies
  BY <1>2, LoopType
<1> DEFINE Good(n) == SoundCache(run[n].cache, S) /\ run[n].weight <= W(n)
           D == {n \in Nat : n <= N => Good(n)}
<1>4. 0 \in D
  <2>1. run[0] = [weight |-> 0, cache |-> Put(x.cache, x.of, "being_evaluated"), used |-> x.used]
    BY <1>1, <1>2 DEF IsLoop, LoopStep
  <2>2. SoundCache(Put(x.cache, x.of, "being_evaluated"), S)
    BY SoundPut
  <2>3. W(0) = 0
    BY <1>1, UptoEnds
  <2> QED
    BY <2>1, <2>2, <2>3
<1>5. ASSUME NEW n \in Nat, n \in D PROVE n + 1 \in D
  <2> SUFFICES ASSUME n + 1 <= N PROVE Good(n + 1)
    OBVIOUS
  <2> DEFINE f == Sorted(F)[n + 1]
  <2>1. Good(n) /\ run[n] \in Tallies /\ n + 1 \in 0 .. N /\ n + 1 # 0 /\ (n + 1) - 1 = n
    BY <1>1, <1>3, <1>5
  <2>2. f \in F /\ W(n) \in Nat /\ Adds(f, keys, S, delay) \in Nat /\ W(n + 1) = W(n) + Adds(f, keys, S, delay)
    BY <1>1, UptoGrows
  <2>3. run[n + 1] = IF run[n].weight >= t[x.of].threshold THEN run[n]
                     ELSE tally(v, keys, delay, x.depth, run[n], f)
    BY <1>2, <2>1 DEF IsLoop, LoopStep
  <2>4. run[n].weight \in Nat /\ run[n + 1] \in Tallies
    BY <1>3, <2>1 DEF Tallies
  <2>5. /\ SoundCache(tally(v, keys, delay, x.depth, run[n], f).cache, S)
        /\ tally(v, keys, delay, x.depth, run[n], f).weight <= run[n].weight + Adds(f, keys, S, delay)
    BY <1>0, <1>1, <2>1, <2>2, TallySound
  <2>6. run[n + 1].weight \in Nat
    BY <2>4 DEF Tallies
  <2> HIDE DEF W, f
  <2>7. CASE run[n].weight >= t[x.of].threshold
    BY <2>1, <2>2, <2>3, <2>4, <2>7
  <2>8. CASE ~(run[n].weight >= t[x.of].threshold)
    BY <2>1, <2>2, <2>3, <2>4, <2>5, <2>6, <2>8
  <2> QED
    BY <2>7, <2>8
<1>6. Nat \subseteq D
  <2> HIDE DEF D
  <2> QED
    BY <1>4, <1>5, SetInduction
<1>7. Good(N)
  <2> HIDE DEF Good
  <2> QED
    BY <1>1, <1>6
<1>8. W(N) = Weights(HeldBy(F, keys, S, delay))
  BY <1>1, UptoEnds
<1> QED
  BY <1>2, <1>7, <1>8

\* S is closed: who shows the weight with the accounts of S is one of them.
Closed(t, keys, S, delay) == \A a \in Account : Shows(t, a, keys, S, delay) => a \in S

LEMMA AnswerSound ==
    ASSUME NEW t, GoodTable(t), NEW keys \in SUBSET Key, NEW delay \in Nat, NEW v, NEW S,
           Closed(t, keys, S, delay),
           NEW x \in Question, TypedBelow(v, x.depth), SoundBelow(v, x.depth, S)
    PROVE  SoundAnswer(x, answer(v, t, keys, delay, x), S)
<1> SUFFICES ASSUME SoundCache(x.cache, S)
             PROVE  /\ SoundCache(answer(v, t, keys, delay, x).cache, S)
                    /\ answer(v, t, keys, delay, x).ok => x.of \in S
  BY DEF SoundAnswer
<1>0. x.of \in Account
  BY DEF Question
<1>1. CASE x.of \in DOMAIN x.cache
  BY <1>1 DEF answer, Counts, SoundCache
<1>2. CASE x.of \notin DOMAIN x.cache /\ ~WithinLimit(x.depth)
  BY <1>2 DEF answer
<1>3. CASE x.of \notin DOMAIN x.cache /\ WithinLimit(x.depth)
  <2>1. PICK end \in Tallies : end = loop(v, t[x.of], keys, delay, x)
    BY <1>3, LoopEnd DEF WithinLimit
  <2>2. PICK ok : ok = (end.weight >= t[x.of].threshold)
    OBVIOUS
  <2>3. answer(v, t, keys, delay, x) =
          [ok |-> ok, cache |-> Put(end.cache, x.of, IF ok THEN "satisfied" ELSE "unsatisfied"),
           used |-> IF ok THEN end.used ELSE x.used]
    BY <1>3, <2>1, <2>2 DEF answer
  <2>4. SoundCache(end.cache, S) /\ end.weight <= Weights(HeldBy(t[x.of].factors, keys, S, delay))
    BY <1>3, <2>1, LoopSound DEF WithinLimit
  <2>5. ok => x.of \in S
    <3>1. end.weight \in Nat /\ t[x.of].threshold \in Nat /\ Weights(HeldBy(t[x.of].factors, keys, S, delay)) \in Nat
      BY <1>0, GoodFactors, UptoEnds DEF Tallies
    <3>2. ok => end.weight >= t[x.of].threshold
      BY <2>2, Zenon
    <3>3. end.weight >= t[x.of].threshold => Shows(t, x.of, keys, S, delay)
      BY <2>4, <3>1 DEF Shows
    <3> QED
      BY <1>0, <3>2, <3>3 DEF Closed
  <2>6. SoundCache(Put(end.cache, x.of, IF ok THEN "satisfied" ELSE "unsatisfied"), S)
    BY <2>4, <2>5, SoundPut
  <2> QED
    BY <2>3, <2>5, <2>6
<1> QED
  BY <1>1, <1>2, <1>3

LEMMA VisitSound ==
    ASSUME NEW t, GoodTable(t), NEW keys \in SUBSET Key, NEW delay \in Nat, NEW S,
           Closed(t, keys, S, delay)
    PROVE  \A y \in Question : SoundAnswer(y, Visit(t, keys, delay)[y], S)
<1> DEFINE v == Visit(t, keys, delay)
           D == {n \in Nat : \A x \in Question : x.depth > MaxDepth - n => SoundAnswer(x, v[x], S)}
<1>0. MaxDepth \in Nat /\ \A x \in Question : x.depth \in 0 .. MaxDepth
  BY AuthorityAssumption DEF Question
<1>1. \A x \in Question : v[x] = answer(v, t, keys, delay, x)
  <2>1. IsVisit(v, t, keys, delay)
    BY VisitExists
  <2> HIDE DEF v
  <2> QED
    BY <2>1, Zenon DEF IsVisit
<1>t. \A n \in Nat : TypedBelow(v, n)
  BY VisitType
<1> HIDE DEF v
<1>2. 0 \in D
  BY <1>0
<1>3. ASSUME NEW n \in Nat, n \in D PROVE n + 1 \in D
  <2> SUFFICES ASSUME NEW x \in Question, x.depth > MaxDepth - (n + 1) PROVE SoundAnswer(x, v[x], S)
    OBVIOUS
  <2>1. SoundBelow(v, x.depth, S)
    BY <1>0, <1>3 DEF SoundBelow
  <2>2. SoundAnswer(x, answer(v, t, keys, delay, x), S)
    BY <1>0, <1>t, <2>1, AnswerSound
  <2> QED
    BY <1>1, <2>2
<1>4. Nat \subseteq D
  <2> HIDE DEF D
  <2> QED
    BY <1>2, <1>3, SetInduction
<1>5. \A x \in Question : SoundAnswer(x, v[x], S)
  <2>1. MaxDepth + 1 \in D
    BY <1>0, <1>4
  <2> QED
    BY <1>0, <2>1
<1> QED
  BY <1>5 DEF v

\* The question check_authorization asks.
FirstQuestion(a, provided, used) ==
    [of |-> a, depth |-> 0, cache |-> [p \in provided |-> "satisfied"], used |-> used]

LEMMA FirstQuestionType ==
    ASSUME NEW a \in Account, NEW provided \in SUBSET Account
    PROVE  FirstQuestion(a, provided, {}) \in Question
<1>1. [p \in provided |-> "satisfied"] \in [provided -> Status]
  BY DEF Status
<1>2. [p \in provided |-> "satisfied"] \in Cache
  BY <1>1, Zenon DEF Cache
<1> QED
  BY <1>2, AuthorityAssumption DEF FirstQuestion, Question

\* Whom the checker accepts can act, whatever the authorities are.
THEOREM AcceptedCanAct ==
    ASSUME NEW t, GoodTable(t), NEW a \in Account, NEW keys \in SUBSET Key,
           NEW provided \in SUBSET Account, NEW delay \in Nat,
           Accepts(t, a, keys, provided, delay)
    PROVE  a \in Granted(t, keys, provided, delay)
<1> DEFINE S == Granted(t, keys, provided, delay)
           q == FirstQuestion(a, provided, {})
<1>1. provided \subseteq S /\ Closed(t, keys, S, delay)
  BY GrantedFacts DEF Closed
<1>2. Visit(t, keys, delay)[q].ok
  BY SatisfiedVisits DEF Accepts, FirstQuestion
<1>3. q \in Question
  BY FirstQuestionType
<1> HIDE DEF S
<1>4. SoundAnswer(q, Visit(t, keys, delay)[q], S)
  BY <1>1, <1>3, VisitSound
<1>5. SoundCache(q.cache, S) /\ q.of = a
  BY <1>1 DEF SoundCache, FirstQuestion
<1> QED
  BY <1>2, <1>4, <1>5 DEF SoundAnswer, S

-----------------------------------------------------------------------------
(* Where the authorities are shallow it accepts everybody it should. *)

\* The accounts provided are known, and an account the cache calls unsatisfied
\* cannot act.
FairCache(c, S, provided) == provided \subseteq DOMAIN c /\ \A a \in DOMAIN c : c[a] = "unsatisfied" => a \notin S
\* The accounts the recursion is at.
Open(c) == {a \in DOMAIN c : c[a] = "being_evaluated"}
\* A question the recursion asks: it is at higher accounts only, and there are
\* levels enough for the height.
Fair(y, S, provided, h) ==
    /\ FairCache(y.cache, S, provided) /\ h[y.of] + y.depth < MaxDepth
    /\ \A a \in Open(y.cache) : h[a] > h[y.of]
FairAnswer(y, r, S, provided, h) ==
    Fair(y, S, provided, h) =>
        /\ FairCache(r.cache, S, provided) /\ Open(r.cache) \subseteq Open(y.cache)
        /\ y.of \in S => r.ok
FairBelow(v, n, S, provided, h) ==
    \A y \in Question : y.depth = n + 1 => FairAnswer(y, v[y], S, provided, h)

\* The factor leads to a lower account that is not too deep.
Reachable(f, n, c, h) ==
    f.kind = "account" => /\ f.what \in Account /\ h[f.what] + (n + 1) < MaxDepth
                          /\ \A a \in Open(c) : h[a] > h[f.what]

LEMMA TallyComplete ==
    ASSUME NEW v, NEW n \in 0 .. MaxDepth - 1, NEW S, NEW provided, NEW h, TypedBelow(v, n),
           FairBelow(v, n, S, provided, h),
           NEW keys \in SUBSET Key, NEW delay \in Nat,
           NEW s \in Tallies, FairCache(s.cache, S, provided),
           NEW f \in Factor,
           Reachable(f, n, s.cache, h)
    PROVE  /\ FairCache(tally(v, keys, delay, n, s, f).cache, S, provided)
           /\ Open(tally(v, keys, delay, n, s, f).cache) \subseteq Open(s.cache)
           /\ tally(v, keys, delay, n, s, f).weight >= s.weight + Adds(f, keys, S, delay)
<1>0. /\ f.kind \in {"wait", "key", "account"} /\ f.weight \in Nat /\ f.what \in Nat
      /\ s.weight \in Nat /\ s.cache \in Cache /\ s.used \in SUBSET Key
  BY DEF Factor, Kind, Tallies
<1>1. CASE f.kind = "account"
  <2>1. Ask(f.what, n + 1, s) \in Question /\ Ask(f.what, n + 1, s).depth = n + 1
    BY <1>0, <1>1, AuthorityAssumption DEF Ask, Question, Reachable
  <2>2. PICK r \in Answers : r = v[Ask(f.what, n + 1, s)]
    BY <2>1 DEF TypedBelow
  <2>3. tally(v, keys, delay, n, s, f) =
          [weight |-> s.weight + (IF r.ok THEN f.weight ELSE 0), cache |-> r.cache, used |-> r.used]
    BY <1>1, <2>2 DEF tally, Ask
  <2>4. FairAnswer(Ask(f.what, n + 1, s), r, S, provided, h)
    BY <2>1, <2>2 DEF FairBelow
  <2>5. Fair(Ask(f.what, n + 1, s), S, provided, h)
    BY <1>1 DEF Fair, Ask, Reachable
  <2>6. FairCache(r.cache, S, provided) /\ Open(r.cache) \subseteq Open(s.cache) /\ (f.what \in S => r.ok)
    BY <2>4, <2>5 DEF FairAnswer, Ask
  <2>7. Held(f, keys, S, delay) <=> f.what \in S
    BY <1>1 DEF Held
  <2> QED
    BY <1>0, <2>3, <2>6, <2>7 DEF Adds
<1>2. CASE f.kind = "key"
  <2>1. Held(f, keys, S, delay) <=> f.what \in keys
    BY <1>2 DEF Held
  <2>2. CASE f.what \in keys
    <3>1. tally(v, keys, delay, n, s, f) = [s EXCEPT !.weight = s.weight + f.weight, !.used = s.used \cup {f.what}]
      BY <1>2, <2>2 DEF tally
    <3> QED
      BY <1>0, <2>1, <2>2, <3>1 DEF Adds, Tallies
  <2>3. CASE f.what \notin keys
    <3>1. tally(v, keys, delay, n, s, f) = s
      BY <1>2, <2>3 DEF tally
    <3> QED
      BY <1>0, <2>1, <2>3, <3>1 DEF Adds
  <2> QED
    BY <2>2, <2>3
<1>3. CASE f.kind = "wait"
  <2>1. Held(f, keys, S, delay) <=> f.what <= delay
    BY <1>3 DEF Held
  <2>2. CASE f.what <= delay
    <3>1. tally(v, keys, delay, n, s, f) = [s EXCEPT !.weight = s.weight + f.weight]
      BY <1>3, <2>2 DEF tally
    <3> QED
      BY <1>0, <2>1, <2>2, <3>1 DEF Adds, Tallies
  <2>3. CASE ~(f.what <= delay)
    <3>1. tally(v, keys, delay, n, s, f) = s
      BY <1>3, <2>3 DEF tally
    <3> QED
      BY <1>0, <2>1, <2>3, <3>1 DEF Adds
  <2> QED
    BY <2>2, <2>3
<1> QED
  BY <1>0, <1>1, <1>2, <1>3

LEMMA FairPut ==
    ASSUME NEW c, NEW S, NEW provided, FairCache(c, S, provided), NEW a, NEW st, st = "unsatisfied" => a \notin S
    PROVE  FairCache(Put(c, a, st), S, provided)
BY DEF FairCache, Put

\* Heights that fall along the references.
IsHeight(h, t) ==
    /\ h \in [Account -> 0 .. MaxDepth - 1]
    /\ \A a \in Account : \A f \in t[a].factors : f.kind = "account" => h[f.what] < h[a]

\* The loop counts all the factors that are held, or stops at the threshold.
LEMMA LoopComplete ==
    ASSUME NEW t, GoodTable(t), NEW keys \in SUBSET Key, NEW delay \in Nat, NEW v, NEW S, NEW provided,
           NEW h, IsHeight(h, t),
           NEW x \in Question, TypedBelow(v, x.depth), FairBelow(v, x.depth, S, provided, h),
           Fair(x, S, provided, h)
    PROVE  /\ FairCache(loop(v, t[x.of], keys, delay, x).cache, S, provided)
           /\ Open(loop(v, t[x.of], keys, delay, x).cache) \subseteq Open(x.cache) \cup {x.of}
           /\ \/ loop(v, t[x.of], keys, delay, x).weight >= t[x.of].threshold
              \/ loop(v, t[x.of], keys, delay, x).weight >= Weights(HeldBy(t[x.of].factors, keys, S, delay))
<1> DEFINE F == t[x.of].factors
           N == Cardinality(F)
           W(n) == Weights(Upto(F, n, keys, S, delay))
           O == Open(x.cache) \cup {x.of}
<1>h. h \in [Account -> 0 .. MaxDepth - 1] /\ MaxDepth \in Nat /\ x.of \in Account /\ h[x.of] \in Nat
  BY AuthorityAssumption DEF Question, IsHeight
<1>0. x.depth \in 0 .. MaxDepth - 1 /\ t[x.of].threshold \in Nat
  <2>1. x.depth \in 0 .. MaxDepth /\ h[x.of] + x.depth < MaxDepth
    BY DEF Question, Fair
  <2> QED
    BY <1>h, <2>1, GoodFactors
<1>d. x.depth < MaxDepth
  BY <1>0, <1>h
<1>o. \A a \in O : h[a] \in Nat /\ h[a] >= h[x.of]
  <2>1. x.cache \in Cache
    BY DEF Question
  <2>2. Open(x.cache) \subseteq Account
    BY <2>1, CacheFacts DEF Open
  <2>3. \A a \in Account : h[a] \in Nat
    BY <1>h
  <2>4. \A a \in Open(x.cache) : h[a] > h[x.of]
    BY DEF Fair
  <2> QED
    BY <1>h, <2>2, <2>3, <2>4
<1>1. /\ IsFactors(F) /\ Distinct(F) /\ N \in Nat
      /\ \A f \in F : f \in Factor /\ (f.kind = "account" => f.what \in Account /\ h[f.what] \in Nat /\ h[f.what] < h[x.of])
  <2>1. /\ IsFactors(F) /\ Distinct(F) /\ N \in Nat
        /\ \A f \in F : f \in Factor /\ (f.kind = "account" => f.what \in Account)
    BY <1>h, GoodFactors, FS_CardinalityType DEF IsFactors
  <2>2. \A f \in F : f.kind = "account" => h[f.what] < h[x.of]
    BY <1>h DEF IsHeight
  <2> QED
    BY <1>h, <2>1, <2>2
<1>2. PICK run : /\ IsLoop(run, v, t[x.of], keys, delay, x)
                 /\ loop(v, t[x.of], keys, delay, x) = run[N]
  BY <1>1, LoopRuns
<1>3. \A n \in 0 .. N : run[n] \in Tallies
  BY <1>2, <1>d, LoopType
<1> DEFINE Good(n) == /\ FairCache(run[n].cache, S, provided) /\ Open(run[n].cache) \subseteq O
                      /\ run[n].weight >= t[x.of].threshold \/ run[n].weight >= W(n)
           D == {n \in Nat : n <= N => Good(n)}
<1>4. 0 \in D
  <2>1. run[0] = [weight |-> 0, cache |-> Put(x.cache, x.of, "being_evaluated"), used |-> x.used]
    BY <1>1, <1>2 DEF IsLoop, LoopStep
  <2>2. FairCache(Put(x.cache, x.of, "being_evaluated"), S, provided)
    BY FairPut DEF Fair
  <2>3. W(0) = 0
    BY <1>1, UptoEnds
  <2>4. Open(Put(x.cache, x.of, "being_evaluated")) \subseteq O
    BY DEF Open, Put
  <2> QED
    BY <2>1, <2>2, <2>3, <2>4
<1>5. ASSUME NEW n \in Nat, n \in D PROVE n + 1 \in D
  <2> SUFFICES ASSUME n + 1 <= N PROVE Good(n + 1)
    OBVIOUS
  <2> DEFINE f == Sorted(F)[n + 1]
             r == tally(v, keys, delay, x.depth, run[n], f)
  <2>1. Good(n) /\ run[n] \in Tallies /\ n + 1 \in 0 .. N /\ n + 1 # 0 /\ (n + 1) - 1 = n
    BY <1>1, <1>3, <1>5
  <2>2. f \in F /\ W(n) \in Nat /\ Adds(f, keys, S, delay) \in Nat /\ W(n + 1) = W(n) + Adds(f, keys, S, delay)
    BY <1>1, UptoGrows
  <2>3. run[n + 1] = IF run[n].weight >= t[x.of].threshold THEN run[n] ELSE r
    BY <1>2, <2>1 DEF IsLoop, LoopStep
  <2>4. run[n].weight \in Nat /\ run[n + 1] \in Tallies
    BY <1>3, <2>1 DEF Tallies
  <2> HIDE DEF W, f
  <2>5. /\ FairCache(r.cache, S, provided) /\ Open(r.cache) \subseteq Open(run[n].cache)
        /\ r.weight >= run[n].weight + Adds(f, keys, S, delay)
    <3>1. f \in Factor /\ (f.kind = "account" => f.what \in Account /\ h[f.what] \in Nat /\ h[f.what] < h[x.of])
      BY <1>1, <2>2
    <3>2. f.kind = "account" => h[f.what] + (x.depth + 1) < MaxDepth
      <4>1. h[x.of] + x.depth < MaxDepth
        BY DEF Fair
      <4> QED
        BY <1>0, <1>h, <3>1, <4>1
    <3>3. f.kind = "account" => \A a \in Open(run[n].cache) : h[a] > h[f.what]
      BY <1>o, <1>h, <2>1, <3>1
    <3>4. run[n] \in Tallies /\ FairCache(run[n].cache, S, provided)
      BY <2>1
    <3>5. Reachable(f, x.depth, run[n].cache, h)
      BY <3>1, <3>2, <3>3 DEF Reachable
    <3> HIDE DEF O, F, N
    <3> QED
      BY <1>0, <3>1, <3>4, <3>5, TallyComplete
  <2>6. run[n + 1].weight \in Nat
    BY <2>4 DEF Tallies
  <2> HIDE DEF r
  <2>7. CASE run[n].weight >= t[x.of].threshold
    BY <2>1, <2>2, <2>3, <2>4, <2>7
  <2>8. CASE ~(run[n].weight >= t[x.of].threshold)
    BY <2>1, <2>2, <2>3, <2>4, <2>5, <2>6, <2>8
  <2> QED
    BY <2>7, <2>8
<1>6. Nat \subseteq D
  <2> HIDE DEF D
  <2> QED
    BY <1>4, <1>5, SetInduction
<1>7. Good(N)
  <2> HIDE DEF Good
  <2> QED
    BY <1>1, <1>6
<1>8. W(N) = Weights(HeldBy(F, keys, S, delay))
  BY <1>1, UptoEnds
<1> QED
  BY <1>2, <1>7, <1>8

\* Every account of S was provided or shows the weight with those of S.
Supported(t, keys, S, provided, delay) == \A a \in S : a \in provided \/ Shows(t, a, keys, S, delay)

LEMMA AnswerComplete ==
    ASSUME NEW t, GoodTable(t), NEW keys \in SUBSET Key, NEW delay \in Nat, NEW v, NEW S, NEW provided,
           NEW h, IsHeight(h, t), Supported(t, keys, S, provided, delay),
           NEW x \in Question, TypedBelow(v, x.depth), FairBelow(v, x.depth, S, provided, h)
    PROVE  FairAnswer(x, answer(v, t, keys, delay, x), S, provided, h)
<1> DEFINE r == answer(v, t, keys, delay, x)
<1> SUFFICES ASSUME Fair(x, S, provided, h)
             PROVE  /\ FairCache(r.cache, S, provided) /\ Open(r.cache) \subseteq Open(x.cache)
                    /\ x.of \in S => r.ok
  BY DEF FairAnswer
<1>0. x.of \in Account /\ x.cache \in Cache /\ h[x.of] \in Nat /\ MaxDepth \in Nat /\ x.depth \in Nat
  BY AuthorityAssumption DEF Question, IsHeight
<1>l. h[x.of] + x.depth < MaxDepth /\ FairCache(x.cache, S, provided) /\ \A a \in Open(x.cache) : h[a] > h[x.of]
  BY DEF Fair
<1>1. CASE x.of \in DOMAIN x.cache
  <2>1. x.cache[x.of] \in Status
    BY <1>0, <1>1, CacheFacts
  <2>2. x.cache[x.of] # "being_evaluated"
    BY <1>0, <1>1, <1>l DEF Open
  <2>3. x.of \in S => x.cache[x.of] # "unsatisfied"
    BY <1>1, <1>l DEF FairCache
  <2> QED
    BY <1>1, <1>l, <2>1, <2>2, <2>3 DEF answer, Counts, Status
<1>2. WithinLimit(x.depth)
  BY <1>0, <1>l DEF WithinLimit
<1>3. CASE x.of \notin DOMAIN x.cache
  <2>1. PICK end \in Tallies : end = loop(v, t[x.of], keys, delay, x)
    BY <1>2, LoopEnd DEF WithinLimit
  <2>2. PICK ok : ok = (end.weight >= t[x.of].threshold)
    OBVIOUS
  <2>3. r = [ok |-> ok, cache |-> Put(end.cache, x.of, IF ok THEN "satisfied" ELSE "unsatisfied"),
             used |-> IF ok THEN end.used ELSE x.used]
    BY <1>2, <1>3, <2>1, <2>2 DEF answer
  <2>4. /\ FairCache(end.cache, S, provided) /\ Open(end.cache) \subseteq Open(x.cache) \cup {x.of}
        /\ end.weight >= t[x.of].threshold \/ end.weight >= Weights(HeldBy(t[x.of].factors, keys, S, delay))
    BY <2>1, LoopComplete
  <2>5. x.of \in S => ok
    <3>1. end.weight \in Nat /\ t[x.of].threshold \in Nat /\ Weights(HeldBy(t[x.of].factors, keys, S, delay)) \in Nat
      BY <1>0, GoodFactors, UptoEnds DEF Tallies
    <3>2. x.of \in S => Shows(t, x.of, keys, S, delay)
      BY <1>3, <1>l DEF Supported, FairCache
    <3>3. x.of \in S => end.weight >= t[x.of].threshold
      BY <2>4, <3>1, <3>2 DEF Shows
    <3> QED
      BY <2>2, <3>3, Zenon
  <2>6. FairCache(Put(end.cache, x.of, IF ok THEN "satisfied" ELSE "unsatisfied"), S, provided)
    BY <2>4, <2>5, FairPut
  <2>7. Open(Put(end.cache, x.of, IF ok THEN "satisfied" ELSE "unsatisfied")) \subseteq Open(x.cache)
    BY <2>4 DEF Open, Put
  <2> HIDE DEF r
  <2> QED
    BY <2>3, <2>5, <2>6, <2>7
<1> QED
  BY <1>1, <1>3

LEMMA VisitComplete ==
    ASSUME NEW t, GoodTable(t), NEW keys \in SUBSET Key, NEW delay \in Nat, NEW S, NEW provided,
           NEW h, IsHeight(h, t), Supported(t, keys, S, provided, delay)
    PROVE  \A y \in Question : FairAnswer(y, Visit(t, keys, delay)[y], S, provided, h)
<1> DEFINE v == Visit(t, keys, delay)
           D == {n \in Nat : \A x \in Question : x.depth > MaxDepth - n => FairAnswer(x, v[x], S, provided, h)}
<1>0. MaxDepth \in Nat /\ \A x \in Question : x.depth \in 0 .. MaxDepth
  BY AuthorityAssumption DEF Question
<1>1. \A x \in Question : v[x] = answer(v, t, keys, delay, x)
  <2>1. IsVisit(v, t, keys, delay)
    BY VisitExists
  <2> HIDE DEF v
  <2> QED
    BY <2>1, Zenon DEF IsVisit
<1>t. \A n \in Nat : TypedBelow(v, n)
  BY VisitType
<1> HIDE DEF v
<1>2. 0 \in D
  BY <1>0
<1>3. ASSUME NEW n \in Nat, n \in D PROVE n + 1 \in D
  <2> SUFFICES ASSUME NEW x \in Question, x.depth > MaxDepth - (n + 1) PROVE FairAnswer(x, v[x], S, provided, h)
    OBVIOUS
  <2>1. FairBelow(v, x.depth, S, provided, h)
    BY <1>0, <1>3 DEF FairBelow
  <2>2. FairAnswer(x, answer(v, t, keys, delay, x), S, provided, h)
    BY <1>0, <1>t, <2>1, AnswerComplete
  <2> QED
    BY <1>1, <2>2
<1>4. Nat \subseteq D
  <2> HIDE DEF D
  <2> QED
    BY <1>2, <1>3, SetInduction
<1>5. \A x \in Question : FairAnswer(x, v[x], S, provided, h)
  <2>1. MaxDepth + 1 \in D
    BY <1>0, <1>4
  <2> QED
    BY <1>0, <2>1
<1> QED
  BY <1>5 DEF v

\* Who can act is accepted, where no account refers back to itself and the
\* references are not deeper than the limit.
THEOREM CanActAccepted ==
    ASSUME NEW t, GoodTable(t), Shallow(t), NEW keys \in SUBSET Key,
           NEW provided \in SUBSET Account, NEW delay \in Nat,
           NEW a \in Granted(t, keys, provided, delay)
    PROVE  Accepts(t, a, keys, provided, delay)
<1> DEFINE S == Granted(t, keys, provided, delay)
           q == FirstQuestion(a, provided, {})
<1>1. S \subseteq Account /\ provided \subseteq S /\ Supported(t, keys, S, provided, delay)
  BY GrantedFacts DEF Supported
<1>2. a \in Account /\ a \in S
  BY <1>1
<1>3. PICK h : IsHeight(h, t)
  BY DEF Shallow, IsHeight
<1>4. q \in Question
  BY <1>2, FirstQuestionType
<1> HIDE DEF S
<1>5. FairAnswer(q, Visit(t, keys, delay)[q], S, provided, h)
  BY <1>1, <1>3, <1>4, VisitComplete
<1>6. Fair(q, S, provided, h)
  <2>1. h[a] \in 0 .. MaxDepth - 1 /\ MaxDepth \in Nat
    BY <1>2, <1>3, AuthorityAssumption DEF IsHeight
  <2> QED
    BY <2>1 DEF Fair, FairCache, Open, FirstQuestion
<1>7. q.of = a
  BY DEF FirstQuestion
<1>8. Visit(t, keys, delay)[q].ok
  BY <1>2, <1>5, <1>6, <1>7 DEF FairAnswer
<1> QED
  BY <1>8, SatisfiedVisits DEF Accepts, FirstQuestion

-----------------------------------------------------------------------------
(* check_authorization. *)

Known(provided) == [a \in provided |-> "satisfied"]
InOrder(declared) ==
    [n \in 1 .. Cardinality(declared) |->
        CHOOSE a \in declared : Cardinality({b \in declared : b < a}) = n - 1]

\* Every declared account comes once.
LEMMA InOrderLists ==
    ASSUME NEW declared \in SUBSET Account
    PROVE  /\ Cardinality(declared) \in Nat
           /\ \A n \in 1 .. Cardinality(declared) : InOrder(declared)[n] \in declared
           /\ \A a \in declared : \E n \in 1 .. Cardinality(declared) : a = InOrder(declared)[n]
<1> DEFINE R == {p \in declared \X declared : p[1] < p[2]}
           rank(a) == Cardinality(Below(R, declared, a))
           N == Cardinality(declared)
<1>0. IsFiniteSet(declared) /\ declared \subseteq Nat /\ N \in Nat
  <2>1. IsFiniteSet(declared) /\ declared \subseteq Nat
    BY AuthorityAssumption, FS_Subset
  <2> QED
    BY <2>1, FS_CardinalityType
<1>1. \A a \in declared : {b \in declared : b < a} = Below(R, declared, a)
  BY DEF Below
<1>2. IsOrder(R, declared)
  <2>1. \A a, b \in declared : <<a, b>> \in R <=> a < b
    OBVIOUS
  <2> HIDE DEF R
  <2> QED
    BY <1>0, <2>1 DEF IsOrder
<1> HIDE DEF R
<1>3. /\ \A a, b \in declared : rank(a) = rank(b) => a = b
      /\ \A n \in 1 .. N : \E a \in declared : rank(a) = n - 1
      /\ \A a \in declared : rank(a) + 1 \in 1 .. N
  BY <1>0, <1>2, PlacesInOrder
<1>4. \A a \in declared : rank(a) \in Nat
  <2>1. \A a \in declared : Below(R, declared, a) \in SUBSET declared
    BY DEF Below
  <2> QED
    BY <1>0, <2>1, FS_CardinalityType, FS_Subset
<1> HIDE DEF rank, N
<1>5. ASSUME NEW n \in 1 .. N PROVE InOrder(declared)[n] \in declared /\ rank(InOrder(declared)[n]) = n - 1
  <2>1. InOrder(declared)[n] = CHOOSE a \in declared : Cardinality({b \in declared : b < a}) = n - 1
    BY DEF InOrder, N
  <2>2. \A a \in declared : Cardinality({b \in declared : b < a}) = rank(a)
    BY <1>1 DEF rank
  <2>3. \E a \in declared : Cardinality({b \in declared : b < a}) = n - 1
    BY <1>3, <2>2
  <2>4. InOrder(declared)[n] \in declared /\ Cardinality({b \in declared : b < InOrder(declared)[n]}) = n - 1
    BY <2>1, <2>3
  <2> QED
    BY <2>2, <2>4
<1>6. ASSUME NEW a \in declared PROVE \E n \in 1 .. N : a = InOrder(declared)[n]
  <2>1. rank(a) + 1 \in 1 .. N
    BY <1>3
  <2>2. rank(InOrder(declared)[rank(a) + 1]) = (rank(a) + 1) - 1 /\ InOrder(declared)[rank(a) + 1] \in declared
    BY <1>5, <2>1
  <2>3. rank(InOrder(declared)[rank(a) + 1]) = rank(a)
    BY <1>4, <2>2
  <2> QED
    BY <1>3, <2>1, <2>2, <2>3
<1> QED
  BY <1>0, <1>5, <1>6 DEF N

\* One declared account, and all of them.
CheckStep(t, declared, keys, provided, delay, run, n) ==
    IF n = 0 THEN [ok |-> TRUE, used |-> {}]
    ELSE LET s == run[n - 1]
             r == satisfied(t, keys, delay, InOrder(declared)[n], Known(provided), s.used)
         IN  [ok |-> s.ok /\ r.ok, used |-> r.used]
IsCheck(run, t, declared, keys, provided, delay) ==
    \A n \in 0 .. Cardinality(declared) : run[n] = CheckStep(t, declared, keys, provided, delay, run, n)

LEMMA CheckRuns ==
    ASSUME NEW t, NEW declared, NEW keys, NEW provided, NEW delay, Cardinality(declared) \in Nat
    PROVE  \E run : /\ IsCheck(run, t, declared, keys, provided, delay)
                    /\ check_authorization(t, declared, keys, provided, delay)
                         => run[Cardinality(declared)].ok
<1> DEFINE N == Cardinality(declared)
           Step(run, n) == CheckStep(t, declared, keys, provided, delay, run, n)
           Fine(run) == run = [n \in 0 .. N |-> Step(run, n)]
           D == {k \in Nat : \E run : \A n \in 0 .. k : run[n] = Step(run, n)}
<1>0. ASSUME NEW g, NEW h, NEW n \in Nat, n # 0 => g[n - 1] = h[n - 1] PROVE Step(g, n) = Step(h, n)
  BY <1>0 DEF CheckStep
<1>1. 0 \in D
  <2> DEFINE run == [n \in {0} |-> Step(<<>>, n)]
  <2>1. Step(run, 0) = Step(<<>>, 0)
    BY <1>0
  <2>2. \A n \in 0 .. 0 : run[n] = Step(run, n)
    BY <2>1
  <2> HIDE DEF run, Step
  <2> QED
    BY <2>2
<1>2. ASSUME NEW k \in Nat, k \in D PROVE k + 1 \in D
  <2>1. PICK g : \A n \in 0 .. k : g[n] = Step(g, n)
    BY <1>2
  <2> DEFINE h == [n \in 0 .. k + 1 |-> IF n <= k THEN g[n] ELSE Step(g, n)]
  <2> HIDE DEF Step
  <2>2. ASSUME NEW n \in 0 .. k + 1 PROVE h[n] = Step(h, n)
    <3>1. n # 0 => h[n - 1] = g[n - 1]
      OBVIOUS
    <3>2. Step(h, n) = Step(g, n)
      BY <1>0, <3>1
    <3> QED
      BY <2>1, <3>2
  <2> HIDE DEF h
  <2> QED
    BY <2>2
<1> HIDE DEF Step
<1>3. Nat \subseteq D
  <2> HIDE DEF D
  <2> QED
    BY <1>1, <1>2, SetInduction
<1>4. PICK g : \A n \in 0 .. N : g[n] = Step(g, n)
  BY <1>3
<1> DEFINE h == [n \in 0 .. N |-> g[n]]
<1>5. ASSUME NEW n \in 0 .. N PROVE h[n] = Step(h, n)
  <2>1. n # 0 => h[n - 1] = g[n - 1]
    OBVIOUS
  <2>2. Step(h, n) = Step(g, n)
    BY <1>0, <2>1
  <2> QED
    BY <1>4, <2>2
<1>6. Fine(h)
  BY <1>5
<1> HIDE DEF h
<1>7. Fine(CHOOSE run : Fine(run))
  BY <1>6, Zenon
<1>8. check_authorization(t, declared, keys, provided, delay) => (CHOOSE run : Fine(run))[N].ok
  BY Zenon DEF check_authorization, Step, CheckStep, InOrder, Known
<1>9. PICK run : run = CHOOSE f : Fine(f)
  OBVIOUS
<1>10. IsCheck(run, t, declared, keys, provided, delay)
  BY <1>7, <1>9 DEF IsCheck, Step
<1> QED
  BY <1>8, <1>9, <1>10

\* A transaction passes only if every account it declares can act with the keys
\* and permissions provided.
THEOREM CheckedCanAct ==
    ASSUME NEW t, GoodTable(t), NEW declared \in SUBSET Account, NEW keys \in SUBSET Key,
           NEW provided \in SUBSET Account, NEW delay \in Nat,
           check_authorization(t, declared, keys, provided, delay)
    PROVE  declared \subseteq Granted(t, keys, provided, delay)
<1> DEFINE S == Granted(t, keys, provided, delay)
           v == Visit(t, keys, delay)
           N == Cardinality(declared)
           q(n, u) == FirstQuestion(InOrder(declared)[n], provided, u)
<1>1. provided \subseteq S /\ Closed(t, keys, S, delay)
  BY GrantedFacts DEF Closed
<1> HIDE DEF S
<1>2. /\ N \in Nat
      /\ \A n \in 1 .. N : InOrder(declared)[n] \in declared
      /\ \A a \in declared : \E n \in 1 .. N : a = InOrder(declared)[n]
  BY InOrderLists
<1>3. PICK run : IsCheck(run, t, declared, keys, provided, delay) /\ run[N].ok
  BY <1>2, CheckRuns
<1>4. ASSUME NEW n \in 1 .. N, NEW u \in SUBSET Key
      PROVE  v[q(n, u)] \in Answers /\ (v[q(n, u)].ok => InOrder(declared)[n] \in S)
  <2>1. InOrder(declared)[n] \in Account
    BY <1>2
  <2>2. [p \in provided |-> "satisfied"] \in [provided -> Status]
    BY DEF Status
  <2>3. [p \in provided |-> "satisfied"] \in Cache
    BY <2>2, Zenon DEF Cache
  <2>4. q(n, u) \in Question
    BY <2>1, <2>3, AuthorityAssumption DEF FirstQuestion, Question
  <2>5. SoundAnswer(q(n, u), v[q(n, u)], S)
    BY <1>1, <2>4, VisitSound
  <2>6. SoundCache(q(n, u).cache, S) /\ q(n, u).of = InOrder(declared)[n] /\ q(n, u).depth = 0
    BY <1>1 DEF SoundCache, FirstQuestion
  <2>7. v[q(n, u)] \in Answers
    <3>1. \A y \in Question : v[y] = answer(v, t, keys, delay, y)
      <4>1. IsVisit(v, t, keys, delay)
        BY VisitExists
      <4> HIDE DEF v
      <4> QED
        BY <4>1, Zenon DEF IsVisit
    <3>2. TypedBelow(v, 0)
      BY VisitType
    <3> HIDE DEF v
    <3> QED
      BY <2>4, <2>6, <3>1, <3>2, AnswerType
  <2> QED
    BY <2>5, <2>6, <2>7 DEF SoundAnswer
<1> HIDE DEF v
<1> DEFINE Good(n) == /\ run[n].used \in SUBSET Key
                      /\ run[n].ok => \A k \in 1 .. n : InOrder(declared)[k] \in S
           D == {n \in Nat : n <= N => Good(n)}
<1>5. 0 \in D
  <2>0. 0 \in 0 .. N
    BY <1>2
  <2>1. run[0] = CheckStep(t, declared, keys, provided, delay, run, 0)
    BY <1>3, <2>0 DEF IsCheck
  <2>t. CheckStep(t, declared, keys, provided, delay, run, 0) = [ok |-> TRUE, used |-> {}]
    BY Zenon DEF CheckStep
  <2>2. run[0].used \in SUBSET Key
    BY <2>1, <2>t
  <2> QED
    BY <2>2
<1>6. ASSUME NEW n \in Nat, n \in D PROVE n + 1 \in D
  <2> SUFFICES ASSUME n + 1 <= N PROVE Good(n + 1)
    OBVIOUS
  <2>1. Good(n) /\ n + 1 \in 0 .. N /\ n + 1 \in 1 .. N /\ n + 1 # 0 /\ (n + 1) - 1 = n
    BY <1>2, <1>6
  <2>2. PICK r : r = v[q(n + 1, run[n].used)]
    OBVIOUS
  <2>3. satisfied(t, keys, delay, InOrder(declared)[n + 1], Known(provided), run[n].used) = r
    BY <2>2, SatisfiedVisits, Zenon DEF v, FirstQuestion, Known
  <2>4. run[n + 1] = [ok |-> run[n].ok /\ r.ok, used |-> r.used]
    BY <1>3, <2>1, <2>3 DEF IsCheck, CheckStep
  <2>5. r \in Answers /\ (r.ok => InOrder(declared)[n + 1] \in S)
    BY <1>4, <2>1, <2>2
  <2>6. r.used \in SUBSET Key
    BY <2>5 DEF Answers
  <2>7. \A k \in 1 .. n + 1 : k \in 1 .. n \/ k = n + 1
    OBVIOUS
  <2>8. run[n + 1].used = r.used /\ (run[n + 1].ok => run[n].ok /\ r.ok)
    <3>1. PICK ok : ok = (run[n].ok /\ r.ok)
      OBVIOUS
    <3>2. run[n + 1] = [ok |-> ok, used |-> r.used]
      BY <2>4, <3>1, Zenon
    <3>3. run[n + 1].used = r.used /\ run[n + 1].ok = ok
      BY <3>2
    <3>4. ok => run[n].ok /\ r.ok
      BY <3>1, Zenon
    <3> QED
      BY <3>3, <3>4, Zenon
  <2>9. run[n + 1].used \in SUBSET Key
    BY <2>6, <2>8
  <2>10. run[n + 1].ok => \A k \in 1 .. n + 1 : InOrder(declared)[k] \in S
    BY <2>1, <2>5, <2>7, <2>8
  <2> QED
    BY <2>9, <2>10
<1>7. Nat \subseteq D
  <2> HIDE DEF D
  <2> QED
    BY <1>5, <1>6, SetInduction
<1>8. Good(N)
  <2> HIDE DEF Good
  <2> QED
    BY <1>2, <1>7
<1>9. declared \subseteq S
  BY <1>2, <1>3, <1>8
<1> QED
  BY <1>9 DEF S

-----------------------------------------------------------------------------
(* The contract. *)

LEMMA MsigConstants ==
    /\ GoodTable(Initial) /\ Proposer \subseteq Account /\ Delays \subseteq Nat
    /\ \A S \in Asked : S \in Levels
    /\ \A u \in Updates : u.account \in Account /\ IsAuthority(u.auth)
    /\ \A u \in Drafts : u \in Updates
    /\ Lifetime \in Nat /\ MaxTime \in Nat /\ MaxChanges \in Nat
BY MsigAssumption DEF GoodTable, Levels

\* The parts of the state have their types.
TableOK == GoodTable(table)
ProposalsOK == DOMAIN proposal \subseteq Id /\ \A i \in DOMAIN proposal : proposal[i] \in Proposal
Waiting == [trx : Transaction, delay_until : Nat, serial : 1 .. MaxChanges]
DeferredOK == DOMAIN deferred \subseteq Id /\ \A i \in DOMAIN deferred : deferred[i] \in Waiting
CountersOK == now \in 0 .. MaxTime /\ {updates, serial, updates + serial} \subseteq 0 .. MaxChanges
ConsentOK == consent \in [1 .. MaxChanges -> Levels]

LEMMA TypeParts == TypeOK <=> TableOK /\ ProposalsOK /\ DeferredOK /\ CountersOK /\ ConsentOK
BY DEF TypeOK, TableOK, GoodTable, ProposalsOK, Waiting, DeferredOK, CountersOK, ConsentOK

LEMMA WithoutFacts ==
    ASSUME NEW f, NEW k
    PROVE  /\ DOMAIN Without(f, k) = DOMAIN f \ {k}
           /\ \A i \in DOMAIN Without(f, k) : Without(f, k)[i] = f[i]
BY DEF Without

\* A list of levels stays one when a name is added or one that it has is erased.
LEMMA LevelsChange ==
    /\ Nobody \in Levels
    /\ \A f \in Levels, a \in Account, n \in Nat : [f EXCEPT ![a] = n] \in Levels
    /\ \A f \in Levels, a \in Account : f[a] \in Nat /\ f[a] + 1 \in Nat /\ (f[a] > 0 => f[a] - 1 \in Nat)
BY DEF Levels, Nobody

\* Every proposal keeps as its approvals exactly the consent to it: no two have
\* the same number, and there is no consent to proposals not yet made.
Consents ==
    /\ \A i \in DOMAIN proposal :
          proposal[i].serial <= serial /\ proposal[i].provided = consent[proposal[i].serial]
    /\ \A i, j \in DOMAIN proposal : proposal[i].serial = proposal[j].serial => i = j
    /\ \A n \in 1 .. MaxChanges : n > serial => consent[n] = Nobody

\* What approve and unapprove do to the levels of a proposal and the consent to it.
LEMMA ApprovalMoves ==
    ASSUME ProposalsOK, ConsentOK, Consents, NEW i \in Id, NEW a \in Account, approve(i, a) \/ unapprove(i, a)
    PROVE  /\ i \in DOMAIN proposal /\ proposal[i] \in Proposal
           /\ \E P, R \in Levels :
                /\ proposal' = [proposal EXCEPT ![i] = [proposal[i] EXCEPT !.provided = P, !.requested = R]]
                /\ consent' = [consent EXCEPT ![proposal[i].serial] = P]
           /\ UNCHANGED <<table, deferred, now, updates, serial>>
<1>1. i \in DOMAIN proposal /\ proposal[i] \in Proposal /\ consent[proposal[i].serial] = proposal[i].provided
  BY DEF approve, unapprove, ProposalsOK, Consents
<1> DEFINE p == proposal[i]
<1>2. p.provided \in Levels /\ p.requested \in Levels /\ p.serial \in 1 .. MaxChanges
  BY <1>1 DEF Proposal
<1>3. CASE approve(i, a)
  <2> DEFINE P == [p.provided EXCEPT ![a] = p.provided[a] + 1]
             R == [p.requested EXCEPT ![a] = p.requested[a] - 1]
  <2>1. P \in Levels /\ R \in Levels
    <3>1. p.requested[a] > 0
      BY <1>3 DEF approve
    <3> HIDE DEF p
    <3> QED
      BY <1>2, <3>1, LevelsChange
  <2>2. /\ proposal' = [proposal EXCEPT ![i] = [p EXCEPT !.provided = P, !.requested = R]]
        /\ consent' = [consent EXCEPT ![p.serial] = P]
        /\ UNCHANGED <<table, deferred, now, updates, serial>>
    BY <1>1, <1>3 DEF approve, Proposal
  <2> HIDE DEF P, R
  <2> QED
    BY <1>1, <2>1, <2>2
<1>4. CASE unapprove(i, a)
  <2> DEFINE P == [p.provided EXCEPT ![a] = p.provided[a] - 1]
             R == [p.requested EXCEPT ![a] = p.requested[a] + 1]
  <2>1. P \in Levels /\ R \in Levels
    <3>1. p.provided[a] > 0
      BY <1>4 DEF unapprove
    <3> HIDE DEF p
    <3> QED
      BY <1>2, <3>1, LevelsChange
  <2>2. /\ proposal' = [proposal EXCEPT ![i] = [p EXCEPT !.provided = P, !.requested = R]]
        /\ consent' = [consent EXCEPT ![p.serial] = P]
        /\ UNCHANGED <<table, deferred, now, updates, serial>>
    BY <1>1, <1>4 DEF unapprove, Withdrawn, Proposal
  <2> HIDE DEF P, R
  <2> QED
    BY <1>1, <2>1, <2>2
<1> QED
  BY <1>3, <1>4

\* An update leaves good authorities.
LEMMA UpdatedGood ==
    ASSUME TableOK, NEW a \in Account, NEW auth, IsAuthority(auth)
    PROVE  GoodTable(Updated(a, auth))
BY DEF TableOK, GoodTable, IsTable, Updated

LEMMA TypeInit == Init => TypeOK
<1> SUFFICES ASSUME Init PROVE TableOK /\ ProposalsOK /\ DeferredOK /\ CountersOK /\ ConsentOK
  BY TypeParts
<1>1. TableOK
  BY MsigConstants DEF Init, TableOK
<1>2. ProposalsOK /\ DeferredOK
  BY DEF Init, ProposalsOK, DeferredOK
<1>3. CountersOK /\ ConsentOK
  BY MsigConstants, LevelsChange DEF Init, CountersOK, ConsentOK
<1> QED
  BY <1>1, <1>2, <1>3

LEMMA TypeNext == TypeOK /\ Consents /\ [Next]_vars => TypeOK'
<1> SUFFICES ASSUME TableOK, ProposalsOK, DeferredOK, CountersOK, ConsentOK, Consents, [Next]_vars
             PROVE  TableOK' /\ ProposalsOK' /\ DeferredOK' /\ CountersOK' /\ ConsentOK'
  BY TypeParts, PTL
<1> USE MsigConstants
<1>0. serial \in Nat /\ updates \in Nat /\ now \in Nat /\ serial <= MaxChanges
  BY DEF CountersOK
<1>1. ASSUME NEW i \in Id, NEW S \in Asked, NEW u \in Drafts, NEW d \in Delays,
             propose(i, S, [account |-> u.account, auth |-> u.auth, delay |-> d, expiration |-> now + Lifetime])
      PROVE  TableOK' /\ ProposalsOK' /\ DeferredOK' /\ CountersOK' /\ ConsentOK'
  <2> DEFINE trx == [account |-> u.account, auth |-> u.auth, delay |-> d, expiration |-> now + Lifetime]
             p == [trx |-> trx, requested |-> S, provided |-> Nobody, serial |-> serial + 1]
  <2>1. trx \in Transaction
    BY <1>0 DEF Transaction
  <2>2. serial + 1 \in 1 .. MaxChanges /\ updates + (serial + 1) \in 0 .. MaxChanges
    BY <1>0, <1>1 DEF propose, CountersOK
  <2>3. p \in Proposal
    <3> HIDE DEF trx
    <3> QED
      BY <2>1, <2>2, LevelsChange DEF Proposal
  <2>4. proposal' = Put(proposal, i, p)
    BY <1>1 DEF propose
  <2> HIDE DEF p
  <2>5. ProposalsOK'
    BY <2>3, <2>4 DEF ProposalsOK, Put
  <2>6. /\ UNCHANGED <<table, deferred, now, updates, consent>> /\ serial' = serial + 1
    BY <1>1 DEF propose
  <2>7. CountersOK'
    BY <1>0, <2>2, <2>6 DEF CountersOK
  <2>8. TableOK' /\ DeferredOK' /\ ConsentOK'
    BY <2>6 DEF TableOK, DeferredOK, ConsentOK
  <2> QED
    BY <2>5, <2>7, <2>8
<1>2. ASSUME NEW i \in Id, NEW a \in Account, approve(i, a) \/ unapprove(i, a)
      PROVE  TableOK' /\ ProposalsOK' /\ DeferredOK' /\ CountersOK' /\ ConsentOK'
  <2>1. i \in DOMAIN proposal /\ proposal[i] \in Proposal /\ UNCHANGED <<table, deferred, now, updates, serial>>
    BY <1>2, ApprovalMoves
  <2>2. PICK P \in Levels, R \in Levels :
          /\ proposal' = [proposal EXCEPT ![i] = [proposal[i] EXCEPT !.provided = P, !.requested = R]]
          /\ consent' = [consent EXCEPT ![proposal[i].serial] = P]
    BY <1>2, ApprovalMoves
  <2>3. ProposalsOK'
    BY <2>1, <2>2 DEF ProposalsOK, Proposal
  <2>4. ConsentOK'
    BY <2>1, <2>2, LevelsChange DEF ConsentOK, Proposal
  <2> QED
    BY <2>1, <2>3, <2>4 DEF TableOK, DeferredOK, CountersOK
<1>4. ASSUME NEW i \in Id, NEW a \in Account, cancel(i, a)
      PROVE  TableOK' /\ ProposalsOK' /\ DeferredOK' /\ CountersOK' /\ ConsentOK'
  <2>1. i \in DOMAIN proposal /\ proposal[i] \in Proposal
    BY <1>4 DEF cancel, ProposalsOK
  <2>2. /\ proposal' = Without(proposal, i)
        /\ consent' = [consent EXCEPT ![proposal[i].serial] = Nobody]
        /\ UNCHANGED <<table, deferred, now, updates, serial>>
    BY <1>4 DEF cancel
  <2>3. ProposalsOK'
    BY <2>2, WithoutFacts DEF ProposalsOK
  <2>4. ConsentOK'
    BY <2>1, <2>2, LevelsChange DEF ConsentOK, Proposal
  <2> QED
    BY <2>2, <2>3, <2>4 DEF TableOK, DeferredOK, CountersOK
<1>5. ASSUME NEW i \in Id, exec(i)
      PROVE  TableOK' /\ ProposalsOK' /\ DeferredOK' /\ CountersOK' /\ ConsentOK'
  <2>1. i \in DOMAIN proposal /\ proposal[i] \in Proposal
    BY <1>5 DEF exec, ProposalsOK
  <2> DEFINE e == [trx |-> proposal[i].trx, delay_until |-> now + proposal[i].trx.delay, serial |-> proposal[i].serial]
  <2>2. /\ proposal' = Without(proposal, i)
        /\ deferred' = Put(deferred, i, e)
        /\ consent' = [consent EXCEPT ![proposal[i].serial] = Nobody]
        /\ UNCHANGED <<table, now, updates, serial>>
    BY <1>5 DEF exec
  <2>3. ProposalsOK'
    BY <2>2, WithoutFacts DEF ProposalsOK
  <2>4. ConsentOK'
    BY <2>1, <2>2, LevelsChange DEF ConsentOK, Proposal
  <2>5. e \in Waiting
    <3>1. proposal[i].trx \in Transaction /\ proposal[i].serial \in 1 .. MaxChanges
      BY <2>1 DEF Proposal
    <3>2. proposal[i].trx.delay \in Nat
      BY <3>1 DEF Transaction
    <3> QED
      BY <1>0, <3>1, <3>2 DEF Waiting
  <2> HIDE DEF e
  <2>6. DeferredOK'
    BY <2>2, <2>5 DEF DeferredOK, Put
  <2> QED
    BY <2>2, <2>3, <2>4, <2>6 DEF TableOK, CountersOK
<1>6. ASSUME NEW i \in Id, push_scheduled_transaction(i)
      PROVE  TableOK' /\ ProposalsOK' /\ DeferredOK' /\ CountersOK' /\ ConsentOK'
  <2>1. i \in DOMAIN deferred /\ deferred[i] \in Waiting
    BY <1>6 DEF push_scheduled_transaction, DeferredOK
  <2>2. /\ deferred' = Without(deferred, i)
        /\ table' = Updated(deferred[i].trx.account, deferred[i].trx.auth)
        /\ UNCHANGED <<proposal, now, updates, serial, consent>>
    BY <1>6 DEF push_scheduled_transaction
  <2>3. deferred[i].trx.account \in Account /\ IsAuthority(deferred[i].trx.auth)
    BY <2>1 DEF Waiting, Transaction
  <2>4. TableOK'
    BY <2>2, <2>3, UpdatedGood DEF TableOK
  <2>5. DeferredOK'
    BY <2>2, WithoutFacts DEF DeferredOK
  <2> QED
    BY <2>2, <2>4, <2>5 DEF ProposalsOK, CountersOK, ConsentOK
<1>7. ASSUME NEW u \in Updates, updateauth(u.account, u.auth)
      PROVE  TableOK' /\ ProposalsOK' /\ DeferredOK' /\ CountersOK' /\ ConsentOK'
  <2>1. /\ updates + serial < MaxChanges /\ updates' = updates + 1
        /\ table' = Updated(u.account, u.auth)
        /\ UNCHANGED <<proposal, deferred, now, serial, consent>>
    BY <1>7 DEF updateauth
  <2>2. TableOK'
    BY <2>1, UpdatedGood DEF TableOK
  <2>3. CountersOK'
    BY <1>0, <2>1 DEF CountersOK
  <2> QED
    BY <2>1, <2>2, <2>3 DEF ProposalsOK, DeferredOK, ConsentOK
<1>8. CASE Tick
  <2>1. now < MaxTime /\ now' = now + 1 /\ UNCHANGED <<table, proposal, deferred, updates, serial, consent>>
    BY <1>8 DEF Tick
  <2>2. CountersOK'
    BY <1>0, <2>1 DEF CountersOK
  <2> QED
    BY <2>1, <2>2 DEF TableOK, ProposalsOK, DeferredOK, ConsentOK
<1>9. CASE UNCHANGED vars
  BY <1>9 DEF vars, TableOK, ProposalsOK, DeferredOK, CountersOK, ConsentOK
<1> QED
  BY <1>1, <1>2, <1>4, <1>5, <1>6, <1>7, <1>8, <1>9 DEF Next

LEMMA ConsentsInit == Init => Consents
BY MsigConstants DEF Init, Consents

LEMMA ConsentsNext == TypeOK /\ Consents /\ [Next]_vars => Consents'
<1> SUFFICES ASSUME TableOK, ProposalsOK, DeferredOK, CountersOK, ConsentOK, Consents, [Next]_vars
             PROVE  Consents'
  BY TypeParts
<1> USE MsigConstants
<1>0. serial \in Nat /\ \A i \in DOMAIN proposal : proposal[i].serial \in 1 .. MaxChanges
  BY DEF CountersOK, ProposalsOK, Proposal
<1>1. ASSUME NEW i \in Id, NEW S, NEW trx, propose(i, S, trx)
      PROVE  Consents'
  <2> DEFINE p == [trx |-> trx, requested |-> S, provided |-> Nobody, serial |-> serial + 1]
  <2>1. /\ proposal' = Put(proposal, i, p) /\ i \notin DOMAIN proposal
        /\ serial' = serial + 1 /\ consent' = consent /\ updates + serial < MaxChanges
    BY <1>1 DEF propose
  <2>2. serial + 1 \in 1 .. MaxChanges /\ consent[serial + 1] = Nobody
    <3>1. serial + 1 \in 1 .. MaxChanges
      BY <1>0, <2>1 DEF CountersOK
    <3>2. serial + 1 > serial
      BY <1>0
    <3> QED
      BY <3>1, <3>2 DEF Consents
  <2>3. p.serial = serial + 1 /\ p.provided = Nobody
    OBVIOUS
  <2> HIDE DEF p
  <2>4. DOMAIN proposal' = DOMAIN proposal \cup {i} /\ proposal'[i] = p /\ \A k \in DOMAIN proposal : proposal'[k] = proposal[k]
    BY <2>1 DEF Put
  <2>5. \A k \in DOMAIN proposal' : proposal'[k].serial <= serial' /\ proposal'[k].provided = consent'[proposal'[k].serial]
    <3>1. proposal'[i].serial <= serial' /\ proposal'[i].provided = consent'[proposal'[i].serial]
      <4>1. proposal'[i].serial = serial + 1 /\ proposal'[i].provided = Nobody
        BY <2>3, <2>4, Zenon
      <4>2. consent'[proposal'[i].serial] = Nobody
        BY <2>1, <2>2, <4>1, Zenon
      <4>3. proposal'[i].provided = consent'[proposal'[i].serial]
        BY <4>1, <4>2, Zenon
      <4> QED
        BY <1>0, <2>1, <4>1, <4>3
    <3>2. \A k \in DOMAIN proposal : proposal[k].serial <= serial + 1 /\ proposal[k].provided = consent[proposal[k].serial]
      BY <1>0 DEF Consents
    <3> QED
      BY <2>1, <2>4, <3>1, <3>2
  <2>6. \A k, l \in DOMAIN proposal' : proposal'[k].serial = proposal'[l].serial => k = l
    BY <1>0, <2>3, <2>4 DEF Consents
  <2>7. \A n \in 1 .. MaxChanges : n > serial' => consent'[n] = Nobody
    BY <1>0, <2>1 DEF Consents
  <2> QED
    BY <2>5, <2>6, <2>7 DEF Consents
<1>2. ASSUME NEW i \in DOMAIN proposal, NEW S, DOMAIN proposal' = DOMAIN proposal,
             proposal'[i].serial = proposal[i].serial, proposal'[i].provided = S,
             \A k \in DOMAIN proposal : k # i => proposal'[k] = proposal[k],
             consent' = [consent EXCEPT ![proposal[i].serial] = S], serial' = serial
      PROVE  Consents'
  <2>1. \A k \in DOMAIN proposal' : proposal'[k].serial = proposal[k].serial
    BY <1>2
  <2>2. consent'[proposal[i].serial] = S /\ \A n \in 1 .. MaxChanges : n # proposal[i].serial => consent'[n] = consent[n]
    BY <1>0, <1>2 DEF ConsentOK
  <2>3. \A k \in DOMAIN proposal' : proposal'[k].serial <= serial' /\ proposal'[k].provided = consent'[proposal'[k].serial]
    BY <1>0, <1>2, <2>1, <2>2 DEF Consents
  <2>4. \A k, l \in DOMAIN proposal' : proposal'[k].serial = proposal'[l].serial => k = l
    BY <1>2, <2>1 DEF Consents
  <2>5. \A n \in 1 .. MaxChanges : n > serial' => consent'[n] = Nobody
    BY <1>0, <1>2, <2>2 DEF Consents
  <2> QED
    BY <2>3, <2>4, <2>5 DEF Consents
<1>3. ASSUME NEW i \in DOMAIN proposal, proposal' = Without(proposal, i),
             consent' = [consent EXCEPT ![proposal[i].serial] = Nobody], serial' = serial
      PROVE  Consents'
  <2>1. DOMAIN proposal' = DOMAIN proposal \ {i} /\ \A k \in DOMAIN proposal' : proposal'[k] = proposal[k]
    BY <1>3, WithoutFacts
  <2>2. consent'[proposal[i].serial] = Nobody /\ \A n \in 1 .. MaxChanges : n # proposal[i].serial => consent'[n] = consent[n]
    BY <1>0, <1>3 DEF ConsentOK
  <2>3. \A k \in DOMAIN proposal' : proposal'[k].serial <= serial' /\ proposal'[k].provided = consent'[proposal'[k].serial]
    BY <1>0, <1>3, <2>1, <2>2 DEF Consents
  <2>4. \A k, l \in DOMAIN proposal' : proposal'[k].serial = proposal'[l].serial => k = l
    BY <2>1 DEF Consents
  <2>5. \A n \in 1 .. MaxChanges : n > serial' => consent'[n] = Nobody
    BY <1>0, <1>3, <2>2 DEF Consents
  <2> QED
    BY <2>3, <2>4, <2>5 DEF Consents
<1>4. ASSUME NEW i \in Id, NEW a \in Account, approve(i, a) \/ unapprove(i, a) PROVE Consents'
  <2>1. i \in DOMAIN proposal /\ proposal[i] \in Proposal /\ serial' = serial
    BY <1>4, ApprovalMoves
  <2>2. PICK P \in Levels, R \in Levels :
          /\ proposal' = [proposal EXCEPT ![i] = [proposal[i] EXCEPT !.provided = P, !.requested = R]]
          /\ consent' = [consent EXCEPT ![proposal[i].serial] = P]
    BY <1>4, ApprovalMoves
  <2>3. /\ DOMAIN proposal' = DOMAIN proposal /\ proposal'[i].serial = proposal[i].serial
        /\ proposal'[i].provided = P
        /\ \A k \in DOMAIN proposal : k # i => proposal'[k] = proposal[k]
    BY <2>1, <2>2 DEF Proposal
  <2> QED
    BY <1>2, <2>1, <2>2, <2>3
<1>6. ASSUME NEW i \in Id, NEW a \in Account, cancel(i, a) PROVE Consents'
  BY <1>3, <1>6 DEF cancel
<1>7. ASSUME NEW i \in Id, exec(i) PROVE Consents'
  BY <1>3, <1>7 DEF exec
<1>8. ASSUME UNCHANGED <<proposal, serial, consent>> PROVE Consents'
  BY <1>8 DEF Consents
<1>9. ASSUME NEW i \in Id, push_scheduled_transaction(i) PROVE Consents'
  BY <1>8, <1>9 DEF push_scheduled_transaction
<1>10. ASSUME NEW u \in Updates, updateauth(u.account, u.auth) PROVE Consents'
  BY <1>8, <1>10 DEF updateauth
<1>11. CASE Tick
  BY <1>8, <1>11 DEF Tick
<1>12. CASE UNCHANGED vars
  BY <1>8, <1>12 DEF vars
<1> QED
  BY <1>1, <1>4, <1>6, <1>7, <1>9, <1>10, <1>11, <1>12 DEF Next

\* The types hold, with valid authorities, and the approvals a proposal keeps, a
\* name that is there twice included, are those given and not withdrawn.
THEOREM MsigInvariant == Spec => [](TypeOK /\ Consents)
<1>1. Init => TypeOK /\ Consents
  BY TypeInit, ConsentsInit
<1>2. TypeOK /\ Consents /\ [Next]_vars => (TypeOK /\ Consents)'
  BY TypeNext, ConsentsNext
<1> QED
  BY <1>1, <1>2, PTL DEF Spec

LEMMA TypedTable == TypeOK => GoodTable(table)
BY TypeParts DEF TableOK

\* CheckerSound: whatever authorities the accounts have come to give each
\* other, satisfied accepts only who can show the weight.
THEOREM CheckerIsSound == Spec => []CheckerSound
<1>1. TypeOK => CheckerSound
  <2> SUFFICES ASSUME TypeOK, NEW k \in SUBSET Key, NEW p \in SUBSET Account, NEW d \in Delays
               PROVE  Accepted(table, k, p, d) \subseteq Granted(table, k, p, d)
    BY DEF CheckerSound
  <2>1. GoodTable(table) /\ d \in Nat
    BY TypedTable, MsigConstants
  <2> QED
    BY <2>1, AcceptedCanAct DEF Accepted
<1> QED
  BY <1>1, MsigInvariant, PTL

\* CheckerComplete: where the authorities of the accounts are shallow,
\* satisfied accepts everybody who can show the weight.
THEOREM CheckerIsComplete == Spec => []CheckerComplete
<1>1. TypeOK => CheckerComplete
  <2> SUFFICES ASSUME TypeOK, Shallow(table), NEW k \in SUBSET Key, NEW p \in SUBSET Account, NEW d \in Delays
               PROVE  Granted(table, k, p, d) \subseteq Accepted(table, k, p, d)
    BY DEF CheckerComplete
  <2>1. GoodTable(table) /\ d \in Nat
    BY TypedTable, MsigConstants
  <2>2. Granted(table, k, p, d) \subseteq Account
    BY <2>1, GrantedFacts
  <2> QED
    BY <2>1, <2>2, CanActAccepted DEF Accepted
<1> QED
  BY <1>1, MsigInvariant, PTL

\* The steps that change what waits.
LEMMA DeferredSteps ==
    ASSUME [Next]_vars
    PROVE  \/ deferred' = deferred
           \/ \E i \in Id : exec(i) \/ push_scheduled_transaction(i)
BY DEF Next, vars, propose, approve, unapprove, cancel, updateauth, Tick

\* SentConsented: exec sends a proposed transaction only with the consent of
\* accounts who together can act for its account under the authorities of that
\* moment, each of whom has given more approvals than it has withdrawn.
THEOREM SendsConsented == Spec => SentConsented
<1> DEFINE A == \A i \in New : deferred'[i].trx.account \in
                   Granted(table, {}, Named(consent[deferred'[i].serial]), deferred'[i].trx.delay)
<1>1. TypeOK /\ Consents /\ [Next]_vars => [A]_vars
  <2> SUFFICES ASSUME TypeOK, Consents, [Next]_vars, NEW i \in New
               PROVE  deferred'[i].trx.account \in
                        Granted(table, {}, Named(consent[deferred'[i].serial]), deferred'[i].trx.delay)
    OBVIOUS
  <2>1. CASE deferred' = deferred
    BY <2>1 DEF New
  <2>2. ASSUME NEW k \in Id, push_scheduled_transaction(k) PROVE FALSE
    <3>1. deferred' = Without(deferred, k)
      BY <2>2 DEF push_scheduled_transaction
    <3> QED
      BY <3>1, WithoutFacts DEF New
  <2>3. ASSUME NEW k \in Id, exec(k)
        PROVE  deferred'[i].trx.account \in
                 Granted(table, {}, Named(consent[deferred'[i].serial]), deferred'[i].trx.delay)
    <3> DEFINE e == [trx |-> proposal[k].trx, delay_until |-> now + proposal[k].trx.delay, serial |-> proposal[k].serial]
    <3>1. /\ k \in DOMAIN proposal /\ k \notin DOMAIN deferred
          /\ check_transaction_authorization(proposal[k].trx, Named(proposal[k].provided))
          /\ deferred' = Put(deferred, k, e)
      BY <2>3 DEF exec, MaySchedule
    <3>2. e.trx = proposal[k].trx /\ e.serial = proposal[k].serial
      OBVIOUS
    <3> HIDE DEF e
    <3>3. i = k /\ deferred'[k] = e
      BY <3>1 DEF New, Put
    <3>4. proposal[k] \in Proposal /\ proposal[k].provided = consent[proposal[k].serial]
      BY <3>1, TypeParts DEF ProposalsOK, Consents
    <3>5. /\ proposal[k].trx.account \in Account /\ proposal[k].trx.delay \in Nat
          /\ Named(proposal[k].provided) \in SUBSET Account
      <4>1. proposal[k].trx \in Transaction /\ Named(proposal[k].provided) \in SUBSET Account
        BY <3>4 DEF Proposal, Named
      <4> QED
        BY <4>1, MsigConstants DEF Transaction
    <3>6. {proposal[k].trx.account} \subseteq
             Granted(table, {}, Named(proposal[k].provided), proposal[k].trx.delay)
      <4>1. check_authorization(table, {proposal[k].trx.account}, {}, Named(proposal[k].provided), proposal[k].trx.delay)
        BY <3>1 DEF check_transaction_authorization
      <4> QED
        BY <3>5, <4>1, TypedTable, CheckedCanAct
    <3> QED
      BY <3>2, <3>3, <3>4, <3>6
  <2> QED
    BY <2>1, <2>2, <2>3, DeferredSteps
<1> QED
  BY <1>1, MsigInvariant, PTL DEF Spec, SentConsented

\* WaitsUntilDue: a transaction sent stays as it is until it is due.
THEOREM WaitingStays == Spec => WaitsUntilDue
<1> DEFINE A == \A i \in DOMAIN deferred :
                   \/ i \in DOMAIN deferred' /\ deferred'[i] = deferred[i]
                   \/ i \notin DOMAIN deferred' /\ deferred[i].delay_until <= now
<1>1. [Next]_vars => [A]_vars
  <2> SUFFICES ASSUME [Next]_vars PROVE A
    OBVIOUS
  <2>1. CASE deferred' = deferred
    BY <2>1
  <2>2. ASSUME NEW k \in Id, push_scheduled_transaction(k) PROVE A
    <3>1. deferred' = Without(deferred, k) /\ deferred[k].delay_until <= now
      BY <2>2 DEF push_scheduled_transaction
    <3> QED
      BY <3>1, WithoutFacts
  <2>3. ASSUME NEW k \in Id, exec(k) PROVE A
    <3>1. PICK e : deferred' = Put(deferred, k, e)
      BY <2>3 DEF exec
    <3>2. k \notin DOMAIN deferred
      BY <2>3 DEF exec, MaySchedule
    <3> QED
      BY <3>1, <3>2 DEF Put
  <2> QED
    BY <2>1, <2>2, <2>3, DeferredSteps
<1> QED
  BY <1>1, PTL DEF Spec, WaitsUntilDue
===============================================================================
