------------------------------ MODULE DposProofs ------------------------------
(***************************************************************************)
(* Proofs about header states: on one chain (DposHeader) and on the forks  *)
(* that producers make (Finality), for chains of every length and          *)
(* schedules of every content.                                             *)
(*                                                                         *)
(* Most of what is proved of one chain is about schedules of one size      *)
(* (OneSize): without it the counts of confirmations mean nothing, as the  *)
(* run dpos_shrink shows.  What the invariant IInv adds to the properties  *)
(* is why they hold: which blocks a producer may have confirmed already,   *)
(* given what the header remembers of it (Confirmed), across the changes   *)
(* of schedule that forget some producers and add others; how many         *)
(* producers may lag behind the irreversible block (Irreversible); and     *)
(* that a number implied above it was built on (Builds).                   *)
(*                                                                         *)
(* On forks, FInv says which of a producer's blocks its watermark stands   *)
(* for (MarkInv) and on whose chain its node is (HeadInv); SInv adds, for  *)
(* chains that keep their schedule, that a header counts no confirmation   *)
(* that is not on its chain (Steadily) and how many blocks may confirm one *)
(* number (CountInv).                                                      *)
(***************************************************************************)
EXTENDS DposHeader, Finality, Induction, FiniteSetTheorems, SequenceTheorems, TLAPS

\* Who confirmed which block, in which block, naming how many.
Event == Producer \X Nat \X Nat
Conf == [1 .. MaxBlock -> {S \in SUBSET Event : IsFiniteSet(S)}]

\* The number of producers of every schedule.
Size == Len(FirstSchedule)

\* Schedules have one size.
OneSize == \A s \in Schedules : Len(s) = Size

\* A list of producers that may be a schedule.
GoodList(s) == s \in Seq(Producer) /\ IsInjective(s) /\ Len(s) = Size

\* How many producers may be behind the last irreversible block.
Third == (Size - 1) \div 3

\* How many confirmations propose a block.
Needed == (Size * 2) \div 3 + 1

\* The header is one, of a block within the bound.
Types(h) ==
    /\ IsHeader(h) /\ h.num >= 1
    /\ h.num > 1 => h.num <= MaxBlock

\* The lists of producers it holds are schedules.
Lists(h) ==
    /\ GoodList(h.active.producers)
    /\ h.pending.producers # <<>> => GoodList(h.pending.producers)

\* The maps have the producers of the active schedule, but before the first block.
Maps(h) ==
    IF h.num = 1
    THEN /\ h.produced = <<>> /\ h.implied = <<>>
         /\ h.pending.producers # <<>> /\ h.pending_lib = 0 /\ h.dpos = 0
    ELSE /\ ToSet(h.active.producers) \subseteq DOMAIN h.produced
         /\ ToSet(h.active.producers) = DOMAIN h.implied

\* At most a third of the producers built their last block where the last
\* irreversible block was not proposed yet.
Low(f, v) == {p \in DOMAIN f : f[p] < v}
UpTo(f, v) == {p \in DOMAIN f : f[p] <= v}
Irreversible(h) ==
    /\ Cardinality(Low(h.implied, h.lib)) <= Third
    /\ \A q \in DOMAIN h.implied : h.implied[q] <= h.dpos
    /\ h.lib <= h.dpos /\ h.dpos <= h.num - Len(h.counts)

\* The window of counts: each the number of confirmations its block lacks.
Lacks(cc, num, conf) ==
    \A i \in 1 .. Len(cc) : cc[i] >= 1 /\ cc[i] + Cardinality(conf[num - Len(cc) + i]) = Needed
Lacking(h, conf) == Lacks(h.counts, h.num, conf)

\* Whom the header remembers has confirmed nothing above the number remembered;
\* whom it does not, nothing above the block that made a schedule pending.
Confirmed(h, conf) ==
    \A n \in 1 .. MaxBlock : \A e \in conf[n] :
        /\ n <= h.num /\ e[2] <= h.num
        /\ e[1] \in DOMAIN h.produced => n <= h.produced[e[1]]
        /\ e[1] \notin DOMAIN h.produced /\ h.pending.producers # <<>> => n <= h.pending_lib

\* The proposed block has the confirmations.
Proposing(h, conf) == h.dpos > 0 => Cardinality(conf[h.dpos]) >= Needed

\* The invariant of a header, given who confirmed what, and of the state.
HInv(h, conf) ==
    /\ Types(h) /\ Lists(h) /\ Maps(h) /\ Irreversible(h)
    /\ Lacking(h, conf) /\ Confirmed(h, conf) /\ Proposing(h, conf)

\* A producer confirms a block again only by a header that wraps the check.
Distinct(conf) ==
    \A n \in 1 .. MaxBlock : \A e, f \in conf[n] :
        e[1] = f[1] => (e[2] = f[2] => e = f) /\ (e[2] < f[2] => Wraps(f))

\* An implied number above the irreversible one is the producer's own work.
Builds(h, bl) ==
    \A q \in DOMAIN h.implied : h.implied[q] > h.lib => bl[q] >= h.implied[q]

IInv ==
    /\ HInv(head, confirmations) /\ confirmations \in Conf /\ Distinct(confirmations)
    /\ built \in [Producer -> Nat] /\ Builds(head, built)
    /\ slot \in Nat /\ faults \in 0 .. MaxFaults /\ IsMap(watermark)
    /\ proposed \in Proposal /\ (proposed # NoProposal => GoodList(proposed.producers))

----------------------------------------------------------------------------
(* Order statistics. *)

\* A subset of a finite set is finite and no larger.
LEMMA FiniteSubset ==
    ASSUME NEW S, IsFiniteSet(S), NEW T, T \subseteq S
    PROVE  IsFiniteSet(T) /\ Cardinality(T) \in Nat /\ Cardinality(S) \in Nat
           /\ Cardinality(T) <= Cardinality(S)
BY FS_Subset, FS_CardinalityType

\* A map of n entries has a k-th smallest value for each k < n ...
LEMMA SmallestExists ==
    ASSUME NEW D, IsFiniteSet(D), NEW f \in [D -> Nat], NEW B \in Nat, \A q \in D : f[q] <= B,
           NEW k \in Nat, k < Cardinality(D)
    PROVE  \E v \in {f[p] : p \in DOMAIN f} :
             Cardinality(Low(f, v)) <= k /\ Cardinality(UpTo(f, v)) > k
<1> DEFINE R    == {f[q] : q \in D}
           W    == {v \in R : Cardinality({q \in D : f[q] <= v}) > k}
<1>0. R \in SUBSET Nat /\ \A m \in R : m <= B
  OBVIOUS
<1>1. W # {}
  <2>1. D # {}
    BY FS_EmptySet
  <2>2. R # {}
    BY <2>1
  <2> HIDE DEF R
  <2>3. PICK v \in R : \A m \in R : m <= v
    BY <1>0, <2>2, GreatestNat
  <2>4. {q \in D : f[q] <= v} = D
    BY <2>3 DEF R
  <2> QED
    BY <2>3, <2>4
<1>2. PICK v \in W : \A m \in W : v <= m
  <2>1. W \in SUBSET Nat
    BY <1>0
  <2> HIDE DEF W
  <2> QED
    BY <1>1, <2>1, LeastNat
<1>3. Cardinality({q \in D : f[q] < v}) <= k
  <2> DEFINE L == {q \in D : f[q] < v}
             U == {m \in R : m < v}
  <2>1. CASE L = {}
    BY <2>1, FS_EmptySet
  <2>2. CASE L # {}
    <3>1. U # {} /\ U \in SUBSET Nat /\ \A m \in U : m <= B
      BY <1>0, <2>2
    <3> HIDE DEF U
    <3>2. PICK u \in U : \A m \in U : m <= u
      BY <3>1, GreatestNat
    <3>3. u \in R /\ u < v /\ \A q \in D : f[q] < v => f[q] <= u
      BY <3>2 DEF U
    <3>4. u \in Nat /\ v \in Nat
      BY <1>0, <1>2, <3>3
    <3>5. L = {q \in D : f[q] <= u}
      BY <3>3, <3>4
    <3>6. u \notin W
      BY <1>2, <3>3, <3>4
    <3>7. ~(Cardinality({q \in D : f[q] <= u}) > k)
      BY <3>3, <3>6
    <3>8. Cardinality(L) \in Nat
      BY FiniteSubset
    <3> QED
      BY <3>5, <3>7, <3>8
  <2> QED
    BY <2>1, <2>2
<1>4. DOMAIN f = D /\ v \in {f[p] : p \in DOMAIN f}
  BY <1>2
<1>5. Low(f, v) = {q \in D : f[q] < v} /\ UpTo(f, v) = {q \in D : f[q] <= v}
  BY <1>4 DEF Low, UpTo
<1>6. Cardinality(UpTo(f, v)) > k
  BY <1>2, <1>5
<1> QED
  BY <1>3, <1>4, <1>5, <1>6

\* ... which Smallest is: every number with at most k entries below it is no
\* greater.
LEMMA SmallestIs ==
    ASSUME NEW D, IsFiniteSet(D), NEW f \in [D -> Nat], NEW B \in Nat, \A q \in D : f[q] <= B,
           NEW k \in Nat, k < Cardinality(D)
    PROVE  /\ Smallest(f, k) \in {f[q] : q \in D} /\ Smallest(f, k) \in Nat /\ Smallest(f, k) <= B
           /\ Cardinality(Low(f, Smallest(f, k))) <= k
           /\ \A l \in Nat : Cardinality(Low(f, l)) <= k => l <= Smallest(f, k)
<1> DEFINE v == Smallest(f, k)
<1>0. DOMAIN f = D
  OBVIOUS
<1>1. v \in {f[p] : p \in DOMAIN f} /\ Cardinality(Low(f, v)) <= k /\ Cardinality(UpTo(f, v)) > k
  <2>1. \E w \in {f[p] : p \in DOMAIN f} :
             Cardinality(Low(f, w)) <= k /\ Cardinality(UpTo(f, w)) > k
    BY SmallestExists
  <2> QED
    BY <2>1, Zenon DEF Smallest, Low, UpTo
<1>2. v \in Nat /\ v <= B
  BY <1>0, <1>1
<1> HIDE DEF v
<1>4. ASSUME NEW l \in Nat, Cardinality(Low(f, l)) <= k PROVE l <= v
  <2> SUFFICES ASSUME v < l PROVE FALSE
    BY <1>2
  <2>1. UpTo(f, v) \subseteq Low(f, l)
    BY <1>0, <1>2 DEF Low, UpTo
  <2>2. IsFiniteSet(Low(f, l))
    BY <1>0, FiniteSubset DEF Low
  <2>3. /\ Cardinality(UpTo(f, v)) <= Cardinality(Low(f, l))
        /\ Cardinality(UpTo(f, v)) \in Nat /\ Cardinality(Low(f, l)) \in Nat
    BY <2>1, <2>2, FiniteSubset
  <2> QED
    BY <1>1, <1>4, <2>3
<1> QED
  BY <1>0, <1>1, <1>2, <1>4 DEF v

----------------------------------------------------------------------------
(* Schedules. *)

\* The arithmetic of two thirds.
LEMMA SizeType == Size \in Nat \ {0} /\ Third \in Nat /\ Needed \in Nat \ {0} /\ 3 * Needed > 2 * Size
                  /\ 3 * (Size - Third) > 2 * Size
<1>1. FirstSchedule \in Seq(Producer) /\ FirstSchedule # <<>>
  BY ScheduleAssumption
<1>2. Size \in Nat \ {0}
  BY <1>1 DEF Size
<1> QED
  BY <1>2 DEF Third, Needed

\* The schedules of the system contract are lists of the one size.
LEMMA GoodSchedules ==
    ASSUME OneSize
    PROVE  GoodList(FirstSchedule) /\ \A s \in Schedules : GoodList(s) /\ s # <<>>
BY ScheduleAssumption DEF OneSize, GoodList, Size

\* Such a list has Size producers, all different.
LEMMA CountList ==
    ASSUME NEW s, GoodList(s)
    PROVE  IsFiniteSet(ToSet(s)) /\ Cardinality(ToSet(s)) = Size /\ ToSet(s) \subseteq Producer
<1>1. s \in [1 .. Size -> Producer] /\ DOMAIN s = 1 .. Size
  BY SizeType DEF GoodList
<1>2. s \in [1 .. Size -> ToSet(s)]
  BY <1>1 DEF ToSet
<1>3. s \in Bijection(1 .. Size, ToSet(s))
  BY <1>1, <1>2 DEF GoodList, IsInjective, Bijection, Injection, Surjection, ToSet
<1>4. IsFiniteSet(1 .. Size) /\ Cardinality(1 .. Size) = Size
  BY FS_Interval, SizeType
<1>5. ToSet(s) \subseteq Producer
  BY <1>1 DEF ToSet
<1> QED
  BY <1>3, <1>4, <1>5, FS_Bijection DEF ExistsBijection

\* A slot's index in the repeated schedule.
LEMMA Quotient ==
    ASSUME NEW x \in Nat, NEW L \in Nat \ {0}, NEW R \in Nat \ {0}, x < L * R
    PROVE  x \div R \in 0 .. L - 1
<1>1. x \div R \in Nat /\ x = R * (x \div R) + (x % R) /\ x % R \in 0 .. R - 1
  OBVIOUS
<1>2. SUFFICES ASSUME x \div R >= L PROVE FALSE
  BY <1>1
<1>3. R * (x \div R) >= R * L
  BY <1>1, <1>2
<1> QED
  BY <1>1, <1>3

\* get_scheduled_producer reads within the schedule.
LEMMA ScheduledIsActive ==
    ASSUME NEW s, GoodList(s.producers), NEW t \in Nat
    PROVE  get_scheduled_producer(s, t) \in ToSet(s.producers)
<1> DEFINE x == t % (Size * Repetitions)
<1>1. Size * Repetitions \in Nat \ {0}
  BY SizeType, HeaderAssumption
<1>2. x \in Nat /\ x < Size * Repetitions
  BY <1>1
<1> HIDE DEF x
<1>3. x \div Repetitions \in 0 .. Size - 1
  BY <1>2, SizeType, HeaderAssumption, Quotient
<1>4. x \div Repetitions + 1 \in 1 .. Size
  <2> DEFINE y == x \div Repetitions
  <2>1. y \in 0 .. Size - 1
    BY <1>3
  <2> HIDE DEF y
  <2>2. y + 1 \in 1 .. Size
    BY <2>1, SizeType
  <2> QED
    BY <2>2 DEF y
<1>5. get_scheduled_producer(s, t) = s.producers[x \div Repetitions + 1]
  BY DEF get_scheduled_producer, GoodList, x
<1>6. DOMAIN s.producers = 1 .. Size
  BY DEF GoodList
<1> QED
  BY <1>4, <1>5, <1>6 DEF ToSet

----------------------------------------------------------------------------
(* The window of counts. *)

\* Confirmers can be counted.
LEMMA CardConf ==
    ASSUME NEW conf \in Conf, NEW n \in 1 .. MaxBlock
    PROVE  IsFiniteSet(conf[n]) /\ Cardinality(conf[n]) \in Nat /\ conf[n] \subseteq Event
<1>1. conf[n] \subseteq Event /\ IsFiniteSet(conf[n])
  BY DEF Conf
<1> QED
  BY <1>1, FS_CardinalityType

\* The new block's count joins the window, the oldest may leave it, and every
\* count still belongs to its block.
LEMMA GrowCounts ==
    ASSUME NEW cc \in Seq(Nat), NEW num \in Nat, Len(cc) <= num, num + 1 <= MaxBlock,
           NEW conf \in Conf, conf[num + 1] = {}, Lacks(cc, num, conf)
    PROVE  /\ grow(cc, Needed) \in Seq(Nat) /\ Len(grow(cc, Needed)) \in 1 .. Len(cc) + 1
           /\ Lacks(grow(cc, Needed), num + 1, conf)
<1> DEFINE kept == IF Len(cc) < MaxTracked THEN cc ELSE Tail(cc)
           G == grow(cc, Needed)
           o == IF Len(cc) < MaxTracked THEN 0 ELSE 1
<1>0. Needed \in Nat /\ Needed >= 1 /\ MaxTracked \in Nat /\ MaxTracked >= 1
  BY SizeType, HeaderAssumption
<1>1. /\ kept \in Seq(Nat) /\ o \in 0 .. 1 /\ Len(kept) = Len(cc) - o
      /\ \A i \in 1 .. Len(kept) : kept[i] = cc[i + o]
  BY <1>0
<1>2. G = Append(kept, Needed)
  BY DEF grow
<1> HIDE DEF kept, G, o
<1>3. /\ G \in Seq(Nat) /\ Len(G) = Len(cc) - o + 1 /\ G[Len(G)] = Needed
      /\ \A i \in 1 .. Len(G) - 1 : G[i] = cc[i + o]
  <2>1. /\ G \in Seq(Nat) /\ Len(G) = Len(kept) + 1 /\ G[Len(kept) + 1] = Needed
        /\ \A i \in 1 .. Len(kept) : G[i] = kept[i]
    BY <1>0, <1>1, <1>2, AppendProperties
  <2>2. Len(G) - 1 = Len(kept)
    BY <1>1, <2>1
  <2> QED
    BY <1>1, <2>1, <2>2
<1>4. ASSUME NEW i \in 1 .. Len(G)
      PROVE  G[i] >= 1 /\ G[i] + Cardinality(conf[num + 1 - Len(G) + i]) = Needed
  <2>1. CASE i = Len(G)
    <3>1. conf[num + 1 - Len(G) + i] = {}
      BY <2>1, <1>3
    <3> QED
      BY <3>1, <2>1, <1>3, <1>0, FS_EmptySet
  <2>2. CASE i # Len(G)
    <3>0. Len(G) \in Nat /\ Len(cc) \in Nat /\ o \in Int /\ Len(G) = Len(cc) - o + 1 /\ o >= 0
      BY <1>3, <1>1
    <3>1. i \in 1 .. Len(G) - 1 /\ i + o \in 1 .. Len(cc)
      BY <2>2, <3>0
    <3>2. G[i] = cc[i + o] /\ num + 1 - Len(G) + i = num - Len(cc) + (i + o)
      BY <3>1, <1>3, <1>1
    <3>3. cc[i + o] >= 1 /\ cc[i + o] + Cardinality(conf[num - Len(cc) + (i + o)]) = Needed
      BY <3>1 DEF Lacks
    <3> QED
      BY <3>2, <3>3
  <2> QED
    BY <2>1, <2>2
<1>5. Lacks(G, num + 1, conf)
  BY <1>4 DEF Lacks
<1> QED
  BY <1>1, <1>3, <1>5 DEF G

\* Who confirmed what, once p confirms the block num and the c before it.
Confirms(conf, p, num, c) ==
    [n \in 1 .. MaxBlock |-> IF num - c <= n /\ n <= num THEN conf[n] \cup {<<p, num, c>>}
                                                       ELSE conf[n]]

\* A header adds one to the number of confirmations of each of these blocks.
LEMMA ConfirmsIs ==
    ASSUME NEW conf \in Conf, NEW p \in Producer, NEW num \in Nat, NEW c \in Nat,
           \A n \in 1 .. MaxBlock : num - c <= n /\ n <= num => <<p, num, c>> \notin conf[n]
    PROVE  /\ Confirms(conf, p, num, c) \in Conf
           /\ \A n \in 1 .. MaxBlock :
                 Cardinality(Confirms(conf, p, num, c)[n]) =
                    Cardinality(conf[n]) + (IF num - c <= n /\ n <= num THEN 1 ELSE 0)
<1> DEFINE new == Confirms(conf, p, num, c)
<1>1. new \in Conf
  <2>1. <<p, num, c>> \in Event
    BY DEF Event
  <2>2. ASSUME NEW n \in 1 .. MaxBlock
        PROVE  conf[n] \cup {<<p, num, c>>} \subseteq Event /\ IsFiniteSet(conf[n] \cup {<<p, num, c>>})
               /\ conf[n] \subseteq Event /\ IsFiniteSet(conf[n])
    BY <2>1, CardConf, FS_AddElement
  <2> QED
    BY <2>2 DEF Confirms, Conf
<1>2. ASSUME NEW n \in 1 .. MaxBlock
      PROVE  Cardinality(new[n]) = Cardinality(conf[n]) + (IF num - c <= n /\ n <= num THEN 1 ELSE 0)
  <2>0. IsFiniteSet(conf[n]) /\ Cardinality(conf[n]) \in Nat
    BY CardConf
  <2>1. CASE num - c <= n /\ n <= num
    <3>1. new[n] = conf[n] \cup {<<p, num, c>>} /\ <<p, num, c>> \notin conf[n]
      BY <2>1 DEF Confirms
    <3>2. Cardinality(conf[n] \cup {<<p, num, c>>}) = Cardinality(conf[n]) + 1
      BY <2>0, <3>1, FS_AddElement
    <3> QED
      BY <2>1, <3>1, <3>2
  <2>2. CASE ~(num - c <= n /\ n <= num)
    <3>1. new[n] = conf[n]
      BY <2>2 DEF Confirms
    <3> QED
      BY <2>2, <3>1, <2>0
  <2> QED
    BY <2>1, <2>2
<1> QED
  BY <1>1, <1>2

\* The window and the proposed block d of a block num which p confirms with the c
\* before it.
Countable(cc, num, d, conf, p, c) ==
    /\ cc \in Seq(Nat) /\ num \in Nat /\ Len(cc) <= num /\ num <= MaxBlock
    /\ conf \in Conf /\ Lacks(cc, num, conf) /\ p \in Producer /\ c \in Nat
    /\ \A n \in 1 .. MaxBlock : num - c <= n /\ n <= num => <<p, num, c>> \notin conf[n]
    /\ d \in Nat /\ d <= num - Len(cc) /\ (d > 0 => Cardinality(conf[d]) >= Needed)

\* The window afterwards, the block proposed and who confirmed it.
WindowIs(counts, prop, num, d, new) ==
    /\ counts \in Seq(Nat) /\ prop \in Nat /\ d <= prop /\ prop <= num - Len(counts)
    /\ Lacks(counts, num, new)
    /\ prop > 0 => Cardinality(new[prop]) >= Needed

\* set_confirmed: the counts follow the confirmations, and the block proposed
\* is the newest one with enough of them.
LEMMA ConfirmCounts ==
    ASSUME NEW cc, NEW num, NEW d, NEW conf, NEW p, NEW c, Countable(cc, num, d, conf, p, c)
    PROVE  WindowIs(confirm_counts(cc, c), confirm_proposed(cc, c, num, d), num, d,
                    Confirms(conf, p, num, c))
<1> USE DEF Countable
<1>a. PICK new, counts, prop : /\ new = Confirms(conf, p, num, c)
                              /\ counts = confirm_counts(cc, c)
                              /\ prop = confirm_proposed(cc, c, num, d)
  OBVIOUS
<1> SUFFICES WindowIs(counts, prop, num, d, new)
  BY <1>a
<1> USE <1>a DEF WindowIs
<1> DEFINE L    == Len(cc)
           less == [i \in 1 .. L |-> IF i \in Touched(cc, c) THEN cc[i] - 1 ELSE cc[i]]
           B(i) == num - L + i
<1>0. L \in Nat /\ Needed \in Nat /\ MaxBlock \in Nat /\ num \in Nat /\ L <= num /\ num <= MaxBlock
      /\ c \in Nat
  BY SizeType, BoundAssumption
<1>1. /\ new \in Conf
      /\ \A n \in 1 .. MaxBlock :
            Cardinality(new[n]) = Cardinality(conf[n]) + (IF num - c <= n /\ n <= num THEN 1 ELSE 0)
  BY ConfirmsIs
<1>2. ASSUME NEW i \in 1 .. L
      PROVE  /\ B(i) \in 1 .. MaxBlock /\ B(i) <= num
             /\ i \in Touched(cc, c) <=> num - c <= B(i)
             /\ cc[i] \in Nat /\ cc[i] >= 1 /\ cc[i] + Cardinality(conf[B(i)]) = Needed
             /\ Cardinality(conf[B(i)]) \in Nat
  <2>1. B(i) \in 1 .. MaxBlock /\ B(i) <= num /\ (i \in Touched(cc, c) <=> num - c <= B(i))
    <3> HIDE DEF Countable, WindowIs, L
    <3>1. i \in Touched(cc, c) <=> i >= L - c
      BY DEF Touched, L
    <3> QED
      BY <1>0, <3>1
  <2>2. cc[i] \in Nat /\ cc[i] >= 1 /\ cc[i] + Cardinality(conf[B(i)]) = Needed
    BY DEF Lacks
  <2> QED
    BY <2>1, <2>2, CardConf
<1>3. ASSUME NEW i \in 1 .. L
      PROVE  less[i] \in Nat /\ less[i] + Cardinality(new[B(i)]) = Needed
             /\ (i \notin Reached(cc, c) => less[i] >= 1)
             /\ (i \in Reached(cc, c) => less[i] = 0)
  <2>0. /\ B(i) \in 1 .. MaxBlock /\ B(i) <= num
        /\ cc[i] \in Nat /\ cc[i] >= 1 /\ cc[i] + Cardinality(conf[B(i)]) = Needed
        /\ Cardinality(conf[B(i)]) \in Nat
    BY <1>2
  <2>1. CASE i \in Touched(cc, c)
    <3>1. less[i] = cc[i] - 1 /\ (i \in Reached(cc, c) <=> cc[i] = 1)
      BY <2>1 DEF Reached
    <3>2. Cardinality(new[B(i)]) = Cardinality(conf[B(i)]) + 1
      BY <1>1, <1>2, <2>0, <2>1
    <3>3. CASE cc[i] = 1
      BY <2>0, <3>1, <3>2, <3>3
    <3>4. CASE cc[i] > 1
      <4>1. i \notin Reached(cc, c) /\ cc[i] - 1 \in Nat /\ cc[i] - 1 >= 1
        <5> HIDE DEF B, Countable, WindowIs, less
        <5>1. \A x \in Nat : x > 1 => x # 1 /\ x - 1 \in Nat /\ x - 1 >= 1
          OBVIOUS
        <5>2. cc[i] # 1 /\ cc[i] - 1 \in Nat /\ cc[i] - 1 >= 1
          BY <2>0, <3>4, <5>1
        <5> QED
          BY <3>1, <5>2
      <4>2. cc[i] - 1 + Cardinality(new[B(i)]) = Needed
        <5> HIDE DEF B, Countable, WindowIs, less
        <5> QED
          BY <2>0, <3>2
      <4> QED
        BY <3>1, <4>1, <4>2
    <3> QED
      BY <2>0, <3>3, <3>4
  <2>2. CASE i \notin Touched(cc, c)
    <3>1. less[i] = cc[i] /\ i \notin Reached(cc, c)
      BY <2>2 DEF Reached
    <3>2. Cardinality(new[B(i)]) = Cardinality(conf[B(i)])
      BY <1>1, <1>2, <2>0, <2>2
    <3> HIDE DEF less, B, L
    <3> QED
      BY <2>0, <3>1, <3>2
  <2> QED
    BY <2>1, <2>2
<1>4. less \in [1 .. L -> Nat] /\ DOMAIN less = 1 .. L /\ less \in Seq(Nat) /\ Len(less) = L
  BY <1>3, <1>0
<1>5. CASE Reached(cc, c) = {}
  <2>1. counts = less /\ prop = d
    BY <1>5 DEF confirm_counts, confirm_proposed
  <2>2. Lacks(counts, num, new)
    BY <2>1, <1>3, <1>4, <1>5 DEF Lacks
  <2>3. d > 0 => Cardinality(new[d]) >= Needed
    <3>1. SUFFICES ASSUME d > 0 PROVE Cardinality(new[d]) >= Needed
      OBVIOUS
    <3>2. d \in 1 .. MaxBlock
      BY <1>0, <3>1
    <3>3. Cardinality(conf[d]) \in Nat
      BY <3>2, CardConf
    <3> QED
      BY <1>0, <1>1, <3>1, <3>2, <3>3
  <2> QED
    BY <2>1, <2>2, <2>3, <1>4
<1>6. CASE Reached(cc, c) # {}
  <2> DEFINE j == Newest(Reached(cc, c))
  <2>1. j \in Reached(cc, c) /\ \A i \in Reached(cc, c) : i <= j
    <3>1. Reached(cc, c) \in SUBSET Nat /\ \A i \in Reached(cc, c) : i <= L
      BY <1>0 DEF Reached, Touched
    <3>2. \E i \in Reached(cc, c) : \A m \in Reached(cc, c) : m <= i
      BY <3>1, <1>0, <1>6, GreatestNat
    <3> QED
      BY <3>2, Zenon DEF Newest
  <2>2. j \in 1 .. L
    BY <2>1 DEF Reached, Touched
  <2>3. counts = SubSeq(less, j + 1, L) /\ prop = num - (L - j)
    BY <1>6 DEF confirm_counts, confirm_proposed
  <2> HIDE DEF j, less
  <2>4. /\ counts \in Seq(Nat) /\ Len(counts) = L - j
        /\ \A i \in 1 .. L - j : counts[i] = less[j + i]
    <3> HIDE DEF L
    <3>1. \A i \in j + 1 .. L : less[i] \in Nat
      BY <1>4, <2>2, <1>0
    <3>2. /\ counts \in Seq(Nat)
          /\ Len(counts) = IF j + 1 <= L THEN L - (j + 1) + 1 ELSE 0
          /\ \A i \in 1 .. L - (j + 1) + 1 : counts[i] = less[(j + 1) + i - 1]
      BY <3>1, <2>2, <2>3, <1>0, SubSeqProperties
    <3>3. L - (j + 1) + 1 = L - j /\ \A i \in 1 .. L - j : (j + 1) + i - 1 = j + i
      BY <1>0, <2>2
    <3> QED
      BY <3>2, <3>3, <1>0, <2>2
  <2>5. ASSUME NEW i \in 1 .. Len(counts)
        PROVE  counts[i] >= 1 /\ counts[i] + Cardinality(new[num - Len(counts) + i]) = Needed
    <3>1. j + i \in 1 .. L /\ B(j + i) = num - Len(counts) + i /\ counts[i] = less[j + i]
      <4> HIDE DEF L
      <4>1. i \in 1 .. L - j
        BY <2>4
      <4>2. j + i \in 1 .. L /\ num - L + (j + i) = num - Len(counts) + i
        <5>1. L \in Nat /\ num \in Nat /\ j \in 1 .. L /\ Len(counts) = L - j
          BY <1>0, <2>2, <2>4
        <5> QED
          BY <4>1, <5>1
      <4> QED
        BY <2>4, <4>1, <4>2
    <3>2. j + i \notin Reached(cc, c)
      BY <2>1, <2>2, <2>4, <1>0
    <3> QED
      BY <1>3, <3>1, <3>2
  <2>6. Lacks(counts, num, new)
    BY <2>5 DEF Lacks
  <2>7. prop = B(j) /\ prop \in Nat /\ prop >= d
    BY <2>2, <2>3, <1>0
  <2>8. Cardinality(new[prop]) = Needed
    <3>1. less[j] = 0 /\ less[j] + Cardinality(new[B(j)]) = Needed
      BY <1>3, <2>1, <2>2
    <3>2. Cardinality(new[B(j)]) \in Nat
      BY <1>1, <1>2, <2>2, CardConf
    <3> QED
      BY <3>1, <3>2, <2>7
  <2> QED
    <3>1. Len(counts) \in Nat /\ prop <= num - Len(counts)
      <4> HIDE DEF L
      <4> QED
        BY <2>2, <2>3, <2>4, <1>0
    <3>2. Cardinality(new[prop]) >= Needed
      BY <2>8, <1>0
    <3> QED
      BY <2>4, <2>6, <2>7, <3>1, <3>2
<1> QED
  BY <1>5, <1>6

----------------------------------------------------------------------------
(* The last irreversible block. *)

\* A map of implied irreversible blocks, none above d, with at most a third of
\* its producers below l.
Implies(f, l, d) ==
    /\ IsMap(f) /\ d \in Nat /\ l \in Nat /\ l <= d
    /\ \A q \in DOMAIN f : f[q] <= d
    /\ Cardinality(Low(f, l)) <= Third

\* The map is the empty one of the genesis state, or with p it has as many
\* producers as a schedule.
Whole(f, p) == DOMAIN f = {} \/ Cardinality(DOMAIN f \cup {p}) = Size

\* A producer's next block cannot lower the irreversible block.
LEMMA NextLib ==
    ASSUME NEW f, NEW l, NEW d, Implies(f, l, d),
           NEW p \in Producer, Whole(f, p)
    PROVE  /\ Implies(Assign(f, p, d), calc_dpos_last_irreversible(Assign(f, p, d)), d)
           /\ l <= calc_dpos_last_irreversible(Assign(f, p, d))
           /\ DOMAIN Assign(f, p, d) = DOMAIN f \cup {p}
<1> USE DEF Implies, Whole
<1>a. PICK irb, new : irb = Assign(f, p, d) /\ new = calc_dpos_last_irreversible(irb)
  OBVIOUS
<1> SUFFICES Implies(irb, new, d) /\ l <= new /\ DOMAIN irb = DOMAIN f \cup {p}
  BY <1>a
<1> USE <1>a
<1> DEFINE D == DOMAIN f \cup {p}
           k == (Cardinality(D) - 1) \div 3
<1>1. /\ DOMAIN irb = D /\ IsMap(irb) /\ irb \in [D -> Nat] /\ irb[p] = d
      /\ \A q \in DOMAIN f : q # p => irb[q] = f[q]
      /\ \A q \in D : irb[q] <= d
  BY DEF Assign, IsMap
<1>2. D \subseteq Producer /\ IsFiniteSet(D) /\ Cardinality(D) \in Nat /\ D # {}
  BY HeaderAssumption, FiniteSubset DEF IsMap
<1>3. Cardinality(D) >= 1
  BY <1>2, FS_EmptySet
<1>4. k \in Nat /\ k < Cardinality(D)
  BY <1>2, <1>3
<1>5. new = Smallest(irb, k)
  BY <1>1, <1>2 DEF calc_dpos_last_irreversible
<1>6. Cardinality(Low(irb, l)) <= k /\ k <= Third
  <2>1. CASE DOMAIN f = {}
    <3>1. Low(irb, l) = {}
      BY <1>1, <2>1 DEF Low
    <3>2. Cardinality(D) = 1
      BY <2>1, FS_Singleton
    <3>3. k = 0 /\ Third \in Nat
      BY <3>2, SizeType
    <3> QED
      BY <3>1, <3>3, FS_EmptySet
  <2>2. CASE Cardinality(D) = Size
    <3>1. k = Third
      BY <2>2 DEF Third
    <3>2. Low(irb, l) \subseteq Low(f, l)
      BY <1>1 DEF Low, IsMap
    <3>3. Low(f, l) \subseteq D
      BY DEF Low
    <3>4. IsFiniteSet(Low(f, l))
      BY <1>2, <3>3, FiniteSubset
    <3>5. /\ Cardinality(Low(irb, l)) <= Cardinality(Low(f, l))
          /\ Cardinality(Low(irb, l)) \in Nat /\ Cardinality(Low(f, l)) \in Nat
      BY <3>2, <3>4, FiniteSubset
    <3> QED
      BY <3>1, <3>5, SizeType
  <2> QED
    BY <2>1, <2>2
<1> HIDE DEF k, D
<1>7. /\ new \in Nat /\ new <= d /\ Cardinality(Low(irb, new)) <= k
      /\ (Cardinality(Low(irb, l)) <= k => l <= new)
  BY <1>1, <1>2, <1>4, <1>5, SmallestIs
<1>8. Cardinality(Low(irb, new)) \in Nat
  <2>1. Low(irb, new) \subseteq D
    BY <1>1 DEF Low
  <2> QED
    BY <2>1, <1>2, FiniteSubset
<1> QED
  BY <1>1, <1>4, <1>6, <1>7, <1>8, SizeType DEF D

\* Nor can a new schedule: whoever is new to it starts at the irreversible block.
LEMMA RebuildLib ==
    ASSUME NEW f, NEW l, NEW d, Implies(f, l, d), NEW s, GoodList(s.producers)
    PROVE  Implies(Rebuild(f, s, l), l, d) /\ DOMAIN Rebuild(f, s, l) = ToSet(s.producers)
<1> USE DEF Implies
<1>a. PICK g : g = Rebuild(f, s, l)
  OBVIOUS
<1> SUFFICES Implies(g, l, d) /\ DOMAIN g = ToSet(s.producers)
  BY <1>a
<1> USE <1>a
<1>1. ToSet(s.producers) \subseteq Producer
  BY CountList
<1>2. IsMap(g) /\ DOMAIN g = ToSet(s.producers) /\ \A q \in DOMAIN g : g[q] <= d
  BY <1>1 DEF Rebuild, IsMap
<1>3. Low(g, l) \subseteq Low(f, l)
  BY DEF Low, Rebuild
<1>4. IsFiniteSet(Low(f, l))
  <2>1. Low(f, l) \subseteq Producer
    BY DEF Low, IsMap
  <2> QED
    BY <2>1, HeaderAssumption, FiniteSubset
<1>5. /\ Cardinality(Low(g, l)) <= Cardinality(Low(f, l))
      /\ Cardinality(Low(g, l)) \in Nat /\ Cardinality(Low(f, l)) \in Nat
  BY <1>3, <1>4, FiniteSubset
<1> QED
  BY <1>2, <1>5, SizeType

----------------------------------------------------------------------------
(* The steps of a block. *)

\* The header state with the block's confirmations counted.
Counted(h, p, c) == set_confirmed(generate_next(h, p), c)

\* Its fields.
LEMMA CountedFields ==
    ASSUME NEW h, IsHeader(h), NEW p, NEW c, NEW k, k = Counted(h, p, c)
    PROVE  /\ DOMAIN k = DOMAIN h
           /\ k.num = h.num + 1 /\ k.active = h.active /\ k.pending = h.pending
           /\ k.pending_lib = h.pending_lib
           /\ k.produced = Assign(h.produced, p, h.num + 1)
           /\ k.implied = Assign(h.implied, p, h.dpos)
           /\ k.lib = calc_dpos_last_irreversible(k.implied)
           /\ k.counts = confirm_counts(grow(h.counts, required_confs(h.active)), c)
           /\ k.dpos = confirm_proposed(grow(h.counts, required_confs(h.active)), c, h.num + 1, h.dpos)
BY DEF Counted, set_confirmed, generate_next, IsHeader

\* A header state before a pending schedule is promoted.
KInv(k, conf) ==
    /\ Types(k) /\ Lists(k) /\ Irreversible(k)
    /\ Lacking(k, conf) /\ Confirmed(k, conf) /\ Proposing(k, conf)
    /\ k.num > 1 /\ (Promotes(k) \/ Maps(k))

\* Room in the window for one more count.
LEMMA WindowRoom ==
    ASSUME NEW n \in Nat, NEW d \in Nat, NEW l \in Nat, NEW g \in Nat,
           d <= n - l, l <= n, g <= l + 1, NEW m \in Nat, m = n + 1
    PROVE  g <= m /\ d <= m - g
OBVIOUS

\* generate_next and set_confirmed.
LEMMA CountedKeeps ==
    ASSUME NEW conf \in Conf, NEW h, HInv(h, conf), h.num < MaxBlock, NEW c \in Nat,
           NEW p \in ToSet(h.active.producers),
           NEW N \in Nat, N = h.num + 1, NEW new, new = Confirms(conf, p, N, c),
           NEW k, k = Counted(h, p, c)
    PROVE  new \in Conf /\ KInv(k, new) /\ h.lib <= k.lib /\ k.lib <= h.dpos /\ h.dpos <= k.dpos
<1> DEFINE G == grow(h.counts, Needed)
<1>1. /\ IsHeader(h) /\ h.num \in Nat /\ h.num >= 1 /\ h.num + 1 <= MaxBlock /\ MaxBlock \in Nat
      /\ h.dpos \in Nat /\ h.lib \in Nat /\ h.pending_lib \in Nat /\ h.counts \in Seq(Nat)
      /\ IsMap(h.implied) /\ IsMap(h.produced)
  BY BoundAssumption DEF HInv, Types, IsHeader
<1>2. Lists(h) /\ GoodList(h.active.producers) /\ p \in Producer
  BY CountList DEF HInv, Lists
<1>3. required_confs(h.active) = Needed
  BY <1>2 DEF required_confs, Needed, GoodList
<1>4. /\ DOMAIN k = DOMAIN h
      /\ k.num = h.num + 1 /\ k.active = h.active /\ k.pending = h.pending
      /\ k.pending_lib = h.pending_lib
      /\ k.produced = Assign(h.produced, p, h.num + 1)
      /\ k.implied = Assign(h.implied, p, h.dpos)
      /\ k.lib = calc_dpos_last_irreversible(k.implied)
      /\ k.counts = confirm_counts(G, c)
      /\ k.dpos = confirm_proposed(G, c, h.num + 1, h.dpos)
  BY <1>1, <1>3, CountedFields
<1>5. conf[h.num + 1] = {}
  <2>1. h.num + 1 \in 1 .. MaxBlock
    BY <1>1
  <2>2. \A e \in conf[h.num + 1] : h.num + 1 <= h.num
    BY <2>1 DEF HInv, Confirmed
  <2> QED
    BY <1>1, <2>2
<1>6. /\ h.lib <= h.dpos /\ h.dpos <= h.num - Len(h.counts) /\ Len(h.counts) <= h.num
      /\ \A q \in DOMAIN h.implied : h.implied[q] <= h.dpos
      /\ Cardinality(Low(h.implied, h.lib)) <= Third
  BY <1>1 DEF HInv, Irreversible
<1>7. Lacks(h.counts, h.num, conf) /\ (h.dpos > 0 => Cardinality(conf[h.dpos]) >= Needed)
  BY DEF HInv, Lacking, Proposing
<1>8. G \in Seq(Nat) /\ Len(G) \in 1 .. Len(h.counts) + 1 /\ Lacks(G, h.num + 1, conf)
  BY <1>1, <1>5, <1>6, <1>7, GrowCounts
<1> HIDE DEF G
<1>9. /\ k.counts \in Seq(Nat) /\ k.dpos \in Nat /\ h.dpos <= k.dpos
      /\ k.dpos <= N - Len(k.counts) /\ Lacks(k.counts, h.num + 1, new)
      /\ (k.dpos > 0 => Cardinality(new[k.dpos]) >= Needed)
  <2>0. N = h.num + 1
    BY <1>1
  <2>1. Len(G) <= N /\ h.dpos <= N - Len(G) /\ N <= MaxBlock
    <3>1. Len(G) \in Nat /\ Len(h.counts) \in Nat /\ Len(G) <= Len(h.counts) + 1
      BY <1>1, <1>8
    <3>2. Len(G) <= N /\ h.dpos <= N - Len(G)
      BY <1>1, <1>6, <2>0, <3>1, WindowRoom, Zenon
    <3>3. N <= MaxBlock
      BY <1>1, <2>0
    <3> QED
      BY <3>2, <3>3
  <2>2. Countable(G, N, h.dpos, conf, p, c)
    <3>1. Lacks(G, N, conf) /\ \A n \in 1 .. MaxBlock : N - c <= n /\ n <= N => <<p, N, c>> \notin conf[n]
      <4>1. ASSUME NEW n \in 1 .. MaxBlock, <<p, N, c>> \in conf[n] PROVE FALSE
        <5>1. <<p, N, c>>[2] <= h.num
          BY <4>1 DEF HInv, Confirmed
        <5> QED
          BY <5>1, <1>1, <2>0
      <4> QED
        BY <4>1, <1>1, <1>8, <2>0
    <3> QED
      BY <1>1, <1>2, <1>7, <1>8, <2>1, <3>1 DEF Countable
  <2>3. new = Confirms(conf, p, N, c)
    BY <2>0
  <2>4. WindowIs(k.counts, k.dpos, N, h.dpos, new)
    <3>1. WindowIs(confirm_counts(G, c), confirm_proposed(G, c, N, h.dpos), N, h.dpos,
                   Confirms(conf, p, N, c))
      BY <2>2, ConfirmCounts
    <3>2. k.counts = confirm_counts(G, c) /\ k.dpos = confirm_proposed(G, c, N, h.dpos)
      BY <1>4, <2>0
    <3> QED
      BY <2>3, <3>1, <3>2
  <2> QED
    BY <1>1, <2>0, <2>4 DEF WindowIs
<1>10. h.num = 1 => /\ DOMAIN h.implied = {} /\ DOMAIN h.produced = {}
                    /\ h.pending.producers # <<>> /\ h.pending_lib = 0
  BY DEF HInv, Maps
<1>11. h.num # 1 => /\ ToSet(h.active.producers) \subseteq DOMAIN h.produced
                    /\ ToSet(h.active.producers) = DOMAIN h.implied
  BY DEF HInv, Maps
<1>12. Whole(h.implied, p)
  <2>1. ASSUME h.num # 1 PROVE DOMAIN h.implied \cup {p} = ToSet(h.active.producers)
    BY <2>1, <1>11
  <2> QED
    BY <2>1, <1>2, <1>10, CountList DEF Whole
<1>13. /\ IsMap(k.implied) /\ DOMAIN k.implied = DOMAIN h.implied \cup {p}
       /\ \A q \in DOMAIN k.implied : k.implied[q] <= h.dpos
       /\ k.lib \in Nat /\ h.lib <= k.lib /\ k.lib <= h.dpos
       /\ Cardinality(Low(k.implied, k.lib)) <= Third
  <2>1. Implies(h.implied, h.lib, h.dpos)
    BY <1>1, <1>6 DEF Implies
  <2>2. /\ Implies(k.implied, k.lib, h.dpos) /\ h.lib <= k.lib
        /\ DOMAIN k.implied = DOMAIN h.implied \cup {p}
    <3> DEFINE irb == Assign(h.implied, p, h.dpos)
    <3>1. /\ Implies(irb, calc_dpos_last_irreversible(irb), h.dpos)
          /\ h.lib <= calc_dpos_last_irreversible(irb)
          /\ DOMAIN irb = DOMAIN h.implied \cup {p}
      BY <1>2, <1>12, <2>1, NextLib
    <3>2. k.implied = irb /\ k.lib = calc_dpos_last_irreversible(irb)
      BY <1>4
    <3> HIDE DEF irb
    <3> QED
      BY <3>1, <3>2
  <2> QED
    BY <2>2 DEF Implies
<1>14. IsMap(k.produced) /\ DOMAIN k.produced = DOMAIN h.produced \cup {p}
  BY <1>1, <1>2, <1>4 DEF Assign, IsMap
<1>15. Types(k)
  BY <1>1, <1>4, <1>9, <1>13, <1>14 DEF Types, IsHeader
<1>16. Lists(k)
  BY <1>2, <1>4 DEF Lists
<1>17. Irreversible(k)
  <2>1. \A q \in DOMAIN k.implied : k.implied[q] \in Nat /\ k.implied[q] <= k.dpos
    BY <1>1, <1>9, <1>13 DEF IsMap
  <2>2. k.lib <= k.dpos
    <3>1. \A x, y, z \in Nat : x <= y /\ y <= z => x <= z
      OBVIOUS
    <3> QED
      BY <1>1, <1>9, <1>13, <3>1, Zenon
  <2>3. k.dpos <= k.num - Len(k.counts)
    <3>1. k.num = N
      BY <1>4
    <3> QED
      BY <1>9, <3>1, Zenon
  <2> QED
    BY <2>1, <2>2, <2>3, <1>13 DEF Irreversible
<1>18. Lacking(k, new) /\ Proposing(k, new)
  BY <1>4, <1>9 DEF Lacking, Proposing
<1>19. ASSUME NEW n \in 1 .. MaxBlock, NEW e \in new[n]
       PROVE  /\ n <= k.num /\ e[2] <= k.num
              /\ e[1] \in DOMAIN k.produced => n <= k.produced[e[1]]
              /\ e[1] \notin DOMAIN k.produced /\ k.pending.producers # <<>> => n <= k.pending_lib
  <2>a. PICK q : q = e[1]
    OBVIOUS
  <2>b. \/ e \in conf[n]
        \/ (e = <<p, h.num + 1, c>> /\ n <= h.num + 1)
    BY DEF Confirms
  <2>c. e \in conf[n] => n <= h.num /\ e[2] <= h.num /\ e[2] \in Nat
    BY CardConf DEF HInv, Confirmed, Event
  <2>d. n <= k.num /\ e[2] <= k.num
    BY <1>1, <1>4, <2>b, <2>c
  <2>1. CASE q = p
    <3>1. k.produced[q] = h.num + 1 /\ q \in DOMAIN k.produced
      BY <2>1, <1>4 DEF Assign
    <3> QED
      BY <1>1, <1>4, <2>a, <2>d, <3>1
  <2>2. CASE q # p
    <3>1. e \in conf[n]
      BY <2>2, <2>a, <2>b
    <3>2. /\ n <= h.num
          /\ q \in DOMAIN h.produced => n <= h.produced[q]
          /\ q \notin DOMAIN h.produced /\ h.pending.producers # <<>> => n <= h.pending_lib
      BY <2>a, <3>1 DEF HInv, Confirmed
    <3>3. q \in DOMAIN h.produced => k.produced[q] = h.produced[q]
      BY <2>2, <1>4 DEF Assign
    <3> QED
      BY <2>2, <2>a, <2>d, <1>1, <1>4, <1>14, <3>2, <3>3
  <2> QED
    BY <2>1, <2>2
<1>20. Confirmed(k, new)
  BY <1>19 DEF Confirmed
<1>21. k.num > 1 /\ (Promotes(k) \/ Maps(k))
  <2>1. k.num > 1
    BY <1>1, <1>4
  <2>2. CASE h.num = 1
    <3>1. k.pending.producers # <<>> /\ k.lib >= k.pending_lib
      BY <2>2, <1>4, <1>10, <1>13
    <3> QED
      BY <2>1, <3>1 DEF Promotes
  <2>3. CASE h.num # 1
    <3>1. /\ ToSet(k.active.producers) \subseteq DOMAIN k.produced
          /\ ToSet(k.active.producers) = DOMAIN k.implied
      BY <2>3, <1>4, <1>11, <1>13, <1>14
    <3>2. k.num # 1
      BY <2>1, <1>1, <1>4
    <3> QED
      BY <2>1, <3>1, <3>2 DEF Maps
  <2> QED
    BY <2>2, <2>3
<1>22. new \in Conf
  <2>1. ASSUME NEW n \in 1 .. MaxBlock, <<p, N, c>> \in conf[n] PROVE FALSE
    <3>1. <<p, N, c>>[2] <= h.num
      BY <2>1 DEF HInv, Confirmed
    <3> QED
      BY <3>1, <1>1
  <2>2. \A n \in 1 .. MaxBlock : N - c <= n /\ n <= N => <<p, N, c>> \notin conf[n]
    BY <2>1
  <2>3. Confirms(conf, p, N, c) \in Conf
    BY <1>2, <2>2, ConfirmsIs
  <2> QED
    BY <2>3
<1> QED
  BY <1>9, <1>13, <1>15, <1>16, <1>17, <1>18, <1>20, <1>21, <1>22 DEF KInv

\* maybe_promote_pending: whom the header did not remember confirmed nothing
\* above the pending schedule's block, which is irreversible now.
LEMMA PromoteKeeps ==
    ASSUME NEW conf \in Conf, NEW k, KInv(k, conf), NEW p \in Producer,
           NEW m, m = maybe_promote_pending(k, p)
    PROVE  HInv(m, conf) /\ m.num = k.num /\ m.lib = k.lib /\ m.dpos = k.dpos
<1>1. CASE ~Promotes(k)
  BY <1>1 DEF maybe_promote_pending, KInv, HInv
<1>2. CASE Promotes(k)
  <2>1. /\ IsHeader(k) /\ k.num \in Nat /\ k.num > 1 /\ k.dpos \in Nat /\ k.lib \in Nat
        /\ k.pending_lib \in Nat /\ IsMap(k.produced) /\ IsMap(k.implied)
    BY DEF KInv, Types, IsHeader
  <2>2. k.pending.producers # <<>> /\ GoodList(k.pending.producers) /\ k.lib >= k.pending_lib
    BY <1>2 DEF Promotes, KInv, Lists
  <2>3. /\ DOMAIN m = DOMAIN k
        /\ m.num = k.num /\ m.active = k.pending /\ m.pending = NoSchedule
        /\ m.pending_lib = k.pending_lib /\ m.lib = k.lib /\ m.dpos = k.dpos /\ m.counts = k.counts
        /\ m.produced = Assign(Rebuild(k.produced, k.pending, k.lib), p, k.num)
        /\ m.implied = Rebuild(k.implied, k.pending, k.lib)
    BY <1>2, <2>1 DEF maybe_promote_pending, IsHeader
  <2>4. ToSet(k.pending.producers) \subseteq Producer
    BY <2>2, CountList
  <2>5. /\ IsMap(m.produced) /\ DOMAIN m.produced = ToSet(k.pending.producers) \cup {p}
        /\ \A q \in ToSet(k.pending.producers) : q # p =>
              m.produced[q] = IF q \in DOMAIN k.produced THEN k.produced[q] ELSE k.lib
        /\ m.produced[p] = k.num
    BY <2>1, <2>3, <2>4 DEF Assign, Rebuild, IsMap
  <2>6. Implies(m.implied, m.lib, m.dpos) /\ DOMAIN m.implied = ToSet(k.pending.producers)
    <3>1. Implies(k.implied, k.lib, k.dpos)
      BY <2>1 DEF KInv, Irreversible, Implies
    <3>2. /\ Implies(Rebuild(k.implied, k.pending, k.lib), k.lib, k.dpos)
          /\ DOMAIN Rebuild(k.implied, k.pending, k.lib) = ToSet(k.pending.producers)
      BY <3>1, <2>2, RebuildLib
    <3> QED
      BY <3>2, <2>3
  <2>7. Types(m)
    <3>1. m.pending \in Schedule
      BY <2>3 DEF NoSchedule, Schedule
    <3>2. IsMap(m.implied)
      BY <2>6 DEF Implies
    <3> QED
      BY <2>1, <2>3, <2>5, <3>1, <3>2 DEF KInv, Types, IsHeader
  <2>8. Lists(m)
    BY <2>2, <2>3 DEF Lists, NoSchedule
  <2>9. Maps(m)
    <3>1. m.num # 1
      BY <2>1, <2>3
    <3>2. /\ ToSet(m.active.producers) \subseteq DOMAIN m.produced
          /\ ToSet(m.active.producers) = DOMAIN m.implied
      BY <2>3, <2>5, <2>6
    <3> QED
      BY <3>1, <3>2 DEF Maps
  <2>10. Irreversible(m)
    <3>1. m.dpos <= m.num - Len(m.counts)
      BY <2>3 DEF KInv, Irreversible
    <3> QED
      BY <2>6, <3>1 DEF Irreversible, Implies
  <2>11. Lacking(m, conf) /\ Proposing(m, conf)
    BY <2>3 DEF KInv, Lacking, Proposing
  <2>12. ASSUME NEW n \in 1 .. MaxBlock, NEW e \in conf[n]
         PROVE  n <= m.num /\ e[2] <= m.num /\ (e[1] \in DOMAIN m.produced => n <= m.produced[e[1]])
    <3>0. PICK q : q = e[1]
      OBVIOUS
    <3>1. /\ n <= k.num /\ e[2] <= k.num
          /\ q \in DOMAIN k.produced => n <= k.produced[q]
          /\ q \notin DOMAIN k.produced => n <= k.pending_lib
      BY <2>2, <3>0 DEF KInv, Confirmed
    <3>2. q \notin DOMAIN k.produced => n <= k.lib
      BY <2>1, <2>2, <3>1
    <3> QED
      BY <2>3, <2>5, <3>0, <3>1, <3>2
  <2>13. Confirmed(m, conf)
    BY <2>3, <2>12 DEF Confirmed, NoSchedule
  <2> QED
    BY <2>3, <2>7, <2>8, <2>9, <2>10, <2>11, <2>13 DEF HInv
<1> QED
  BY <1>1, <1>2

\* set_new_producers.
LEMMA NewProducersKeep ==
    ASSUME NEW conf \in Conf, NEW h, HInv(h, conf), h.num > 1, NEW s \in Schedule,
           GoodList(s.producers), NEW m, m = set_new_producers(h, s)
    PROVE  HInv(m, conf) /\ m.num = h.num /\ m.lib = h.lib /\ m.dpos = h.dpos
<1>1. IsHeader(h) /\ h.num \in Nat
  BY DEF HInv, Types, IsHeader
<1>2. /\ DOMAIN m = DOMAIN h
      /\ m.num = h.num /\ m.active = h.active /\ m.pending = s /\ m.pending_lib = h.num
      /\ m.lib = h.lib /\ m.dpos = h.dpos /\ m.counts = h.counts
      /\ m.produced = h.produced /\ m.implied = h.implied
  BY <1>1 DEF set_new_producers, IsHeader
<1>3. Types(m)
  BY <1>1, <1>2 DEF HInv, Types, IsHeader
<1>4. Lists(m)
  BY <1>2 DEF HInv, Lists
<1>5. Maps(m)
  BY <1>1, <1>2 DEF HInv, Maps
<1>6. Irreversible(m) /\ Lacking(m, conf) /\ Proposing(m, conf)
  BY <1>2 DEF HInv, Irreversible, Lacking, Proposing
<1>7. Confirmed(m, conf)
  BY <1>2 DEF HInv, Confirmed
<1> QED
  BY <1>2, <1>3, <1>4, <1>5, <1>6, <1>7 DEF HInv

\* start_block: all of the steps.
LEMMA StartKeeps ==
    ASSUME NEW conf \in Conf, NEW h, HInv(h, conf), h.num < MaxBlock, NEW c \in Nat,
           NEW p \in ToSet(h.active.producers),
           NEW prop \in Proposal, prop # NoProposal => GoodList(prop.producers),
           NEW b, b = start_block(h, prop, p, c),
           NEW new, new = Confirms(conf, p, h.num + 1, c)
    PROVE  /\ new \in Conf /\ HInv(b.header, new)
           /\ b.header.num = h.num + 1 /\ h.lib <= b.header.lib /\ h.dpos <= b.header.dpos
           /\ b.proposed \in Proposal /\ (b.proposed # NoProposal => GoodList(b.proposed.producers))
<1>1. PICK k, m : k = Counted(h, p, c) /\ m = maybe_promote_pending(k, p)
  OBVIOUS
<1>2. new \in Conf /\ KInv(k, new) /\ h.lib <= k.lib /\ h.dpos <= k.dpos
  <2>1. PICK N \in Nat : N = h.num + 1
    BY DEF HInv, Types, IsHeader
  <2> QED
    BY <1>1, <2>1, CountedKeeps
<1>3. k.num = h.num + 1
  BY <1>1, CountedFields DEF HInv, Types
<1>4. p \in Producer
  BY CountList DEF HInv, Lists
<1>5. HInv(m, new) /\ m.num = k.num /\ m.lib = k.lib /\ m.dpos = k.dpos
  BY <1>1, <1>2, <1>4, PromoteKeeps
<1>6. m = next_header(h, p, c)
  BY <1>1 DEF next_header, Counted
<1>7. CASE Promotable(m, prop, m.active # h.active)
  <2> DEFINE s == [version |-> prop.version, producers |-> prop.producers]
  <2>1. b = [header |-> set_new_producers(m, s), proposed |-> NoProposal]
    BY <1>6, <1>7 DEF start_block
  <2>2. s \in Schedule /\ GoodList(s.producers)
    BY <1>7 DEF Promotable, Proposal, Schedule
  <2> HIDE DEF s
  <2>3. m.num > 1
    BY <1>2, <1>5 DEF KInv
  <2>4. HInv(b.header, new) /\ b.header.num = m.num /\ b.header.lib = m.lib /\ b.header.dpos = m.dpos
    BY <1>2, <1>5, <2>1, <2>2, <2>3, NewProducersKeep
  <2>5. b.proposed = NoProposal /\ NoProposal \in Proposal
    BY <2>1 DEF NoProposal, Proposal
  <2> QED
    BY <1>2, <1>3, <1>5, <2>4, <2>5
<1>8. CASE ~Promotable(m, prop, m.active # h.active)
  <2>1. b = [header |-> m, proposed |-> prop]
    BY <1>6, <1>8 DEF start_block
  <2> QED
    BY <1>2, <1>3, <1>5, <2>1
<1> QED
  BY <1>7, <1>8

\* Who names no more blocks than there are confirms none twice: what the check
\* of next is for.
LEMMA ConfirmsFresh ==
    ASSUME NEW conf \in Conf, NEW h, HInv(h, conf), h.num < MaxBlock, NEW c \in 0 .. h.num + 1,
           NEW p \in ToSet(h.active.producers), MayConfirm(h, p, c)
    PROVE  \A n \in 1 .. MaxBlock : h.num + 1 - c <= n /\ n <= h.num + 1 =>
              \A e \in conf[n] : e[1] # p
<1>1. /\ h.num \in Nat /\ h.num >= 1 /\ h.num + 1 <= MaxBlock /\ MaxBlock \in Nat /\ MaxBlock < Word
      /\ IsMap(h.produced) /\ Word \in Nat
  BY BoundAssumption, HeaderAssumption DEF HInv, Types, IsHeader
<1>2. SUFFICES ASSUME NEW n \in 1 .. MaxBlock, h.num + 1 - c <= n, NEW e \in conf[n], e[1] = p
               PROVE  FALSE
  OBVIOUS
<1>3. /\ p \in DOMAIN h.produced => n <= h.produced[p]
      /\ p \notin DOMAIN h.produced /\ h.pending.producers # <<>> => n <= h.pending_lib
  BY <1>2 DEF HInv, Confirmed
<1>4. CASE p \in DOMAIN h.produced
  <2>1. h.produced[p] \in Nat /\ h.produced[p] < (h.num + 1 - c) % Word
    BY <1>1, <1>4 DEF IsMap, MayConfirm
  <2>2. PICK x \in Nat : x = h.num + 1 - c
    BY <1>1
  <2>3. x < Word
    BY <1>1, <2>2
  <2>4. x % Word = x
    BY <1>1, <2>3
  <2>5. h.produced[p] < x /\ x <= n /\ n <= h.produced[p]
    BY <1>2, <1>3, <1>4, <2>1, <2>2, <2>4
  <2> QED
    BY <2>1, <2>2, <2>5
<1>5. CASE p \notin DOMAIN h.produced
  <2>1. h.pending.producers # <<>> /\ h.pending_lib = 0
    BY <1>5 DEF HInv, Maps
  <2> QED
    BY <1>3, <1>5, <2>1
<1> QED
  BY <1>4, <1>5

\* A header keeps confirmations distinct, or wraps the check.
LEMMA DistinctKeeps ==
    ASSUME NEW conf \in Conf, NEW h, HInv(h, conf), h.num < MaxBlock, NEW c \in Nat,
           NEW p \in ToSet(h.active.producers), MayConfirm(h, p, c), Distinct(conf),
           NEW N \in Nat, N = h.num + 1
    PROVE  Distinct(Confirms(conf, p, N, c))
<1>1. PICK new, ev : new = Confirms(conf, p, N, c) /\ ev = <<p, N, c>>
  OBVIOUS
<1>2. h.num \in Nat /\ MaxBlock \in Nat /\ N = h.num + 1
  BY BoundAssumption DEF HInv, Types, IsHeader
<1>3. ev[1] = p /\ ev[2] = N /\ ev[3] = c
  BY <1>1
<1>4. SUFFICES ASSUME NEW n \in 1 .. MaxBlock, NEW e \in new[n], NEW f \in new[n], e[1] = f[1]
               PROVE  (e[2] = f[2] => e = f) /\ (e[2] < f[2] => Wraps(f))
  BY <1>1 DEF Distinct
<1>5. \A x \in new[n] : x \in conf[n] \/ (x = ev /\ N - c <= n /\ n <= N)
  <2>1. new[n] = IF N - c <= n /\ n <= N THEN conf[n] \cup {ev} ELSE conf[n]
    BY <1>1 DEF Confirms
  <2> QED
    BY <2>1
<1>6. \A x \in conf[n] : x[2] \in Nat /\ x[2] <= h.num
  BY CardConf DEF HInv, Confirmed, Event
<1>7. CASE e \in conf[n] /\ f \in conf[n]
  BY <1>4, <1>7 DEF Distinct
<1>8. CASE e = ev /\ f = ev
  BY <1>2, <1>3, <1>8
<1>9. CASE e = ev /\ f \in conf[n]
  BY <1>2, <1>3, <1>6, <1>9
<1>10. CASE e \in conf[n] /\ f = ev /\ N - c <= n /\ n <= N
  <2>1. e[2] # f[2]
    BY <1>2, <1>3, <1>6, <1>10
  <2>2. Wraps(f)
    <3>1. CASE c <= N
      <4>1. c \in 0 .. h.num + 1
        BY <1>2, <3>1
      <4>2. e[1] # p
        BY <1>2, <1>10, <4>1, ConfirmsFresh
      <4> QED
        BY <1>3, <1>4, <1>10, <4>2
    <3>2. CASE c > N
      BY <1>2, <1>3, <1>10, <3>2 DEF Wraps
    <3> QED
      BY <1>2, <3>1, <3>2
  <2> QED
    BY <2>1, <2>2
<1> QED
  BY <1>5, <1>7, <1>8, <1>9, <1>10

\* More than two thirds of the producers of h have built where lib was proposed.
Backed(h, bl, lib) ==
    3 * Cardinality({q \in ToSet(h.active.producers) : bl[q] >= lib}) > 2 * Len(h.active.producers)

\* The number implied for a producer that joins is the irreversible one, so
\* that what is above it was built.
LEMMA StartBuilds ==
    ASSUME NEW conf \in Conf, NEW h, HInv(h, conf), h.num < MaxBlock, NEW c \in Nat,
           NEW p \in ToSet(h.active.producers), NEW prop, NEW b, b = start_block(h, prop, p, c),
           NEW bl \in [Producer -> Nat], Builds(h, bl), NEW new, new = [bl EXCEPT ![p] = h.dpos]
    PROVE  /\ new \in [Producer -> Nat] /\ Builds(b.header, new)
           /\ b.header.lib > h.lib => Backed(h, new, b.header.lib)
<1>1. PICK k, m : k = Counted(h, p, c) /\ m = maybe_promote_pending(k, p)
  OBVIOUS
<1>2. PICK cs : cs = Confirms(conf, p, h.num + 1, c)
  OBVIOUS
<1>3. cs \in Conf /\ KInv(k, cs) /\ h.lib <= k.lib /\ k.lib <= h.dpos
  <2>1. PICK N \in Nat : N = h.num + 1
    BY DEF HInv, Types, IsHeader
  <2> QED
    BY <1>1, <1>2, <2>1, CountedKeeps
<1>4. /\ IsHeader(h) /\ h.dpos \in Nat /\ h.lib \in Nat /\ IsMap(h.implied)
      /\ GoodList(h.active.producers)
  BY DEF HInv, Types, IsHeader, Lists
<1>5. p \in Producer /\ ToSet(h.active.producers) \subseteq Producer
  BY <1>4, CountList
<1>6. /\ IsHeader(k) /\ k.lib \in Nat /\ IsMap(k.implied) /\ Cardinality(Low(k.implied, k.lib)) <= Third
  BY <1>3 DEF KInv, Types, IsHeader, Irreversible
<1>7. k.implied = Assign(h.implied, p, h.dpos)
  BY <1>1, <1>4, CountedFields
<1>8. /\ DOMAIN k.implied = DOMAIN h.implied \cup {p} /\ k.implied[p] = h.dpos
      /\ \A q \in DOMAIN h.implied : q # p => k.implied[q] = h.implied[q]
  BY <1>7 DEF Assign
<1>9. new \in [Producer -> Nat] /\ new[p] = h.dpos /\ \A q \in Producer : q # p => new[q] = bl[q]
  BY <1>4, <1>5
<1>10. ASSUME NEW q \in DOMAIN k.implied, k.implied[q] > h.lib PROVE new[q] >= k.implied[q]
  <2>0. q \in Producer /\ k.implied[q] \in Nat
    BY <1>6 DEF IsMap
  <2>1. CASE q = p
    BY <1>4, <1>8, <1>9, <2>1
  <2>2. CASE q # p
    <3>1. q \in DOMAIN h.implied /\ k.implied[q] = h.implied[q] /\ new[q] = bl[q]
      BY <1>8, <1>9, <2>0, <2>2
    <3> QED
      BY <1>10, <3>1 DEF Builds
  <2> QED
    BY <2>1, <2>2
<1>11. Builds(k, new)
  <2>1. \A q \in DOMAIN k.implied : k.implied[q] \in Nat
    BY <1>6 DEF IsMap
  <2> QED
    BY <1>3, <1>4, <1>6, <1>10, <2>1 DEF Builds
<1>12. Builds(m, new) /\ m.lib = k.lib /\ DOMAIN m = DOMAIN k
  <2>1. CASE Promotes(k)
    <3>1. m.implied = Rebuild(k.implied, k.pending, k.lib) /\ m.lib = k.lib /\ DOMAIN m = DOMAIN k
      BY <1>1, <1>6, <2>1 DEF maybe_promote_pending, IsHeader
    <3>2. ASSUME NEW q \in DOMAIN m.implied, m.implied[q] > m.lib PROVE new[q] >= m.implied[q]
      <4>1. m.implied[q] = IF q \in DOMAIN k.implied THEN k.implied[q] ELSE k.lib
        BY <3>1, <3>2 DEF Rebuild
      <4>2. q \in DOMAIN k.implied
        BY <1>6, <3>1, <3>2, <4>1
      <4> QED
        BY <1>11, <3>1, <3>2, <4>1, <4>2 DEF Builds
    <3> QED
      BY <3>1, <3>2 DEF Builds
  <2>2. CASE ~Promotes(k)
    BY <1>1, <1>11, <2>2 DEF maybe_promote_pending
  <2> QED
    BY <2>1, <2>2
<1>13. b.header.implied = m.implied /\ b.header.lib = m.lib
  <2>1. m = next_header(h, p, c)
    BY <1>1 DEF next_header, Counted
  <2> QED
    BY <1>6, <1>12, <2>1 DEF start_block, set_new_producers, IsHeader
<1>14. Builds(b.header, new)
  BY <1>12, <1>13 DEF Builds
<1>15. ASSUME k.lib > h.lib PROVE Backed(h, new, k.lib)
  <2> DEFINE A == ToSet(h.active.producers)
             low == Low(k.implied, k.lib)
             high == {q \in A : new[q] >= k.lib}
  <2>1. DOMAIN k.implied = A
    <3>1. h.num # 1
      <4>1. h.num = 1 => h.dpos = 0
        BY DEF HInv, Maps
      <4> QED
        BY <1>3, <1>4, <1>6, <1>15, <4>1
    <3> QED
      BY <1>8, <3>1 DEF HInv, Maps
  <2>2. IsFiniteSet(A) /\ Cardinality(A) = Size /\ Len(h.active.producers) = Size
    BY <1>4, CountList DEF GoodList
  <2>3. low \subseteq A /\ A \ low \subseteq high /\ high \subseteq A
    <3>1. ASSUME NEW q \in A, q \notin low PROVE new[q] >= k.lib
      <4>1. k.implied[q] \in Nat /\ k.implied[q] >= k.lib
        BY <1>6, <2>1, <3>1 DEF Low, IsMap
      <4>2. new[q] >= k.implied[q] /\ new[q] \in Nat
        BY <1>4, <1>5, <1>6, <1>9, <1>10, <1>15, <2>1, <4>1
      <4> QED
        BY <1>6, <4>1, <4>2
    <3> QED
      BY <2>1, <3>1 DEF Low
  <2> HIDE DEF A, low, high
  <2>4. IsFiniteSet(low) /\ Cardinality(low) \in Nat /\ A \cap low = low
    BY <2>2, <2>3, FiniteSubset
  <2>5. Cardinality(A \ low) = Size - Cardinality(low)
    <3>1. Cardinality(A \ low) = Cardinality(A) - Cardinality(A \cap low)
      BY <2>2, FS_Difference
    <3> QED
      BY <2>2, <2>4, <3>1
  <2>6. IsFiniteSet(high) /\ Cardinality(high) \in Nat
    BY <2>2, <2>3, FiniteSubset
  <2>7. Cardinality(A \ low) <= Cardinality(high) /\ Cardinality(A \ low) \in Nat
    BY <2>3, <2>6, FiniteSubset
  <2>8. Cardinality(low) <= Third
    BY <1>6 DEF low
  <2>9. Cardinality(high) >= Size - Third
    BY <2>4, <2>5, <2>6, <2>7, <2>8, SizeType
  <2>10. 3 * (Size - Third) > 2 * Size
    BY SizeType DEF Third
  <2>11. 3 * Cardinality(high) > 2 * Size
    BY <2>6, <2>9, <2>10, SizeType
  <2> QED
    BY <2>2, <2>11 DEF Backed, high, A
<1> QED
  BY <1>9, <1>12, <1>13, <1>14, <1>15

----------------------------------------------------------------------------
(* The specification. *)

\* The genesis state.
LEMMA InitHolds == ASSUME OneSize, Init PROVE IInv
<1>1. FirstSchedule \in Seq(Producer) /\ GoodList(FirstSchedule) /\ FirstSchedule # <<>>
  BY GoodSchedules, ScheduleAssumption
<1>2. /\ DOMAIN head = {"num", "active", "pending", "pending_lib", "produced",
                        "implied", "counts", "dpos", "lib"}
      /\ head.num = 1 /\ head.active = [version |-> 0, producers |-> FirstSchedule]
      /\ head.pending = [version |-> 0, producers |-> FirstSchedule]
      /\ head.pending_lib = 0 /\ head.produced = <<>> /\ head.implied = <<>>
      /\ head.counts = <<>> /\ head.dpos = 0 /\ head.lib = 0
  BY DEF Init, Genesis
<1>3. IsMap(<<>>) /\ DOMAIN <<>> = {} /\ Len(<<>>) = 0 /\ <<>> \in Seq(Nat)
  BY DEF IsMap
<1>4. head.active \in Schedule /\ head.pending \in Schedule
  BY <1>1, <1>2 DEF Schedule
<1>5. Types(head)
  BY <1>2, <1>3, <1>4 DEF Types, IsHeader
<1>6. Lists(head) /\ Maps(head)
  BY <1>1, <1>2 DEF Lists, Maps
<1>7. Irreversible(head)
  <2>1. Low(head.implied, head.lib) = {}
    BY <1>2, <1>3 DEF Low
  <2>2. Cardinality(Low(head.implied, head.lib)) = 0
    BY <2>1, FS_EmptySet
  <2> QED
    BY <1>2, <1>3, <2>2, SizeType DEF Irreversible
<1>8. confirmations \in Conf /\ \A n \in 1 .. MaxBlock : confirmations[n] = {}
  BY FS_EmptySet DEF Init, Conf
<1>9. /\ Lacking(head, confirmations) /\ Confirmed(head, confirmations)
      /\ Proposing(head, confirmations) /\ Distinct(confirmations)
  BY <1>2, <1>3, <1>8 DEF Lacking, Lacks, Confirmed, Proposing, Distinct
<1>b. built \in [Producer -> Nat] /\ Builds(head, built)
  BY <1>2, <1>3 DEF Init, Builds
<1>10. slot \in Nat /\ faults \in 0 .. MaxFaults /\ IsMap(watermark) /\ proposed = NoProposal
  BY <1>3, BoundAssumption DEF Init
<1>11. NoProposal \in Proposal
  BY DEF NoProposal, Proposal
<1> QED
  BY <1>5, <1>6, <1>7, <1>8, <1>9, <1>b, <1>10, <1>11 DEF IInv, HInv

\* A block keeps the invariant and lowers neither number.
LEMMA NextKeeps ==
    ASSUME OneSize, IInv, Next
    PROVE  /\ IInv' /\ head.lib <= head'.lib /\ head.dpos <= head'.dpos
           /\ head'.lib > head.lib => Backed(head, built', head'.lib)
<1>1. PICK t \in slot + 1 .. slot + 1 + MaxFaults - faults, s \in Schedules \cup {<<>>} :
        \E c \in Attempts : next(t, c, s)
  BY DEF Next
<1>2. PICK c \in Attempts : next(t, c, s)
  BY <1>1
<1>3. PICK p, b : /\ p = get_scheduled_producer(head.active, t)
                  /\ b = start_block(head, proposed, p, c)
  OBVIOUS
<1>4. /\ slot \in Nat /\ faults \in 0 .. MaxFaults /\ MaxFaults \in Nat /\ t \in Nat /\ t > slot
      /\ head.num \in Nat /\ head.num >= 1 /\ confirmations \in Conf /\ IsMap(watermark)
      /\ HInv(head, confirmations) /\ Distinct(confirmations)
      /\ built \in [Producer -> Nat] /\ Builds(head, built)
  BY <1>1, BoundAssumption DEF IInv, HInv, Types, IsHeader
<1>5. p \in ToSet(head.active.producers) /\ p \in Producer
  <2>1. GoodList(head.active.producers)
    BY <1>4 DEF HInv, Lists
  <2>2. p \in ToSet(head.active.producers)
    BY <1>3, <1>4, <2>1, ScheduledIsActive
  <2> QED
    BY <2>1, <2>2, CountList
<1>6. Confirmable(p) \in 0 .. head.num
  BY <1>4 DEF Confirmable, blocks_to_confirm, IsMap
<1>7. c \in Nat
  BY <1>2, <1>4, ClaimAssumption DEF Attempts
<1>8. /\ head.num < MaxBlock /\ MayConfirm(head, p, c)
      /\ faults' = faults + (t - slot - 1) + (IF c <= Confirmable(p) THEN Confirmable(p) - c ELSE 1)
      /\ faults' <= MaxFaults /\ slot' = t
      /\ head' = b.header /\ proposed' = Propose(s, b.header, b.proposed)
      /\ watermark' = Assign(Overlay(Installed(b.header, t, Producer), watermark), p, head.num + 1)
      /\ confirmations' = Confirms(confirmations, p, head.num + 1, c)
      /\ built' = [built EXCEPT ![p] = head.dpos]
  BY <1>2, <1>3 DEF next, Confirms
<1>9. /\ Distinct(confirmations')
      /\ built' \in [Producer -> Nat] /\ Builds(head', built')
      /\ head'.lib > head.lib => Backed(head, built', head'.lib)
  <2>1. Distinct(confirmations')
    <3>1. PICK N \in Nat : N = head.num + 1
      BY <1>4
    <3> QED
      BY <1>4, <1>5, <1>7, <1>8, <3>1, DistinctKeeps
  <2>2. /\ built' \in [Producer -> Nat] /\ Builds(b.header, built')
        /\ b.header.lib > head.lib => Backed(head, built', b.header.lib)
    BY <1>3, <1>4, <1>5, <1>7, <1>8, StartBuilds
  <2> QED
    BY <1>8, <2>1, <2>2
<1>10. /\ confirmations' \in Conf /\ HInv(b.header, confirmations')
       /\ b.header.num = head.num + 1 /\ head.lib <= b.header.lib /\ head.dpos <= b.header.dpos
       /\ b.proposed \in Proposal /\ (b.proposed # NoProposal => GoodList(b.proposed.producers))
  <2>1. proposed \in Proposal /\ (proposed # NoProposal => GoodList(proposed.producers))
    BY DEF IInv
  <2> QED
    BY <1>3, <1>4, <1>5, <1>7, <1>8, <2>1, StartKeeps
<1>11. slot' \in Nat /\ faults' \in 0 .. MaxFaults
  <2>1. PICK x \in Nat : x = IF c <= Confirmable(p) THEN Confirmable(p) - c ELSE 1
    BY <1>6, <1>7
  <2>2. faults' = faults + (t - slot - 1) + x
    BY <1>8, <2>1
  <2> QED
    BY <1>4, <1>8, <2>1, <2>2
<1>12. IsMap(watermark')
  <2>1. PICK w : w = Installed(b.header, t, Producer)
    OBVIOUS
  <2>2. DOMAIN w \subseteq Producer /\ w \in [DOMAIN w -> Nat]
    BY <1>4, <1>10, <2>1 DEF Installed
  <2>3. PICK v : v = Overlay(w, watermark)
    OBVIOUS
  <2>4. DOMAIN v \subseteq Producer /\ v \in [DOMAIN v -> Nat]
    BY <1>4, <2>2, <2>3 DEF Overlay, IsMap
  <2>5. watermark' = Assign(v, p, head.num + 1)
    BY <1>8, <2>1, <2>3
  <2> QED
    BY <1>4, <1>5, <2>4, <2>5 DEF Assign, IsMap
<1>13. proposed' \in Proposal /\ (proposed' # NoProposal => GoodList(proposed'.producers))
  <2>1. PICK g : g = b.header
    OBVIOUS
  <2>2. g.active \in Schedule /\ g.pending \in Schedule /\ g.num \in Nat
    BY <1>10, <2>1 DEF HInv, Types, IsHeader
  <2>3. s # <<>> => s \in Seq(Producer) /\ GoodList(s)
    BY <1>1, GoodSchedules, ScheduleAssumption
  <2>4. proposed' = Propose(s, g, b.proposed)
    BY <1>8, <2>1
  <2> DEFINE top == IF g.pending.producers = <<>> THEN g.active ELSE g.pending
  <2>5. top \in Schedule
    BY <2>2
  <2>6. \/ proposed' = b.proposed
        \/ s # <<>> /\ proposed' = [version |-> top.version + 1, producers |-> s, num |-> g.num]
    BY <2>4 DEF Propose
  <2> HIDE DEF top
  <2> QED
    BY <1>10, <2>2, <2>3, <2>5, <2>6 DEF Proposal, Schedule
<1> QED
  BY <1>8, <1>9, <1>10, <1>11, <1>12, <1>13 DEF IInv

\* The inductive invariant.
THEOREM Invariant == OneSize /\ Spec => []IInv
<1> SUFFICES ASSUME OneSize PROVE Spec => []IInv
  OBVIOUS
<1>1. Init => IInv
  BY InitHolds
<1>2. IInv /\ [Next]_vars => IInv'
  <2>1. CASE Next
    BY <2>1, NextKeeps
  <2>2. CASE UNCHANGED vars
    BY <2>2 DEF IInv, vars
  <2> QED
    BY <2>1, <2>2
<1> QED
  BY <1>1, <1>2, PTL DEF Spec

\* The counts of confirm_count are the confirmations their blocks lack, and no
\* producer is counted for a block again but by a header whose count wraps the
\* check of next, for every window size, schedule size and chain, and for
\* every set of counts that headers may name.
THEOREM CountsAreRight == OneSize /\ Spec => []CountsMatchConfirmations
<1> SUFFICES ASSUME OneSize PROVE Spec => []CountsMatchConfirmations
  OBVIOUS
<1>1. ASSUME IInv PROVE CountsMatchConfirmations
  <2>1. required_confs(head.active) = Needed
    BY <1>1 DEF IInv, HInv, Lists, GoodList, required_confs, Needed
  <2>2. TypeOK
    <3>1. \A n \in 1 .. MaxBlock : confirmations[n] \in SUBSET (Producer \X Nat \X Nat)
      BY <1>1, CardConf DEF IInv, Event
    <3>2. DOMAIN confirmations = 1 .. MaxBlock /\ confirmations = [n \in 1 .. MaxBlock |-> confirmations[n]]
      BY <1>1 DEF IInv, Conf
    <3>3. confirmations \in [1 .. MaxBlock -> SUBSET (Producer \X Nat \X Nat)]
      BY <3>1, <3>2
    <3> QED
      BY <1>1, <3>3 DEF IInv, HInv, Types, TypeOK
  <2>3. \A i \in 1 .. Len(head.counts) :
          head.counts[i] + Cardinality(confirmations[head.num - Len(head.counts) + i])
              = required_confs(head.active)
    BY <1>1, <2>1 DEF IInv, HInv, Lacking, Lacks
  <2>4. \A n \in 1 .. MaxBlock : \A e, f \in confirmations[n] :
          e[1] = f[1] /\ e[2] < f[2] => Wraps(f)
    BY <1>1 DEF IInv, Distinct
  <2> QED
    BY <2>2, <2>3, <2>4 DEF CountsMatchConfirmations
<1> QED
  BY <1>1, Invariant, PTL

\* Confirmations that do not wrap the check are by different producers.
LEMMA SoundConfirmers ==
    ASSUME NEW conf \in Conf, Distinct(conf), NEW n \in 1 .. MaxBlock, NEW S,
           S = {e \in conf[n] : ~Wraps(e)}
    PROVE  /\ Cardinality(conf[n]) = Cardinality({e[1] : e \in S}) + Cardinality(conf[n] \ S)
           /\ Cardinality({e[1] : e \in S}) \in Nat /\ Cardinality(conf[n] \ S) \in Nat
<1>1. IsFiniteSet(conf[n]) /\ conf[n] \subseteq Event /\ S \subseteq conf[n]
  BY CardConf
<1>2. IsFiniteSet(S) /\ Cardinality(S) \in Nat
  BY <1>1, FiniteSubset
<1>3. Cardinality(conf[n] \ S) = Cardinality(conf[n]) - Cardinality(S)
  <2>1. conf[n] \cap S = S
    BY <1>1
  <2>2. Cardinality(conf[n] \ S) = Cardinality(conf[n]) - Cardinality(conf[n] \cap S)
    BY <1>1, FS_Difference
  <2> QED
    BY <2>1, <2>2
<1> DEFINE g == [e \in S |-> e[1]]
           W == {e[1] : e \in S}
<1>4. ASSUME NEW e \in S, NEW f \in S, e[1] = f[1] PROVE e = f
  <2>1. e \in conf[n] /\ f \in conf[n] /\ e[2] \in Nat /\ f[2] \in Nat
    BY <1>1 DEF Event
  <2>2. ~(e[2] < f[2]) /\ ~(f[2] < e[2])
    BY <1>4, <2>1 DEF Distinct
  <2>3. e[2] = f[2]
    BY <2>1, <2>2
  <2> QED
    BY <1>4, <2>1, <2>3 DEF Distinct
<1>5. g \in Bijection(S, W)
  <2>1. g \in [S -> W]
    OBVIOUS
  <2>2. \A e, f \in S : g[e] = g[f] => e = f
    BY <1>4
  <2>3. \A w \in W : \E e \in S : g[e] = w
    OBVIOUS
  <2> QED
    BY <2>1, <2>2, <2>3 DEF Bijection, Injection, IsInjective, Surjection
<1>6. IsFiniteSet(W) /\ Cardinality(W) = Cardinality(S)
  BY <1>2, <1>5, FS_Bijection DEF ExistsBijection
<1>7. Cardinality(conf[n] \ S) \in Nat /\ Cardinality(conf[n]) \in Nat
  BY <1>1, FiniteSubset
<1> QED
  BY <1>2, <1>3, <1>6, <1>7

\* set_confirmed proposes a block only with the confirmations of more than two
\* thirds as many producers as a schedule has, where a header that wraps the
\* check of next stands for one.
THEOREM TwoThirdsPropose == OneSize /\ Spec => []ProposedByTwoThirds
<1> SUFFICES ASSUME OneSize PROVE Spec => []ProposedByTwoThirds
  OBVIOUS
<1>1. ASSUME IInv PROVE ProposedByTwoThirds
  <2> DEFINE conf == confirmations[head.dpos]
             sound == {e \in conf : ~Wraps(e)}
             x == Cardinality({e[1] : e \in sound})
             y == Cardinality(conf \ sound)
  <2>1. SUFFICES ASSUME head.dpos > 0 PROVE 3 * (x + y) > 2 * Len(head.active.producers)
    BY DEF ProposedByTwoThirds
  <2>2. Cardinality(conf) >= Needed /\ Len(head.active.producers) = Size
    BY <1>1, <2>1 DEF IInv, HInv, Proposing, Lists, GoodList
  <2>3. head.dpos \in 1 .. MaxBlock
    <3>1. /\ head.dpos \in Nat /\ head.num \in Nat /\ Len(head.counts) \in Nat /\ MaxBlock \in Nat
          /\ head.dpos <= head.num - Len(head.counts)
      BY <1>1, BoundAssumption DEF IInv, HInv, Types, IsHeader, Irreversible
    <3>2. head.num <= MaxBlock
      <4>1. head.num # 1
        BY <1>1, <2>1 DEF IInv, HInv, Maps
      <4> QED
        BY <1>1, <3>1, <4>1 DEF IInv, HInv, Types
    <3> QED
      BY <2>1, <3>1, <3>2
  <2>4. Cardinality(conf) = x + y /\ x \in Nat /\ y \in Nat
    <3>1. confirmations \in Conf /\ Distinct(confirmations)
      BY <1>1 DEF IInv
    <3> QED
      BY <2>3, <3>1, SoundConfirmers
  <2> HIDE DEF x, y, conf
  <2> QED
    BY <2>2, <2>4, SizeType
<1> QED
  BY <1>1, Invariant, PTL

\* calc_dpos_last_irreversible and maybe_promote_pending: when the irreversible
\* block number rises, more than two thirds of the active producers have
\* themselves built where it was proposed, whoever joined or left meanwhile.
THEOREM BuildersDecide == OneSize /\ Spec => LibByBuilders
<1> SUFFICES ASSUME OneSize PROVE Spec => LibByBuilders
  OBVIOUS
<1>1. ASSUME IInv, Next PROVE head'.lib > head.lib => Backed(head, built', head'.lib)
  BY <1>1, NextKeeps
<1>2. IInv /\ [Next]_vars =>
        [head'.lib > head.lib =>
          3 * Cardinality({p \in ToSet(head.active.producers) : built'[p] >= head'.lib})
              > 2 * Len(head.active.producers)]_vars
  BY <1>1 DEF Backed
<1> QED
  BY <1>2, Invariant, PTL DEF Spec, LibByBuilders

\* generate_next and maybe_promote_pending never lower the irreversible or the
\* proposed block of a chain.
THEOREM LibMonotone == OneSize /\ Spec => LibNeverFalls
<1> SUFFICES ASSUME OneSize PROVE Spec => LibNeverFalls
  OBVIOUS
<1>1. IInv /\ [Next]_vars => [head'.lib >= head.lib /\ head'.dpos >= head.dpos]_vars
  <2>1. CASE UNCHANGED vars
    BY <2>1
  <2>2. ASSUME IInv, Next PROVE head'.lib >= head.lib /\ head'.dpos >= head.dpos
    <3>1. head.lib <= head'.lib /\ head.dpos <= head'.dpos
      BY <2>2, NextKeeps
    <3> QED
      BY <3>1
  <2> QED
    BY <2>1, <2>2
<1> QED
  BY <1>1, Invariant, PTL DEF Spec, LibNeverFalls

\* The fields of a header state.
Fields == {"num", "active", "pending", "pending_lib", "produced", "implied", "counts", "dpos", "lib"}

\* The schedule a newly proposed one follows.
Top(h) == IF h.pending.producers = <<>> THEN h.active ELSE h.pending

\* The invariant for versions.
VInv == DOMAIN head = Fields /\ VersionsLineUp

\* The version assertion of set_new_producers holds for schedules of any size.
THEOREM VersionsInLine == Spec => []VersionsLineUp
<1>1. Init => VInv
  BY DEF Init, Genesis, Fields, VInv, VersionsLineUp
<1>2. ASSUME VInv, Next PROVE VInv'
  <2>1. PICK t \in slot + 1 .. slot + 1 + MaxFaults - faults, s \in Schedules \cup {<<>>} :
          \E c \in Attempts : next(t, c, s)
    BY <1>2 DEF Next
  <2>2. PICK c \in Attempts : next(t, c, s)
    BY <2>1
  <2>3. PICK h, p, k, m, b :
          /\ h = head /\ p = get_scheduled_producer(head.active, t)
          /\ k = Counted(h, p, c) /\ m = maybe_promote_pending(k, p)
          /\ b = start_block(h, proposed, p, c)
    OBVIOUS
  <2>4. head' = b.header /\ proposed' = Propose(s, b.header, b.proposed)
    BY <2>2, <2>3 DEF next
  <2>5. DOMAIN h = Fields /\ (proposed # NoProposal => proposed.version = Top(h).version + 1)
    BY <1>2, <2>3 DEF VInv, VersionsLineUp, Top
  <2>6. DOMAIN k = Fields /\ k.active = h.active /\ k.pending = h.pending
    BY <2>3, <2>5 DEF Fields, Counted, set_confirmed, generate_next
  <2>7. DOMAIN m = Fields /\ Top(m) = Top(h)
    <3>1. CASE Promotes(k)
      <4>1. DOMAIN m = Fields /\ m.active = k.pending /\ m.pending = NoSchedule
        BY <2>3, <2>6, <3>1 DEF maybe_promote_pending, Fields
      <4>2. m.pending.producers = <<>> /\ h.pending.producers # <<>>
        BY <2>6, <3>1, <4>1 DEF NoSchedule, Promotes
      <4> QED
        BY <2>6, <4>1, <4>2 DEF Top
    <3>2. CASE ~Promotes(k)
      BY <2>3, <2>6, <3>2 DEF maybe_promote_pending, Top
    <3> QED
      BY <3>1, <3>2
  <2>8. /\ DOMAIN b.header = Fields
        /\ b.proposed # NoProposal => b.proposed.version = Top(b.header).version + 1
    <3>1. m = next_header(h, p, c)
      BY <2>3 DEF next_header, Counted
    <3>2. CASE Promotable(m, proposed, m.active # h.active)
      <4>1. b.header = set_new_producers(m, [version   |-> proposed.version,
                                             producers |-> proposed.producers])
            /\ b.proposed = NoProposal
        BY <2>3, <3>1, <3>2 DEF start_block
      <4> QED
        BY <2>7, <4>1 DEF set_new_producers
    <3>3. CASE ~Promotable(m, proposed, m.active # h.active)
      <4>1. b.header = m /\ b.proposed = proposed
        BY <2>3, <3>1, <3>3 DEF start_block
      <4> QED
        BY <2>5, <2>7, <4>1
    <3> QED
      BY <3>2, <3>3
  <2>9. PICK g, prop : g = b.header /\ prop = b.proposed
    OBVIOUS
  <2>10. proposed' = prop \/ proposed' = [version |-> Top(g).version + 1, producers |-> s, num |-> g.num]
    BY <2>4, <2>9 DEF Propose, Top
  <2>11. proposed' # NoProposal => proposed'.version = Top(g).version + 1
    BY <2>8, <2>9, <2>10
  <2>12. head' = g /\ DOMAIN g = Fields
    BY <2>4, <2>8, <2>9
  <2> QED
    BY <2>11, <2>12 DEF VInv, VersionsLineUp, Top
<1>3. VInv /\ UNCHANGED vars => VInv'
  BY DEF VInv, VersionsLineUp, vars
<1>4. VInv => VersionsLineUp
  BY DEF VInv
<1> QED
  BY <1>1, <1>2, <1>3, <1>4, PTL DEF Spec


----------------------------------------------------------------------------
(* Slots. *)

\* Every remainder comes up among M numbers in a row.
LEMMA Remainder ==
    ASSUME NEW t \in Nat, NEW M \in Nat \ {0}, NEW r \in 0 .. M - 1
    PROVE  \E u \in t + 1 .. t + M : u % M = r
<1>1. PICK q \in Nat, s \in 0 .. M - 1 : t = M * q + s
  <2>1. t \div M \in Nat /\ t % M \in 0 .. M - 1 /\ t = M * (t \div M) + (t % M)
    OBVIOUS
  <2> QED
    BY <2>1
<1>2. ASSUME NEW d \in Nat PROVE (M * d + r) % M = r
  <2>1. PICK x \in Nat : x = M * d + r
    OBVIOUS
  <2>2. PICK e \in Nat, w \in 0 .. M - 1 : e = x \div M /\ w = x % M /\ x = M * e + w
    <3>1. x \div M \in Nat /\ x % M \in 0 .. M - 1 /\ x = M * (x \div M) + (x % M)
      OBVIOUS
    <3> QED
      BY <3>1
  <2>3. M * d + r = M * e + w
    BY <2>1, <2>2
  <2>4. ~(d > e)
    <3> SUFFICES ASSUME d > e PROVE FALSE
      OBVIOUS
    <3>1. M * d >= M * (e + 1)
      OBVIOUS
    <3>2. M * (e + 1) = M * e + M
      OBVIOUS
    <3> QED
      BY <2>3, <3>1, <3>2
  <2>5. ~(e > d)
    <3> SUFFICES ASSUME e > d PROVE FALSE
      OBVIOUS
    <3>1. M * e >= M * (d + 1)
      OBVIOUS
    <3>2. M * (d + 1) = M * d + M
      OBVIOUS
    <3> QED
      BY <2>3, <3>1, <3>2
  <2>6. d = e
    BY <2>4, <2>5
  <2>7. w = r
    BY <2>3, <2>6
  <2> QED
    BY <2>1, <2>2, <2>7
<1>3. CASE r > s
  <2>1. M * q + r \in t + 1 .. t + M
    BY <1>1, <1>3
  <2> QED
    BY <1>2, <2>1
<1>4. CASE ~(r > s)
  <2>1. M * (q + 1) = M * q + M
    OBVIOUS
  <2>2. M * (q + 1) + r \in t + 1 .. t + M
    BY <1>1, <1>4, <2>1
  <2>3. (M * (q + 1) + r) % M = r
    BY <1>2
  <2> QED
    BY <2>2, <2>3
<1> QED
  BY <1>3, <1>4

\* A producer of a schedule has a slot after every slot.
LEMMA NextSlotLater ==
    ASSUME NEW s, s.producers \in Seq(Producer), NEW p \in ToSet(s.producers), NEW t \in Nat
    PROVE  NextSlot(s, p, t) \in Nat /\ NextSlot(s, p, t) > t
<1>1. PICK N \in Nat, R \in Nat \ {0} : N = Len(s.producers) /\ R = Repetitions
  BY HeaderAssumption
<1>2. PICK k \in 1 .. N : s.producers[k] = p
  BY <1>1 DEF ToSet
<1>3. N \in Nat \ {0}
  BY <1>2
<1>4. PICK M \in Nat \ {0} : M = N * R
  BY <1>3
<1>5. PICK j \in 0 .. N - 1 : j = k - 1
  BY <1>2
<1>6. j * R \in 0 .. M - 1
  <2>1. j + 1 <= N
    BY <1>5
  <2>2. (j + 1) * R <= N * R /\ (j + 1) * R = j * R + R /\ j * R \in Nat
    BY <2>1
  <2> QED
    BY <1>4, <2>2
<1>7. PICK u \in t + 1 .. t + M : u % M = j * R
  BY <1>6, Remainder
<1>8. (j * R) \div R = j
  OBVIOUS
<1>9. get_scheduled_producer(s, u) = p
  <2>1. get_scheduled_producer(s, u) = s.producers[(u % M) \div R + 1]
    BY <1>1, <1>4 DEF get_scheduled_producer
  <2>2. (u % M) \div R = j
    BY <1>7, <1>8
  <2>3. j + 1 = k
    BY <1>5
  <2> QED
    BY <1>2, <2>1, <2>2, <2>3
<1> DEFINE T == {v \in t + 1 .. t + M : get_scheduled_producer(s, v) = p}
<1>10. T \in SUBSET Nat /\ T # {}
  BY <1>7, <1>9
<1>11. PICK v \in T : \A w \in T : v <= w
  <2> HIDE DEF T
  <2> QED
    BY <1>10, LeastNat
<1>12. \A w \in t + 1 .. v - 1 : get_scheduled_producer(s, w) # p
  BY <1>10, <1>11
<1>13. NextSlot(s, p, t) \in t + 1 .. t + M
  <2>1. v \in t + 1 .. t + M /\ get_scheduled_producer(s, v) = p
    BY <1>11
  <2>2. t + M = t + Len(s.producers) * Repetitions
    BY <1>1, <1>4
  <2>3. \E w \in t + 1 .. t + Len(s.producers) * Repetitions :
            /\ get_scheduled_producer(s, w) = p
            /\ \A x \in t + 1 .. w - 1 : get_scheduled_producer(s, x) # p
    BY <1>12, <2>1, <2>2
  <2> QED
    BY <2>2, <2>3 DEF NextSlot
<1> QED
  BY <1>13

----------------------------------------------------------------------------
(* The tree of blocks. *)

\* A block comes after its parent.
Parents(bs) == Len(bs) \in Nat /\ \A i \in 1 .. Len(bs) : bs[i].parent \in 0 .. i - 1

UpStep(bs, up, k) == IF k = 0 THEN {} ELSE {k} \cup up[bs[k].parent]

\* Ancestors is what its definition says.
LEMMA AncestorsStep ==
    ASSUME NEW bs, Parents(bs)
    PROVE  /\ Ancestors(bs, 0) = {}
           /\ \A i \in 1 .. Len(bs) : Ancestors(bs, i) = {i} \cup Ancestors(bs, bs[i].parent)
<1> DEFINE N == Len(bs)
           Step(up, k) == UpStep(bs, up, k)
           Fine(up) == up = [k \in 0 .. N |-> Step(up, k)]
           D == {n \in Nat : n <= N => \E up : \A k \in 0 .. n : up[k] = Step(up, k)}
<1>0. N \in Nat /\ \A k \in 1 .. N : bs[k].parent \in 0 .. k - 1
  BY DEF Parents
<1>a. ASSUME NEW g, NEW h, NEW k \in 0 .. N, \A l \in 0 .. k - 1 : g[l] = h[l] PROVE Step(g, k) = Step(h, k)
  <2>1. CASE k = 0
    BY <2>1 DEF UpStep
  <2>2. CASE k # 0
    <3>1. bs[k].parent \in 0 .. k - 1
      BY <1>0, <2>2
    <3>2. g[bs[k].parent] = h[bs[k].parent]
      BY <1>a, <3>1
    <3> QED
      BY <2>2, <3>2 DEF UpStep
  <2> QED
    BY <2>1, <2>2
<1> HIDE DEF N
<1>1. 0 \in D
  <2> DEFINE up == [k \in {0} |-> Step(<<>>, k)]
  <2>1. Step(up, 0) = Step(<<>>, 0)
    BY <1>0, <1>a
  <2>2. \A k \in 0 .. 0 : up[k] = Step(up, k)
    BY <2>1
  <2> HIDE DEF up, Step
  <2> QED
    BY <2>2
<1>2. ASSUME NEW n \in Nat, n \in D PROVE n + 1 \in D
  <2> SUFFICES ASSUME n + 1 <= N PROVE \E up : \A k \in 0 .. n + 1 : up[k] = Step(up, k)
    OBVIOUS
  <2>1. PICK g : \A k \in 0 .. n : g[k] = Step(g, k)
    BY <1>0, <1>2
  <2> DEFINE h == [k \in 0 .. n + 1 |-> IF k <= n THEN g[k] ELSE Step(g, k)]
  <2> HIDE DEF Step
  <2>2. ASSUME NEW k \in 0 .. n + 1 PROVE h[k] = Step(h, k)
    <3>1. \A l \in 0 .. k - 1 : h[l] = g[l]
      OBVIOUS
    <3>2. Step(h, k) = Step(g, k)
      BY <1>0, <1>a, <3>1
    <3> QED
      BY <2>1, <3>2
  <2> HIDE DEF h
  <2> QED
    BY <2>2
<1> HIDE DEF Step
<1>3. Nat \subseteq D
  <2> HIDE DEF D
  <2> QED
    BY <1>1, <1>2, SetInduction
<1>4. PICK g : \A k \in 0 .. N : g[k] = Step(g, k)
  BY <1>0, <1>3
<1> DEFINE h == [k \in 0 .. N |-> g[k]]
<1>5. ASSUME NEW k \in 0 .. N PROVE h[k] = Step(h, k)
  <2>1. \A l \in 0 .. k - 1 : h[l] = g[l]
    BY <1>0
  <2>2. Step(h, k) = Step(g, k)
    BY <1>a, <2>1
  <2> QED
    BY <1>4, <2>2
<1>6. Fine(h)
  BY <1>5
<1> HIDE DEF h
<1>7. Fine(CHOOSE up : Fine(up))
  BY <1>6, Zenon
<1>8. \A i : Ancestors(bs, i) = (CHOOSE up : Fine(up))[i]
  BY DEF Ancestors, Step, UpStep, N
<1>9. PICK up : up = CHOOSE f : Fine(f)
  OBVIOUS
<1>10. \A k \in 0 .. N : up[k] = UpStep(bs, up, k)
  BY <1>7, <1>9 DEF Step
<1>11. \A i : Ancestors(bs, i) = up[i]
  BY <1>8, <1>9
<1> QED
  <2>1. up[0] = {}
    <3>1. up[0] = UpStep(bs, up, 0)
      BY <1>0, <1>10
    <3>2. UpStep(bs, up, 0) = {}
      BY Zenon DEF UpStep
    <3> QED
      BY <3>1, <3>2, Zenon
  <2>2. ASSUME NEW i \in 1 .. N PROVE up[i] = {i} \cup up[bs[i].parent]
    <3>1. i \in 0 .. N /\ i # 0
      BY <1>0
    <3> QED
      BY <1>10, <3>1 DEF UpStep
  <2>3. Ancestors(bs, 0) = up[0]
    BY <1>11
  <2>4. ASSUME NEW i \in 1 .. N PROVE Ancestors(bs, i) = {i} \cup Ancestors(bs, bs[i].parent)
    <3>1. Ancestors(bs, i) = up[i] /\ Ancestors(bs, bs[i].parent) = up[bs[i].parent]
      BY <1>11
    <3> QED
      BY <2>2, <3>1
  <2> QED
    BY <2>1, <2>3, <2>4 DEF N

\* What holds for 0, and for a block if it holds for its parent, holds for all.
LEMMA TreeInduction ==
    ASSUME NEW bs, Parents(bs), NEW S, 0 \in S,
           \A i \in 1 .. Len(bs) : bs[i].parent \in S => i \in S
    PROVE  0 .. Len(bs) \subseteq S
<1> SUFFICES ASSUME 0 .. Len(bs) \ S # {} PROVE FALSE
  OBVIOUS
<1>1. Len(bs) \in Nat /\ 0 .. Len(bs) \ S \in SUBSET Nat
  BY DEF Parents
<1>2. PICK n \in 0 .. Len(bs) \ S : \A m \in 0 .. Len(bs) \ S : n <= m
  BY <1>1, LeastNat
<1>3. n \in 1 .. Len(bs) /\ bs[n].parent \in 0 .. n - 1
  BY <1>1, <1>2 DEF Parents
<1>4. bs[n].parent \in S
  BY <1>1, <1>2, <1>3
<1> QED
  BY <1>2, <1>3, <1>4

\* A block's ancestors are no later than the block, which is one of them.
LEMMA AncestorsWithin ==
    ASSUME NEW bs, Parents(bs), NEW i \in 0 .. Len(bs)
    PROVE  Ancestors(bs, i) \subseteq 1 .. i /\ (i # 0 => i \in Ancestors(bs, i))
<1> DEFINE S == {k \in 0 .. Len(bs) : Ancestors(bs, k) \subseteq 1 .. k /\ (k # 0 => k \in Ancestors(bs, k))}
<1>0. Len(bs) \in Nat /\ \A k \in 1 .. Len(bs) : bs[k].parent \in 0 .. k - 1
  BY DEF Parents
<1>1. 0 \in S
  BY <1>0, AncestorsStep
<1>2. ASSUME NEW k \in 1 .. Len(bs), bs[k].parent \in S PROVE k \in S
  <2>1. Ancestors(bs, k) = {k} \cup Ancestors(bs, bs[k].parent)
    BY AncestorsStep
  <2>2. PICK l \in 0 .. k - 1 : l = bs[k].parent
    BY <1>0
  <2>3. Ancestors(bs, l) \subseteq 1 .. l
    BY <1>2, <2>2
  <2> QED
    BY <1>0, <2>1, <2>2, <2>3
<1> HIDE DEF S
<1>3. i \in S
  BY <1>1, <1>2, TreeInduction
<1> QED
  BY <1>3 DEF S

\* The tree grows.
LEMMA AncestorsGrow ==
    ASSUME NEW bs, Parents(bs), NEW cs, Parents(cs), Len(bs) <= Len(cs),
           \A k \in 1 .. Len(bs) : cs[k].parent = bs[k].parent, NEW i \in 0 .. Len(bs)
    PROVE  Ancestors(cs, i) = Ancestors(bs, i)
<1> DEFINE S == {k \in 0 .. Len(bs) : Ancestors(cs, k) = Ancestors(bs, k)}
<1>0. Len(bs) \in Nat /\ Len(cs) \in Nat /\ \A k \in 1 .. Len(bs) : bs[k].parent \in 0 .. k - 1
  BY DEF Parents
<1>1. 0 \in S
  <2>1. Ancestors(bs, 0) = {}
    BY AncestorsStep
  <2>2. Ancestors(cs, 0) = {}
    BY AncestorsStep
  <2>3. Ancestors(cs, 0) = Ancestors(bs, 0)
    BY <2>1, <2>2, Zenon
  <2> QED
    BY <1>0, <2>3
<1>2. ASSUME NEW k \in 1 .. Len(bs), bs[k].parent \in S PROVE k \in S
  <2>1. Ancestors(bs, k) = {k} \cup Ancestors(bs, bs[k].parent)
    BY AncestorsStep
  <2>2. k \in 1 .. Len(cs) /\ cs[k].parent = bs[k].parent
    BY <1>0
  <2>3. Ancestors(cs, k) = {k} \cup Ancestors(cs, cs[k].parent)
    BY <2>2, AncestorsStep
  <2>4. Ancestors(cs, bs[k].parent) = Ancestors(bs, bs[k].parent)
    BY <1>2
  <2>5. Ancestors(cs, k) = Ancestors(bs, k)
    BY <2>1, <2>2, <2>3, <2>4
  <2> QED
    BY <1>0, <2>5
<1> HIDE DEF S
<1>3. i \in S
  BY <1>1, <1>2, TreeInduction
<1> QED
  BY <1>3 DEF S

\* The ancestors of an ancestor are ancestors.
LEMMA AncestorsNest ==
    ASSUME NEW bs, Parents(bs), NEW i \in 0 .. Len(bs), NEW k \in Ancestors(bs, i)
    PROVE  Ancestors(bs, k) \subseteq Ancestors(bs, i)
<1> DEFINE S == {j \in 0 .. Len(bs) : \A l \in Ancestors(bs, j) : Ancestors(bs, l) \subseteq Ancestors(bs, j)}
<1>0. Len(bs) \in Nat /\ \A j \in 1 .. Len(bs) : bs[j].parent \in 0 .. j - 1
  BY DEF Parents
<1>1. 0 \in S
  BY <1>0, AncestorsStep
<1>2. ASSUME NEW j \in 1 .. Len(bs), bs[j].parent \in S PROVE j \in S
  <2>1. Ancestors(bs, j) = {j} \cup Ancestors(bs, bs[j].parent)
    BY AncestorsStep
  <2> QED
    BY <1>0, <1>2, <2>1
<1> HIDE DEF S
<1>3. i \in S
  BY <1>1, <1>2, TreeInduction
<1> QED
  BY <1>3 DEF S

----------------------------------------------------------------------------
(* Header states, for schedules of any size. *)

\* What of a header state the producers on forks depend on.
Sane(h) ==
    /\ IsHeader(h) /\ h.num >= 1 /\ h.active.producers # <<>>
    /\ Len(h.counts) <= h.num /\ \A i \in 1 .. Len(h.counts) : h.counts[i] >= 1

\* The values of a map have a bound.
LEMMA MapBound ==
    ASSUME NEW f, IsMap(f)
    PROVE  \E B \in Nat : \A q \in DOMAIN f : f[q] <= B
<1> DEFINE D == DOMAIN f
           P == {T \in SUBSET D : \E B \in Nat : \A q \in T : f[q] <= B}
<1>1. IsFiniteSet(D) /\ \A q \in D : f[q] \in Nat
  BY HeaderAssumption, FiniteSubset DEF IsMap
<1>2. {} \in P
  OBVIOUS
<1>3. ASSUME NEW T \in SUBSET D, NEW x \in D, T \in P PROVE T \cup {x} \in P
  <2>1. PICK B \in Nat : \A q \in T : f[q] <= B
    BY <1>3
  <2>2. PICK C \in Nat : C = B + f[x]
    BY <1>1
  <2>3. \A q \in T \cup {x} : f[q] <= C
    BY <1>1, <2>1, <2>2
  <2> QED
    BY <2>3
<1> HIDE DEF P, D
<1>4. D \in P
  BY <1>1, <1>2, <1>3, FiniteInduction
<1> QED
  BY <1>4 DEF P, D

\* The last irreversible block is a number.
LEMMA CalcNat ==
    ASSUME NEW f, IsMap(f)
    PROVE  calc_dpos_last_irreversible(f) \in Nat
<1>1. CASE DOMAIN f = {}
  BY <1>1 DEF calc_dpos_last_irreversible
<1>2. CASE DOMAIN f # {}
  <2>1. PICK B \in Nat : \A q \in DOMAIN f : f[q] <= B
    BY MapBound
  <2>2. IsFiniteSet(DOMAIN f) /\ Cardinality(DOMAIN f) \in Nat /\ f \in [DOMAIN f -> Nat]
    BY HeaderAssumption, FiniteSubset DEF IsMap
  <2>3. Cardinality(DOMAIN f) # 0
    BY <1>2, <2>2, FS_EmptySet
  <2>4. PICK n \in Nat \ {0} : n = Cardinality(DOMAIN f)
    BY <2>2, <2>3
  <2>5. PICK k \in Nat : k = (n - 1) \div 3 /\ k < n
    OBVIOUS
  <2>6. Smallest(f, k) \in Nat
    BY <2>1, <2>2, <2>4, <2>5, SmallestIs
  <2> QED
    BY <1>2, <2>4, <2>5, <2>6 DEF calc_dpos_last_irreversible
<1> QED
  BY <1>1, <1>2

\* The window stays one of positive counts.
LEMMA SaneCounts ==
    ASSUME NEW cc \in Seq(Nat), \A i \in 1 .. Len(cc) : cc[i] >= 1,
           NEW num \in Nat, Len(cc) <= num, NEW c \in Nat, NEW old \in Nat
    PROVE  /\ confirm_counts(cc, c) \in Seq(Nat) /\ Len(confirm_counts(cc, c)) <= num
           /\ \A i \in 1 .. Len(confirm_counts(cc, c)) : confirm_counts(cc, c)[i] >= 1
           /\ confirm_proposed(cc, c, num, old) \in Nat
<1> DEFINE L    == Len(cc)
           less == [i \in 1 .. L |-> IF i \in Touched(cc, c) THEN cc[i] - 1 ELSE cc[i]]
           R    == Reached(cc, c)
<1>0. L \in Nat /\ \A i \in 1 .. L : cc[i] \in Nat /\ cc[i] >= 1
  OBVIOUS
<1>1. R \subseteq 1 .. L /\ \A i \in R : cc[i] = 1
  BY DEF Reached, Touched
<1>2. \A i \in 1 .. L : i \notin R => less[i] \in Nat /\ less[i] >= 1
  BY <1>0 DEF Reached
<1>3. less \in Seq(Nat) /\ Len(less) = L
  <2>1. \A i \in 1 .. L : less[i] \in Nat
    BY <1>0
  <2> QED
    BY <1>0, <2>1
<1>4. CASE R = {}
  BY <1>0, <1>2, <1>3, <1>4 DEF confirm_counts, confirm_proposed
<1>5. CASE R # {}
  <2>1. R \in SUBSET Nat /\ \A i \in R : i <= L
    BY <1>0, <1>1
  <2> HIDE DEF R
  <2>2. \E k \in R : \A j \in R : j <= k
    BY <1>0, <1>5, <2>1, GreatestNat
  <2>3. PICK k \in R : k = Newest(R) /\ \A j \in R : j <= k
    BY <2>2 DEF Newest
  <2>4. k \in 1 .. L
    BY <1>1, <2>3
  <2> HIDE DEF less
  <2>5. confirm_counts(cc, c) = SubSeq(less, k + 1, L) /\ confirm_proposed(cc, c, num, old) = num - (L - k)
    BY <1>5, <2>3 DEF confirm_counts, confirm_proposed, R, less
  <2>6. PICK new : new = SubSeq(less, k + 1, L)
    OBVIOUS
  <2>7. new \in Seq(Nat) /\ Len(new) = L - k /\ \A i \in 1 .. L - k : new[i] = less[k + i]
    <3>1. less \in Seq(Nat) /\ Len(less) = L /\ \A i \in k + 1 .. L : less[i] \in Nat
      BY <1>0, <1>3, <2>4
    <3>2. /\ new \in Seq(Nat)
          /\ Len(new) = IF k + 1 <= L THEN L - (k + 1) + 1 ELSE 0
          /\ \A i \in 1 .. L - (k + 1) + 1 : new[i] = less[(k + 1) + i - 1]
      BY <1>0, <2>4, <2>6, <3>1, SubSeqProperties
    <3> HIDE DEF L
    <3>3. L - (k + 1) + 1 = L - k /\ \A i \in 1 .. L - k : (k + 1) + i - 1 = k + i
      BY <1>0, <2>4
    <3> QED
      BY <1>0, <2>4, <3>2, <3>3
  <2>8. \A i \in 1 .. L - k : k + i \in 1 .. L /\ k + i \notin R
    BY <1>0, <2>1, <2>3, <2>4
  <2>9. \A i \in 1 .. L - k : new[i] >= 1
    BY <1>2, <2>7, <2>8 DEF less
  <2>10. num - (L - k) \in Nat /\ L - k <= num
    BY <1>0, <2>4
  <2>11. new \in Seq(Nat) /\ Len(new) <= num /\ \A i \in 1 .. Len(new) : new[i] >= 1
    BY <2>7, <2>9, <2>10
  <2> QED
    BY <2>5, <2>6, <2>10, <2>11
<1> QED
  BY <1>4, <1>5

LEMMA SaneGrow ==
    ASSUME NEW cc \in Seq(Nat), \A i \in 1 .. Len(cc) : cc[i] >= 1, NEW n \in Nat, n >= 1
    PROVE  /\ grow(cc, n) \in Seq(Nat) /\ Len(grow(cc, n)) <= Len(cc) + 1
           /\ \A i \in 1 .. Len(grow(cc, n)) : grow(cc, n)[i] >= 1
<1> DEFINE kept == IF Len(cc) < MaxTracked THEN cc ELSE Tail(cc)
           o == IF Len(cc) < MaxTracked THEN 0 ELSE 1
<1>0. MaxTracked \in Nat /\ MaxTracked >= 1 /\ Len(cc) \in Nat
  BY HeaderAssumption
<1>1. /\ kept \in Seq(Nat) /\ Len(kept) = Len(cc) - o
      /\ \A i \in 1 .. Len(kept) : kept[i] = cc[i + o] /\ i + o \in 1 .. Len(cc)
  BY <1>0
<1>2. grow(cc, n) = Append(kept, n)
  BY DEF grow
<1>3. o \in 0 .. 1
  OBVIOUS
<1> HIDE DEF kept, o
<1>4. PICK G : G = Append(kept, n)
  OBVIOUS
<1>5. G \in Seq(Nat) /\ Len(G) = Len(kept) + 1 /\ G[Len(kept) + 1] = n /\ \A i \in 1 .. Len(kept) : G[i] = kept[i]
  BY <1>1, <1>4, AppendProperties
<1>6. ASSUME NEW i \in 1 .. Len(G) PROVE G[i] >= 1
  <2>1. CASE i \in 1 .. Len(kept)
    BY <1>1, <1>5, <2>1
  <2>2. CASE i = Len(kept) + 1
    BY <1>5, <2>2
  <2> QED
    BY <1>1, <1>5, <2>1, <2>2
<1> QED
  BY <1>0, <1>1, <1>2, <1>3, <1>4, <1>5, <1>6

Follows(b, h) == Sane(b.header) /\ b.header.num = h.num + 1 /\ b.proposed \in Proposal

\* start_block, whatever the schedules.
LEMMA SaneStart ==
    ASSUME NEW h, Sane(h), NEW prop \in Proposal, NEW p \in Producer, NEW c \in Nat,
           NEW b, b = start_block(h, prop, p, c)
    PROVE  Follows(b, h)
<1> USE DEF Follows
<1>1. PICK k, m : k = Counted(h, p, c) /\ m = maybe_promote_pending(k, p)
  OBVIOUS
<1>2. /\ IsHeader(h) /\ h.num \in Nat /\ h.dpos \in Nat /\ h.counts \in Seq(Nat)
      /\ IsMap(h.produced) /\ IsMap(h.implied) /\ h.active \in Schedule /\ h.pending \in Schedule
      /\ h.pending_lib \in Nat
  BY DEF Sane, IsHeader
<1>3. PICK n \in Nat : n = required_confs(h.active) /\ n >= 1
  <2>1. PICK l \in Nat : l = Len(h.active.producers)
    BY <1>2 DEF Schedule
  <2>2. (l * 2) \div 3 \in Nat
    OBVIOUS
  <2>3. required_confs(h.active) = (l * 2) \div 3 + 1
    BY <2>1 DEF required_confs
  <2>4. required_confs(h.active) \in Nat /\ required_confs(h.active) >= 1
    BY <2>2, <2>3
  <2> QED
    BY <2>4
<1>4. PICK G : G = grow(h.counts, n)
  OBVIOUS
<1>5. G \in Seq(Nat) /\ Len(G) <= h.num + 1 /\ \A i \in 1 .. Len(G) : G[i] >= 1
  <2>1. \A i \in 1 .. Len(h.counts) : h.counts[i] >= 1
    BY DEF Sane
  <2>2. G \in Seq(Nat) /\ Len(G) <= Len(h.counts) + 1 /\ \A i \in 1 .. Len(G) : G[i] >= 1
    BY <1>2, <1>3, <1>4, <2>1, SaneGrow
  <2> QED
    BY <1>2, <2>2 DEF Sane
<1>6. /\ DOMAIN k = DOMAIN h
      /\ k.num = h.num + 1 /\ k.active = h.active /\ k.pending = h.pending
      /\ k.pending_lib = h.pending_lib
      /\ k.produced = Assign(h.produced, p, h.num + 1)
      /\ k.implied = Assign(h.implied, p, h.dpos)
      /\ k.lib = calc_dpos_last_irreversible(k.implied)
      /\ k.counts = confirm_counts(G, c)
      /\ k.dpos = confirm_proposed(G, c, h.num + 1, h.dpos)
  BY <1>1, <1>2, <1>3, <1>4, CountedFields
<1>7. IsMap(k.produced) /\ IsMap(k.implied)
  BY <1>2, <1>6 DEF IsMap, Assign
<1>8. k.lib \in Nat
  BY <1>6, <1>7, CalcNat
<1>9. k.counts \in Seq(Nat) /\ Len(k.counts) <= h.num + 1 /\ k.dpos \in Nat
      /\ \A i \in 1 .. Len(k.counts) : k.counts[i] >= 1
  <2>1. PICK num \in Nat : num = h.num + 1
    BY <1>2
  <2>2. /\ confirm_counts(G, c) \in Seq(Nat) /\ Len(confirm_counts(G, c)) <= num
        /\ \A i \in 1 .. Len(confirm_counts(G, c)) : confirm_counts(G, c)[i] >= 1
        /\ confirm_proposed(G, c, num, h.dpos) \in Nat
    BY <1>2, <1>5, <2>1, SaneCounts
  <2> QED
    BY <1>6, <2>1, <2>2
<1>10. IsHeader(k) /\ Sane(k)
  BY <1>2, <1>6, <1>7, <1>8, <1>9 DEF IsHeader, Sane
<1>11. Sane(m) /\ m.num = h.num + 1
  <2>1. CASE ~Promotes(k)
    BY <1>1, <1>6, <1>10, <2>1 DEF maybe_promote_pending
  <2>2. CASE Promotes(k)
    <3>1. /\ DOMAIN m = DOMAIN k
          /\ m.num = k.num /\ m.active = k.pending /\ m.pending = NoSchedule
          /\ m.pending_lib = k.pending_lib /\ m.lib = k.lib /\ m.dpos = k.dpos /\ m.counts = k.counts
          /\ m.produced = Assign(Rebuild(k.produced, k.pending, k.lib), p, k.num)
          /\ m.implied = Rebuild(k.implied, k.pending, k.lib)
      BY <1>1, <1>10, <2>2 DEF maybe_promote_pending, IsHeader
    <3>2. ToSet(k.pending.producers) \subseteq Producer /\ k.pending.producers # <<>> /\ k.pending \in Schedule
      BY <1>2, <1>6, <2>2 DEF Promotes, Schedule, ToSet
    <3>3. k.num \in Nat
      BY <1>2, <1>6
    <3>4. IsMap(m.implied)
      BY <1>7, <1>8, <3>1, <3>2 DEF Rebuild, IsMap
    <3>5. IsMap(Rebuild(k.produced, k.pending, k.lib))
      BY <1>7, <1>8, <3>2 DEF Rebuild, IsMap
    <3>6. IsMap(m.produced)
      <4>1. PICK f : f = Rebuild(k.produced, k.pending, k.lib)
        OBVIOUS
      <4> QED
        BY <3>1, <3>3, <3>5, <4>1 DEF Assign, IsMap
    <3>7. m.pending \in Schedule
      BY <3>1 DEF NoSchedule, Schedule
    <3> QED
      BY <1>6, <1>10, <3>1, <3>2, <3>4, <3>6, <3>7 DEF IsHeader, Sane
  <2> QED
    BY <2>1, <2>2
<1>12. m = next_header(h, p, c)
  BY <1>1 DEF next_header, Counted
<1>13. CASE Promotable(m, prop, m.active # h.active)
  <2> DEFINE s == [version |-> prop.version, producers |-> prop.producers]
  <2>1. b = [header |-> set_new_producers(m, s), proposed |-> NoProposal]
    BY <1>12, <1>13 DEF start_block
  <2>2. s \in Schedule
    BY DEF Proposal, Schedule
  <2> HIDE DEF s
  <2>3. PICK g : g = set_new_producers(m, s)
    OBVIOUS
  <2>4. /\ DOMAIN g = DOMAIN m
        /\ g.num = m.num /\ g.active = m.active /\ g.pending = s /\ g.pending_lib = m.num
        /\ g.lib = m.lib /\ g.dpos = m.dpos /\ g.counts = m.counts
        /\ g.produced = m.produced /\ g.implied = m.implied
    BY <1>11, <2>3 DEF set_new_producers, Sane, IsHeader
  <2>5. Sane(g)
    BY <1>11, <2>2, <2>4 DEF Sane, IsHeader
  <2>6. NoProposal \in Proposal
    BY DEF NoProposal, Proposal
  <2> QED
    BY <1>11, <2>1, <2>3, <2>4, <2>5, <2>6
<1>14. CASE ~Promotable(m, prop, m.active # h.active)
  <2>1. b = [header |-> m, proposed |-> prop]
    BY <1>12, <1>14 DEF start_block
  <2> QED
    BY <1>11, <2>1
<1> QED
  BY <1>13, <1>14

----------------------------------------------------------------------------
(* What a node remembers. *)

IsNode(n) ==
    /\ DOMAIN n = {"marks", "signed", "started"}
    /\ IsMap(n.marks) /\ n.signed \in [num : Nat, slot : Nat] /\ n.started \in Nat

\* Two maps agree on q.
SameAt(f, g, q) == (q \in DOMAIN f <=> q \in DOMAIN g) /\ (q \in DOMAIN f => f[q] = g[q])

\* After the block b the schedule begins to name p.
Installs(b, p) == p \in DOMAIN Installed(b.header, b.slot, {p})

\* on_block touches p's watermark, and only if it is installed.
LEMMA OnBlock ==
    ASSUME NEW n, IsNode(n), NEW b, Block(b), NEW p \in Producer, NEW r, r = on_block(n, b, p)
    PROVE  /\ IsNode(r) /\ r.started = n.started
           /\ \A q \in Producer : q # p \/ ~Installs(b, p) => SameAt(n.marks, r.marks, q)
<1>1. CASE b.slot <= n.signed.slot \/ b.slot <= n.started \/ b.header.num <= n.signed.num
  BY <1>1 DEF on_block, SameAt
<1>2. CASE ~(b.slot <= n.signed.slot \/ b.slot <= n.started \/ b.header.num <= n.signed.num)
  <2>1. PICK w : w = Installed(b.header, b.slot, {p})
    OBVIOUS
  <2>2. b.header.num \in Nat /\ b.slot \in Nat
    BY DEF Block, IsHeader
  <2>3. DOMAIN w \subseteq {p} /\ \A q \in DOMAIN w : w[q] = b.header.num
    BY <2>1 DEF Installed
  <2>4. /\ r = [n EXCEPT !.signed = IF p # b.by /\ p \in ToSet(b.header.active.producers)
                                    THEN [num |-> b.header.num, slot |-> b.slot] ELSE @,
                         !.marks = Overlay(w, @)]
    BY <1>2, <2>1 DEF on_block
  <2>5. /\ DOMAIN r = {"marks", "signed", "started"} /\ r.started = n.started
        /\ r.marks = Overlay(w, n.marks)
        /\ r.signed = n.signed \/ r.signed = [num |-> b.header.num, slot |-> b.slot]
    BY <2>4 DEF IsNode
  <2>6. IsMap(r.marks)
    BY <2>2, <2>3, <2>5 DEF IsNode, IsMap, Overlay
  <2>7. IsNode(r)
    BY <2>2, <2>5, <2>6 DEF IsNode
  <2>8. ASSUME NEW q \in Producer, q # p \/ ~Installs(b, p) PROVE SameAt(n.marks, r.marks, q)
    <3>1. q \notin DOMAIN w
      BY <2>1, <2>3, <2>8 DEF Installs
    <3> QED
      BY <2>5, <3>1 DEF SameAt, Overlay
  <2> QED
    BY <2>5, <2>7, <2>8
<1> QED
  BY <1>1, <1>2

\* The loop of apply_blocks is what its definition says.
ApplyStep(n, bs, path, p, run, k) == IF k = 0 THEN n ELSE on_block(run[k - 1], bs[path[k]], p)

LEMMA ApplyRuns ==
    ASSUME NEW n, NEW bs, NEW path, NEW p, Len(path) \in Nat
    PROVE  \E run : /\ \A k \in 0 .. Len(path) : run[k] = ApplyStep(n, bs, path, p, run, k)
                    /\ apply_blocks(n, bs, path, p) = run[Len(path)]
<1> DEFINE N == Len(path)
           Step(run, k) == ApplyStep(n, bs, path, p, run, k)
           Fine(run) == run = [k \in 0 .. N |-> Step(run, k)]
           D == {k \in Nat : \E run : \A l \in 0 .. k : run[l] = Step(run, l)}
<1>0. ASSUME NEW g, NEW h, NEW k \in Nat, k # 0 => g[k - 1] = h[k - 1] PROVE Step(g, k) = Step(h, k)
  BY <1>0 DEF ApplyStep
<1>1. 0 \in D
  <2> DEFINE run == [k \in {0} |-> Step(<<>>, k)]
  <2>1. Step(run, 0) = Step(<<>>, 0)
    BY <1>0
  <2>2. \A k \in 0 .. 0 : run[k] = Step(run, k)
    BY <2>1
  <2> HIDE DEF run, Step
  <2> QED
    BY <2>2
<1>2. ASSUME NEW k \in Nat, k \in D PROVE k + 1 \in D
  <2>1. PICK g : \A l \in 0 .. k : g[l] = Step(g, l)
    BY <1>2
  <2> DEFINE h == [l \in 0 .. k + 1 |-> IF l <= k THEN g[l] ELSE Step(g, l)]
  <2> HIDE DEF Step
  <2>2. ASSUME NEW l \in 0 .. k + 1 PROVE h[l] = Step(h, l)
    <3>1. l # 0 => h[l - 1] = g[l - 1]
      OBVIOUS
    <3>2. Step(h, l) = Step(g, l)
      BY <1>0, <3>1
    <3> QED
      BY <2>1, <3>2
  <2> HIDE DEF h
  <2> QED
    BY <2>2
<1> HIDE DEF Step
<1>3. Nat \subseteq D
  <2> HIDE DEF D
  <2> QED
    BY <1>1, <1>2, SetInduction
<1>4. PICK g : \A k \in 0 .. N : g[k] = Step(g, k)
  BY <1>3
<1> DEFINE h == [k \in 0 .. N |-> g[k]]
<1>5. ASSUME NEW k \in 0 .. N PROVE h[k] = Step(h, k)
  <2>1. k # 0 => h[k - 1] = g[k - 1]
    OBVIOUS
  <2>2. Step(h, k) = Step(g, k)
    BY <1>0, <2>1
  <2> QED
    BY <1>4, <2>2
<1>6. Fine(h)
  BY <1>5
<1> HIDE DEF h
<1>7. Fine(CHOOSE run : Fine(run))
  BY <1>6, Zenon
<1>8. apply_blocks(n, bs, path, p) = (CHOOSE run : Fine(run))[N]
  BY DEF apply_blocks, Step, ApplyStep
<1>9. PICK run : run = CHOOSE f : Fine(f)
  OBVIOUS
<1>10. \A k \in 0 .. N : run[k] = ApplyStep(n, bs, path, p, run, k)
  BY <1>7, <1>9 DEF Step
<1> QED
  BY <1>8, <1>9, <1>10

\* The blocks of a branch change p's watermark only if one of them installs p.
LEMMA ApplyBlocks ==
    ASSUME NEW n, IsNode(n), NEW bs, NEW path, Len(path) \in Nat, NEW p \in Producer,
           \A k \in 1 .. Len(path) : Block(bs[path[k]]),
           NEW r, r = apply_blocks(n, bs, path, p)
    PROVE  /\ IsNode(r) /\ r.started = n.started
           /\ \A q \in Producer :
                 q # p \/ (\A k \in 1 .. Len(path) : ~Installs(bs[path[k]], p)) =>
                     SameAt(n.marks, r.marks, q)
<1>1. PICK run : /\ \A k \in 0 .. Len(path) : run[k] = ApplyStep(n, bs, path, p, run, k)
                 /\ r = run[Len(path)]
  BY ApplyRuns
<1> DEFINE Same(m) == /\ IsNode(m) /\ m.started = n.started
                      /\ \A q \in Producer :
                            q # p \/ (\A k \in 1 .. Len(path) : ~Installs(bs[path[k]], p)) =>
                                SameAt(n.marks, m.marks, q)
           D == {k \in Nat : k <= Len(path) => Same(run[k])}
<1>2. 0 \in D
  <2>1. run[0] = n
    BY <1>1 DEF ApplyStep
  <2>2. \A q : SameAt(n.marks, n.marks, q)
    BY DEF SameAt
  <2> QED
    BY <2>1, <2>2
<1>3. ASSUME NEW k \in Nat, k \in D PROVE k + 1 \in D
  <2> SUFFICES ASSUME k + 1 <= Len(path) PROVE Same(run[k + 1])
    OBVIOUS
  <2>1. PICK m : m = run[k] /\ Same(m)
    BY <1>3
  <2>2. k + 1 \in 0 .. Len(path) /\ k + 1 \in 1 .. Len(path) /\ k + 1 # 0 /\ (k + 1) - 1 = k
    OBVIOUS
  <2>3. PICK b : b = bs[path[k + 1]] /\ Block(b)
    BY <2>2
  <2>4. run[k + 1] = on_block(m, b, p)
    BY <1>1, <2>1, <2>2, <2>3 DEF ApplyStep
  <2>5. PICK o : o = run[k + 1]
    OBVIOUS
  <2>6. /\ IsNode(o) /\ o.started = m.started
        /\ \A q \in Producer : q # p \/ ~Installs(b, p) => SameAt(m.marks, o.marks, q)
    BY <2>1, <2>3, <2>4, <2>5, OnBlock
  <2>7. ASSUME NEW q \in Producer, q # p \/ (\A l \in 1 .. Len(path) : ~Installs(bs[path[l]], p))
        PROVE  SameAt(n.marks, o.marks, q)
    <3>1. q # p \/ ~Installs(b, p)
      BY <2>2, <2>3, <2>7
    <3>2. SameAt(n.marks, m.marks, q) /\ SameAt(m.marks, o.marks, q)
      BY <2>1, <2>6, <2>7, <3>1
    <3> QED
      BY <3>2 DEF SameAt
  <2> QED
    BY <2>1, <2>5, <2>6, <2>7
<1> HIDE DEF Same
<1>4. Nat \subseteq D
  <2> HIDE DEF D
  <2> QED
    BY <1>2, <1>3, SetInduction
<1>5. Same(r)
  BY <1>1, <1>4
<1> QED
  BY <1>5 DEF Same

----------------------------------------------------------------------------
(* Blocks. *)

Num(bs, i) == bs[i].header.num

\* A tree of blocks in the order of their slots.
Blocks(bs) ==
    /\ (\E S : bs \in Seq(S)) /\ Len(bs) >= 1 /\ Parents(bs)
    /\ \A i \in 1 .. Len(bs) : Block(bs[i]) /\ Sane(bs[i].header) /\ Num(bs, i) <= i
    /\ \A i \in 2 .. Len(bs) : bs[i].parent # 0 /\ Num(bs, i) = Num(bs, bs[i].parent) + 1
    /\ \A i, j \in 1 .. Len(bs) : i < j => bs[i].slot < bs[j].slot

\* The blocks on the way are blocks.
LEMMA BranchBlocks ==
    ASSUME NEW bs, Parents(bs), NEW i \in 1 .. Len(bs), NEW j \in 1 .. Len(bs), NEW path, path = Branch(bs, i, j)
    PROVE  /\ Len(path) \in Nat
           /\ \A k \in 1 .. Len(path) : path[k] \in Ancestors(bs, j) \ Ancestors(bs, i)
<1> DEFINE new == Ancestors(bs, j) \ Ancestors(bs, i)
<1>0. Len(bs) \in Nat
  BY DEF Parents
<1>1. Ancestors(bs, j) \subseteq 1 .. j
  BY <1>0, AncestorsWithin
<1>2. IsFiniteSet(1 .. j)
  BY FS_Interval
<1>3. new \in SUBSET Nat /\ IsFiniteSet(new)
  BY <1>1, <1>2, FS_Subset
<1>4. path = [n \in 1 .. Cardinality(new) |-> CHOOSE k \in new : Cardinality({l \in new : l < k}) = n - 1]
  BY DEF Branch
<1> HIDE DEF new
<1>5. PICK N \in Nat : N = Cardinality(new)
  BY <1>3, FS_CardinalityType
<1>6. Len(path) = N
  BY <1>4, <1>5
<1>7. ASSUME NEW k \in 1 .. N PROVE path[k] \in new
  <2>1. path[k] = CHOOSE x \in new : Cardinality({l \in new : l < x}) = k - 1
    BY <1>4, <1>5
  <2>2. (CHOOSE x \in new : Cardinality({l \in new : l < x}) = k - 1) \in new
    BY <1>3, <1>5, NthOfSet
  <2> QED
    BY <2>1, <2>2
<1> QED
  BY <1>5, <1>6, <1>7 DEF new

\* What the new block b by p on bs[j] confirms begins after the watermark.
NewBlock(bs, cs, b, j, p, m, t) ==
    /\ Blocks(cs) /\ Len(cs) = Len(bs) + 1 /\ cs[Len(cs)] = b
    /\ \A i \in 1 .. Len(bs) : cs[i] = bs[i]
    /\ b.by = p /\ b.parent = j /\ b.slot = t
    /\ b.header.num = Num(bs, j) + 1
    /\ b.header.num - b.confirmed = IF p \in DOMAIN m THEN m[p] + 1 ELSE b.header.num

LEMMA ProduceBlock ==
    ASSUME NEW bs, Blocks(bs), NEW j \in 1 .. Len(bs), NEW p \in Producer,
           NEW m, IsMap(m), p \in DOMAIN m => m[p] <= Num(bs, j),
           NEW t \in Nat, t > bs[Len(bs)].slot, NEW s \in Seq(Producer),
           NEW b, b = produce_block(bs, j, p, m, t, s), NEW cs, cs = Append(bs, b)
    PROVE  NewBlock(bs, cs, b, j, p, m, t)
<1> USE DEF NewBlock
<1>1. PICK h, c, n, o : /\ h = bs[j].header /\ c = blocks_to_confirm(m, p, h.num)
                        /\ n = start_block(h, bs[j].proposed, p, c)
                        /\ o = Propose(s, n.header, n.proposed)
  OBVIOUS
<1>2. b = [header |-> n.header, parent |-> j, by |-> p, confirmed |-> c, slot |-> t, proposed |-> o]
  BY <1>1 DEF produce_block
<1>3. Sane(h) /\ bs[j].proposed \in Proposal /\ h.num \in Nat /\ h.num <= j /\ h.num >= 1
  BY <1>1 DEF Blocks, Block, Sane, IsHeader, Num
<1>4. c \in Nat /\ h.num + 1 - c = IF p \in DOMAIN m THEN m[p] + 1 ELSE h.num + 1
  <2>1. p \in DOMAIN m => m[p] \in Nat /\ m[p] <= h.num
    BY <1>1 DEF IsMap, Num
  <2> QED
    BY <1>1, <1>3, <2>1 DEF blocks_to_confirm
<1>5. Sane(n.header) /\ n.header.num = h.num + 1 /\ n.proposed \in Proposal
  <2>1. PICK prop \in Proposal : prop = bs[j].proposed
    BY <1>3
  <2>2. PICK d \in Nat : d = c
    BY <1>4
  <2>3. n = start_block(h, prop, p, d) /\ Sane(h)
    BY <1>1, <1>3, <2>1, <2>2
  <2>4. Follows(n, h)
    BY <2>3, SaneStart
  <2> QED
    BY <2>4 DEF Follows
<1>a. /\ b.header = n.header /\ b.parent = j /\ b.by = p /\ b.confirmed = c /\ b.slot = t
      /\ b.header.num = h.num + 1 /\ h.num = Num(bs, j)
  BY <1>1, <1>2, <1>5 DEF Num
<1>6. o \in Proposal
  <2>1. PICK g : g = n.header
    OBVIOUS
  <2>2. g.active \in Schedule /\ g.pending \in Schedule /\ g.num \in Nat
    BY <1>5, <2>1 DEF Sane, IsHeader
  <2> DEFINE top == IF g.pending.producers = <<>> THEN g.active ELSE g.pending
  <2>3. top \in Schedule
    BY <2>2
  <2>4. o = n.proposed \/ o = [version |-> top.version + 1, producers |-> s, num |-> g.num]
    BY <1>1, <2>1 DEF Propose
  <2> HIDE DEF top
  <2> QED
    BY <1>5, <2>2, <2>3, <2>4 DEF Proposal, Schedule
<1>7. PICK S : bs \in Seq(S)
  BY DEF Blocks
<1>8. /\ cs \in Seq(S \cup {b}) /\ Len(cs) = Len(bs) + 1 /\ cs[Len(bs) + 1] = b
      /\ \A i \in 1 .. Len(bs) : cs[i] = bs[i]
  BY <1>7, AppendProperties
<1>9. PICK L \in Nat : L = Len(bs) /\ L >= 1
  BY <1>7 DEF Blocks
<1>10. Block(b) /\ Sane(b.header) /\ b.header.num <= L + 1
  BY <1>2, <1>3, <1>4, <1>5, <1>6, <1>9 DEF Block, Sane
<1>11. Parents(cs)
  <2>1. ASSUME NEW i \in 1 .. L + 1 PROVE cs[i].parent \in 0 .. i - 1
    <3>1. CASE i = L + 1
      BY <1>2, <1>8, <1>9, <3>1
    <3>2. CASE i # L + 1
      BY <1>8, <1>9, <3>2 DEF Blocks, Parents
    <3> QED
      BY <3>1, <3>2
  <2> QED
    BY <1>8, <1>9, <2>1 DEF Parents
<1>12. ASSUME NEW i \in 1 .. L + 1 PROVE Block(cs[i]) /\ Sane(cs[i].header) /\ Num(cs, i) <= i
  <2>1. CASE i = L + 1
    BY <1>8, <1>9, <1>10, <2>1 DEF Num
  <2>2. CASE i # L + 1
    BY <1>8, <1>9, <2>2 DEF Blocks, Num
  <2> QED
    BY <2>1, <2>2
<1>13. ASSUME NEW i \in 2 .. L + 1 PROVE cs[i].parent # 0 /\ Num(cs, i) = Num(cs, cs[i].parent) + 1
  <2>1. CASE i = L + 1
    <3>1. cs[i] = b /\ b.parent = j /\ cs[j] = bs[j] /\ j # 0
      BY <1>2, <1>8, <1>9, <2>1
    <3> QED
      BY <1>a, <3>1 DEF Num
  <2>2. CASE i # L + 1
    <3>1. i \in 2 .. L /\ i \in 1 .. L
      BY <1>9, <2>2
    <3>2. bs[i].parent # 0 /\ Num(bs, i) = Num(bs, bs[i].parent) + 1 /\ bs[i].parent \in 0 .. i - 1
      BY <1>9, <3>1 DEF Blocks, Parents
    <3>3. bs[i].parent \in 1 .. L
      BY <1>9, <3>1, <3>2
    <3> QED
      BY <1>8, <1>9, <3>1, <3>2, <3>3 DEF Num
  <2> QED
    BY <2>1, <2>2
<1>14. ASSUME NEW i \in 1 .. L + 1, NEW k \in 1 .. L + 1, i < k PROVE cs[i].slot < cs[k].slot
  <2>1. i \in 1 .. L /\ cs[i] = bs[i]
    BY <1>8, <1>9, <1>14
  <2>2. CASE k = L + 1
    <3>1. bs[i].slot \in Nat /\ bs[L].slot \in Nat /\ (i < L => bs[i].slot < bs[L].slot)
      BY <1>9, <2>1 DEF Blocks, Block
    <3>2. bs[i].slot <= bs[L].slot
      BY <2>1, <3>1
    <3>3. cs[k].slot = t
      BY <1>2, <1>8, <1>9, <2>2
    <3> QED
      BY <1>9, <2>1, <3>1, <3>2, <3>3
  <2>3. CASE k # L + 1
    BY <1>8, <1>9, <1>14, <2>1, <2>3 DEF Blocks
  <2> QED
    BY <2>2, <2>3
<1>15. Blocks(cs)
  <2>1. Len(cs) = L + 1 /\ L + 1 >= 1
    BY <1>8, <1>9
  <2> QED
    BY <1>8, <1>11, <1>12, <1>13, <1>14, <2>1 DEF Blocks
<1>16. b.header.num - b.confirmed = IF p \in DOMAIN m THEN m[p] + 1 ELSE b.header.num
  <2>1. PICK x : x = h.num + 1
    OBVIOUS
  <2>2. PICK bh : bh = b.header
    OBVIOUS
  <2>3. bh.num = x /\ b.confirmed = c
    BY <1>a, <2>1, <2>2
  <2>4. x - c = IF p \in DOMAIN m THEN m[p] + 1 ELSE x
    BY <1>3, <1>4, <2>1
  <2>5. bh.num - b.confirmed = IF p \in DOMAIN m THEN m[p] + 1 ELSE bh.num
    BY <2>3, <2>4, Zenon
  <2> QED
    BY <2>2, <2>5, Zenon
<1>17. cs[Len(cs)] = b
  BY <1>8
<1> QED
  BY <1>8, <1>15, <1>16, <1>17, <1>a

----------------------------------------------------------------------------
(* No producer confirms twice. *)

\* Reinstalled and Overlap, of the blocks of a tree bs.
ReinstalledIn(bs, p, i, j) ==
    \E a, b \in {k \in i .. j : bs[k].by = p} :
        \E k \in Ancestors(bs, b) \ Ancestors(bs, a) : a < b /\ Installs(bs[k], p)

OverlapIn(bs, i, j) ==
    Num(bs, i) >= Num(bs, j) - bs[j].confirmed /\ Num(bs, j) >= Num(bs, i) - bs[i].confirmed

\* ConfirmsOnce, ...
OnceInv(bs, st) ==
    \A i, j \in 2 .. Len(bs) :
        i < j /\ bs[i].by = bs[j].by /\ OverlapIn(bs, i, j) =>
            bs[i].slot <= st[bs[i].by] \/ ReinstalledIn(bs, bs[i].by, i, j)

\* ... the watermark that sees to it, ...
MarkInv(bs, m, st) ==
    \A i \in 2 .. Len(bs) :
        \/ bs[i].slot <= st[bs[i].by]
        \/ bs[i].by \in DOMAIN m /\ m[bs[i].by] >= Num(bs, i)
        \/ ReinstalledIn(bs, bs[i].by, i, Len(bs))

\* ... and where a producer's node is: on the chain of a block of its own that
\* is not older.
HeadInv(bs, hd) ==
    \A i \in 2 .. Len(bs) :
        \E a \in i .. Len(bs) : bs[a].by = bs[i].by /\ Ancestors(bs, a) \subseteq Ancestors(bs, hd[bs[i].by])

Grows(bs, cs) ==
    /\ Blocks(bs) /\ Blocks(cs) /\ Len(cs) = Len(bs) + 1
    /\ \A k \in 1 .. Len(bs) : cs[k] = bs[k]

LEMMA GrowsTree ==
    ASSUME NEW bs, NEW cs, Grows(bs, cs)
    PROVE  /\ Len(bs) \in Nat /\ Len(bs) >= 1 /\ Len(cs) = Len(bs) + 1
           /\ Parents(bs) /\ Parents(cs)
           /\ \A i \in 0 .. Len(bs) : Ancestors(cs, i) = Ancestors(bs, i)
           /\ \A i \in 1 .. Len(bs) : cs[i] = bs[i] /\ Num(cs, i) = Num(bs, i)
           /\ \A i \in 1 .. Len(bs) : Ancestors(bs, i) \subseteq 1 .. Len(bs)
<1>1. Parents(bs) /\ Parents(cs) /\ Len(bs) \in Nat /\ Len(bs) >= 1 /\ Len(cs) = Len(bs) + 1
  BY DEF Grows, Blocks, Parents
<1>2. \A i \in 1 .. Len(bs) : cs[i] = bs[i] /\ cs[i].parent = bs[i].parent /\ Num(cs, i) = Num(bs, i)
  BY DEF Grows, Num
<1>3. \A i \in 0 .. Len(bs) : Ancestors(cs, i) = Ancestors(bs, i)
  BY <1>1, <1>2, AncestorsGrow
<1>4. ASSUME NEW i \in 1 .. Len(bs) PROVE Ancestors(bs, i) \subseteq 1 .. Len(bs)
  BY <1>1, AncestorsWithin
<1> QED
  BY <1>1, <1>2, <1>3, <1>4

LEMMA ReinstalledGrows ==
    ASSUME NEW bs, NEW cs, Grows(bs, cs), NEW p, NEW i \in 1 .. Len(bs), NEW j \in 1 .. Len(bs),
           NEW l \in j .. Len(cs), ReinstalledIn(bs, p, i, j)
    PROVE  ReinstalledIn(cs, p, i, l)
<1>0. /\ Len(bs) \in Nat /\ Len(cs) = Len(bs) + 1
      /\ \A k \in 0 .. Len(bs) : Ancestors(cs, k) = Ancestors(bs, k)
      /\ \A k \in 1 .. Len(bs) : cs[k] = bs[k]
      /\ \A k \in 1 .. Len(bs) : Ancestors(bs, k) \subseteq 1 .. Len(bs)
  BY GrowsTree
<1>1. PICK a, b \in {k \in i .. j : bs[k].by = p} :
           \E k \in Ancestors(bs, b) \ Ancestors(bs, a) : a < b /\ Installs(bs[k], p)
  BY DEF ReinstalledIn
<1>2. PICK k \in Ancestors(bs, b) \ Ancestors(bs, a) : a < b /\ Installs(bs[k], p)
  BY <1>1
<1>3. a \in 1 .. Len(bs) /\ b \in 1 .. Len(bs) /\ a \in i .. l /\ b \in i .. l
  BY <1>0
<1>4. Ancestors(cs, a) = Ancestors(bs, a) /\ Ancestors(cs, b) = Ancestors(bs, b)
  BY <1>0, <1>3
<1>5. k \in 1 .. Len(bs) /\ cs[k] = bs[k]
  BY <1>0, <1>2, <1>3
<1>6. cs[a].by = p /\ cs[b].by = p
  BY <1>0, <1>1, <1>3
<1> QED
  BY <1>2, <1>3, <1>4, <1>5, <1>6 DEF ReinstalledIn

\* A new block b, made where the node of its producer p is or has come to: n is
\* the watermarks it had there.
Made(bs, cs, m, hd, n) ==
    LET b == cs[Len(cs)]
        p == b.by
    IN  /\ Grows(bs, cs) /\ IsMap(m) /\ IsMap(n)
        /\ b.parent \in 1 .. Len(bs) /\ hd[p] \in 1 .. Len(bs)
        /\ \/ SameAt(m, n, p)
           \/ \E k \in Ancestors(bs, b.parent) \ Ancestors(bs, hd[p]) : Installs(bs[k], p)
        /\ p \in DOMAIN n => n[p] < b.header.num
        /\ b.header.num - b.confirmed = IF p \in DOMAIN n THEN n[p] + 1 ELSE b.header.num

\* If the node came to a block that installs p, all of p's blocks are excused.
LEMMA MadeReinstalls ==
    ASSUME NEW bs, NEW cs, NEW m, NEW hd, NEW n, Made(bs, cs, m, hd, n), HeadInv(bs, hd),
           NEW p, p = cs[Len(cs)].by, ~SameAt(m, n, p), NEW i \in 2 .. Len(bs), bs[i].by = p
    PROVE  ReinstalledIn(cs, p, i, Len(cs))
<1>0. /\ Len(bs) \in Nat /\ Len(cs) = Len(bs) + 1 /\ Parents(cs)
      /\ \A k \in 0 .. Len(bs) : Ancestors(cs, k) = Ancestors(bs, k)
      /\ \A k \in 1 .. Len(bs) : cs[k] = bs[k]
      /\ \A k \in 1 .. Len(bs) : Ancestors(bs, k) \subseteq 1 .. Len(bs)
  BY GrowsTree DEF Made
<1>1. PICK j \in 1 .. Len(bs) : j = cs[Len(cs)].parent
  BY DEF Made
<1>2. PICK k \in Ancestors(bs, j) \ Ancestors(bs, hd[p]) : Installs(bs[k], p)
  BY <1>1 DEF Made
<1>3. PICK a \in i .. Len(bs) : bs[a].by = p /\ Ancestors(bs, a) \subseteq Ancestors(bs, hd[p])
  BY DEF HeadInv
<1>4. PICK b \in 1 .. Len(cs) : b = Len(cs)
  BY <1>0
<1>5. Ancestors(cs, b) = {b} \cup Ancestors(cs, cs[b].parent)
  BY <1>0, AncestorsStep
<1>6. Ancestors(cs, j) = Ancestors(bs, j) /\ Ancestors(cs, a) = Ancestors(bs, a)
  BY <1>0
<1>7. k \in Ancestors(cs, b) \ Ancestors(cs, a)
  BY <1>1, <1>2, <1>3, <1>4, <1>5, <1>6
<1>8. a < b /\ a \in i .. b /\ b \in i .. b /\ cs[a].by = p /\ cs[b].by = p /\ cs[k] = bs[k]
  BY <1>0, <1>2, <1>3, <1>4
<1>9. ReinstalledIn(cs, p, i, b)
  BY <1>2, <1>7, <1>8 DEF ReinstalledIn
<1> QED
  BY <1>4, <1>9

\* What the new block confirms its producer has not confirmed.
LEMMA MadeOnce ==
    ASSUME NEW bs, NEW cs, NEW m, NEW hd, NEW n, Made(bs, cs, m, hd, n), NEW st,
           OnceInv(bs, st), MarkInv(bs, m, st), HeadInv(bs, hd)
    PROVE  OnceInv(cs, st)
<1>0. /\ Len(bs) \in Nat /\ Len(cs) = Len(bs) + 1 /\ Grows(bs, cs)
      /\ \A k \in 1 .. Len(bs) : cs[k] = bs[k] /\ Num(cs, k) = Num(bs, k)
  BY GrowsTree DEF Made
<1> SUFFICES ASSUME NEW i \in 2 .. Len(cs), NEW j \in 2 .. Len(cs), i < j, cs[i].by = cs[j].by, OverlapIn(cs, i, j)
             PROVE  cs[i].slot <= st[cs[i].by] \/ ReinstalledIn(cs, cs[i].by, i, j)
  BY DEF OnceInv
<1>1. i \in 2 .. Len(bs) /\ i \in 1 .. Len(bs) /\ cs[i] = bs[i]
  BY <1>0
<1>2. CASE j # Len(cs)
  <2>1. j \in 2 .. Len(bs) /\ j \in 1 .. Len(bs) /\ cs[j] = bs[j] /\ j \in j .. Len(cs)
    BY <1>0, <1>2
  <2>2. OverlapIn(bs, i, j)
    BY <1>0, <1>1, <2>1 DEF OverlapIn
  <2>3. bs[i].slot <= st[bs[i].by] \/ ReinstalledIn(bs, bs[i].by, i, j)
    BY <1>1, <2>1, <2>2 DEF OnceInv
  <2>4. ASSUME ReinstalledIn(bs, bs[i].by, i, j) PROVE ReinstalledIn(cs, bs[i].by, i, j)
    BY <1>0, <1>1, <2>1, <2>4, ReinstalledGrows
  <2> QED
    BY <1>1, <2>3, <2>4
<1>3. CASE j = Len(cs)
  <2>1. PICK p : p = cs[Len(cs)].by /\ p = cs[i].by /\ p = bs[i].by
    BY <1>1, <1>3
  <2>2. CASE ~SameAt(m, n, p)
    <3>1. ReinstalledIn(cs, p, i, Len(cs))
      BY <1>1, <2>1, <2>2, MadeReinstalls
    <3> QED
      BY <1>3, <2>1, <3>1
  <2>3. CASE SameAt(m, n, p)
    <3>1. CASE bs[i].slot <= st[p]
      BY <1>1, <2>1, <3>1
    <3>2. CASE ReinstalledIn(bs, p, i, Len(bs))
      <4>1. Len(bs) \in 1 .. Len(bs) /\ j \in Len(bs) .. Len(cs)
        BY <1>0, <1>1, <1>3
      <4>2. ReinstalledIn(cs, p, i, j)
        BY <1>0, <1>1, <3>2, <4>1, ReinstalledGrows
      <4> QED
        BY <2>1, <4>2
    <3>3. CASE p \in DOMAIN m /\ m[p] >= Num(bs, i)
      <4>1. p \in DOMAIN n /\ n[p] = m[p] /\ m[p] \in Nat
        BY <2>3, <3>3 DEF SameAt, Made, IsMap
      <4>2. PICK x \in Nat : x = m[p]
        BY <4>1
      <4>3. cs[j].header.num - cs[j].confirmed = x + 1
        BY <1>3, <2>1, <4>1, <4>2 DEF Made
      <4>4. Num(cs, i) >= x + 1
        BY <4>3 DEF OverlapIn, Num
      <4>5. PICK y \in Nat : y = Num(bs, i)
        BY <1>0, <1>1 DEF Grows, Blocks, Num, Block, IsHeader
      <4>6. y >= x + 1 /\ x >= y
        BY <1>0, <1>1, <3>3, <4>2, <4>4, <4>5
      <4> QED
        BY <4>6
    <3> QED
      BY <1>1, <2>1, <3>1, <3>2, <3>3 DEF MarkInv
  <2> QED
    BY <2>2, <2>3
<1> QED
  BY <1>2, <1>3

\* The entry of q is not lower.
Covers(f, g, q) == q \in DOMAIN f => q \in DOMAIN g /\ g[q] \in Nat /\ f[q] <= g[q]

\* The watermarks afterwards cover its producer's blocks.
LEMMA MadeMarks ==
    ASSUME NEW bs, NEW cs, NEW m, NEW hd, NEW n, Made(bs, cs, m, hd, n), NEW st,
           MarkInv(bs, m, st), HeadInv(bs, hd),
           NEW b, b = cs[Len(cs)], NEW new, b.by \in DOMAIN new, new[b.by] = b.header.num,
           \A q \in Producer : q # b.by => Covers(m, new, q)
    PROVE  MarkInv(cs, new, st)
<1>0. /\ Len(bs) \in Nat /\ Len(cs) = Len(bs) + 1 /\ Grows(bs, cs) /\ Len(bs) >= 1
      /\ \A k \in 1 .. Len(bs) : cs[k] = bs[k] /\ Num(cs, k) = Num(bs, k)
  BY GrowsTree DEF Made
<1>a. \A k \in 1 .. Len(cs) : cs[k].header.num \in Nat /\ cs[k].by \in Producer
  BY <1>0 DEF Grows, Blocks, Block, IsHeader
<1> SUFFICES ASSUME NEW i \in 2 .. Len(cs)
             PROVE  \/ cs[i].slot <= st[cs[i].by]
                    \/ cs[i].by \in DOMAIN new /\ new[cs[i].by] >= Num(cs, i)
                    \/ ReinstalledIn(cs, cs[i].by, i, Len(cs))
  BY DEF MarkInv
<1>1. CASE i = Len(cs)
  <2>1. i \in 1 .. Len(cs) /\ cs[i].header.num \in Nat
    BY <1>0, <1>a
  <2>2. new[cs[i].by] = Num(cs, i) /\ Num(cs, i) \in Nat /\ cs[i].by \in DOMAIN new
    BY <1>1, <2>1 DEF Num
  <2>3. PICK x \in Nat : x = Num(cs, i)
    BY <2>2
  <2>4. x >= x
    OBVIOUS
  <2> QED
    BY <2>2, <2>3, <2>4
<1>2. CASE i # Len(cs)
  <2>1. i \in 2 .. Len(bs) /\ i \in 1 .. Len(bs) /\ cs[i] = bs[i] /\ Num(cs, i) = Num(bs, i)
    BY <1>0, <1>2
  <2>2. PICK q \in Producer : q = bs[i].by /\ q = cs[i].by
    BY <1>0, <1>a, <2>1
  <2>3. ASSUME ReinstalledIn(bs, q, i, Len(bs)) PROVE ReinstalledIn(cs, q, i, Len(cs))
    <3>1. Len(bs) \in 1 .. Len(bs) /\ Len(cs) \in Len(bs) .. Len(cs)
      BY <1>0
    <3> QED
      BY <1>0, <2>1, <2>3, <3>1, ReinstalledGrows
  <2>4. CASE q # b.by
    <3>1. Covers(m, new, q)
      BY <2>4
    <3>2. ASSUME q \in DOMAIN m, m[q] >= Num(bs, i) PROVE q \in DOMAIN new /\ new[q] >= Num(cs, i)
      <4>1. m[q] \in Nat /\ new[q] \in Nat /\ m[q] <= new[q] /\ q \in DOMAIN new
        BY <3>1, <3>2 DEF Covers, Made, IsMap
      <4>2. PICK x, y, z \in Nat : x = m[q] /\ y = Num(bs, i) /\ z = new[q]
        BY <1>0, <1>a, <2>1, <4>1 DEF Num
      <4>3. z >= y
        BY <3>2, <4>1, <4>2
      <4> QED
        BY <2>1, <4>1, <4>2, <4>3
    <3> QED
      BY <2>1, <2>2, <2>3, <3>2 DEF MarkInv
  <2>5. CASE q = b.by
    <3>1. CASE ~SameAt(m, n, q)
      <4>1. ReinstalledIn(cs, q, i, Len(cs))
        BY <2>1, <2>2, <2>5, <3>1, MadeReinstalls
      <4> QED
        BY <2>2, <4>1
    <3>2. CASE SameAt(m, n, q)
      <4>1. ASSUME q \in DOMAIN m, m[q] >= Num(bs, i) PROVE new[q] >= Num(cs, i)
        <5>1. m[q] \in Nat /\ m[q] < b.header.num
          BY <2>5, <3>2, <4>1 DEF SameAt, Made, IsMap
        <5>2. PICK x, y, z \in Nat : x = m[q] /\ y = Num(bs, i) /\ z = b.header.num
          <6>1. Num(bs, i) \in Nat
            BY <1>0, <1>a, <2>1 DEF Num
          <6>2. b.header.num \in Nat
            BY <1>0, <1>a
          <6> QED
            BY <5>1, <6>1, <6>2
        <5>3. x >= y /\ x < z
          BY <4>1, <5>1, <5>2
        <5>4. z >= y
          BY <5>3
        <5> QED
          BY <2>1, <2>5, <5>2, <5>4
      <4> QED
        BY <2>1, <2>2, <2>3, <2>5, <4>1 DEF MarkInv
    <3> QED
      BY <3>1, <3>2
  <2> QED
    BY <2>4, <2>5
<1> QED
  BY <1>1, <1>2

\* Its node is on the new block.
LEMMA MadeHeads ==
    ASSUME NEW bs, NEW cs, NEW m, NEW hd, NEW n, Made(bs, cs, m, hd, n), HeadInv(bs, hd),
           hd \in [Producer -> 1 .. Len(bs)], NEW new, new = [hd EXCEPT ![cs[Len(cs)].by] = Len(cs)]
    PROVE  HeadInv(cs, new) /\ new \in [Producer -> 1 .. Len(cs)]
<1>0. /\ Len(bs) \in Nat /\ Len(cs) = Len(bs) + 1 /\ Grows(bs, cs) /\ Len(bs) >= 1
      /\ \A k \in 1 .. Len(bs) : cs[k] = bs[k]
      /\ \A k \in 0 .. Len(bs) : Ancestors(cs, k) = Ancestors(bs, k)
  BY GrowsTree DEF Made
<1>a. \A k \in 1 .. Len(cs) : cs[k].by \in Producer
  BY <1>0 DEF Grows, Blocks, Block
<1>1. PICK p \in Producer : p = cs[Len(cs)].by
  BY <1>0, <1>a
<1>2. new[p] = Len(cs) /\ (\A q \in Producer \ {p} : new[q] = hd[q]) /\ new \in [Producer -> 1 .. Len(cs)]
  BY <1>0, <1>1
<1> SUFFICES ASSUME NEW i \in 2 .. Len(cs)
             PROVE  \E a \in i .. Len(cs) : cs[a].by = cs[i].by /\ Ancestors(cs, a) \subseteq Ancestors(cs, new[cs[i].by])
  BY <1>2 DEF HeadInv
<1>3. CASE cs[i].by = p
  <2>1. Len(cs) \in i .. Len(cs)
    BY <1>0
  <2>2. Ancestors(cs, Len(cs)) \subseteq Ancestors(cs, new[cs[i].by])
    BY <1>2, <1>3
  <2> QED
    BY <1>1, <1>3, <2>1, <2>2
<1>4. CASE cs[i].by # p
  <2>1. i \in 2 .. Len(bs) /\ cs[i] = bs[i]
    BY <1>0, <1>1, <1>4
  <2>2. PICK q \in Producer \ {p} : q = cs[i].by /\ q = bs[i].by
    BY <1>0, <1>a, <1>4, <2>1
  <2>3. PICK a \in i .. Len(bs) : bs[a].by = q /\ Ancestors(bs, a) \subseteq Ancestors(bs, hd[q])
    BY <2>1, <2>2 DEF HeadInv
  <2>4. a \in 0 .. Len(bs) /\ a \in 1 .. Len(bs) /\ hd[q] \in 0 .. Len(bs) /\ a \in i .. Len(cs)
    BY <1>0, <2>1
  <2>5. Ancestors(cs, a) = Ancestors(bs, a) /\ Ancestors(cs, hd[q]) = Ancestors(bs, hd[q])
    BY <1>0, <2>4
  <2>6. Ancestors(cs, a) \subseteq Ancestors(cs, new[q]) /\ cs[a].by = q
    BY <1>0, <1>2, <2>3, <2>4, <2>5
  <2> QED
    BY <2>2, <2>4, <2>6
<1> QED
  BY <1>3, <1>4

----------------------------------------------------------------------------
(* The chain before the network delays blocks. *)

\* The producer of a slot is one of the schedule.
LEMMA ScheduledProducer ==
    ASSUME NEW s, s.producers \in Seq(Producer), s.producers # <<>>, NEW t \in Nat
    PROVE  get_scheduled_producer(s, t) \in ToSet(s.producers) \cap Producer
<1>1. PICK N \in Nat \ {0}, R \in Nat \ {0} : N = Len(s.producers) /\ R = Repetitions
  BY HeaderAssumption
<1>2. PICK M \in Nat \ {0} : M = N * R
  OBVIOUS
<1>3. PICK x \in Nat : x = t % M /\ x < M
  OBVIOUS
<1>4. x \div R \in 0 .. N - 1
  BY <1>2, <1>3, Quotient
<1>5. PICK y \in 1 .. N : y = x \div R + 1
  BY <1>4
<1>6. get_scheduled_producer(s, t) = s.producers[y]
  BY <1>1, <1>2, <1>3, <1>5 DEF get_scheduled_producer
<1>7. s.producers[y] \in ToSet(s.producers) /\ s.producers[y] \in Producer
  BY <1>1, <1>5 DEF ToSet
<1> QED
  BY <1>6, <1>7

\* With no watermark yet, a block can only set one to its own number.
LEMMA OnBlockEmpty ==
    ASSUME NEW n, IsNode(n), n.marks = <<>>, NEW b, Block(b), NEW p \in Producer, NEW r, r = on_block(n, b, p)
    PROVE  \A q \in DOMAIN r.marks : r.marks[q] = b.header.num
<1>1. CASE b.slot <= n.signed.slot \/ b.slot <= n.started \/ b.header.num <= n.signed.num
  BY <1>1 DEF on_block
<1>2. CASE ~(b.slot <= n.signed.slot \/ b.slot <= n.started \/ b.header.num <= n.signed.num)
  <2>1. PICK w : w = Installed(b.header, b.slot, {p})
    OBVIOUS
  <2>2. \A q \in DOMAIN w : w[q] = b.header.num
    BY <2>1 DEF Installed
  <2>3. r.marks = Overlay(w, n.marks)
    BY <1>2, <2>1 DEF on_block, IsNode
  <2> QED
    BY <2>2, <2>3 DEF Overlay
<1> QED
  BY <1>1, <1>2

\* A chain without forks, and its watermarks.
Straight(w) ==
    /\ DOMAIN w = {"block", "marks", "signed"}
    /\ Blocks(w.block) /\ IsMap(w.marks) /\ w.signed \in [Producer -> [num : Nat, slot : Nat]]
    /\ Ancestors(w.block, Len(w.block)) = 1 .. Len(w.block)
    /\ \A q \in DOMAIN w.marks : w.marks[q] <= Num(w.block, Len(w.block))
    /\ OnceInv(w.block, [p \in Producer |-> 0])
    /\ MarkInv(w.block, w.marks, [p \in Producer |-> 0])

LEMMA StraightHeads ==
    ASSUME NEW w, Straight(w)
    PROVE  HeadInv(w.block, [p \in Producer |-> Len(w.block)])
<1> DEFINE bs == w.block
<1>1. /\ Parents(bs) /\ Len(bs) \in Nat /\ Len(bs) >= 1 /\ Ancestors(bs, Len(bs)) = 1 .. Len(bs)
      /\ \A i \in 1 .. Len(bs) : bs[i].by \in Producer
  BY DEF Straight, Blocks, Parents, Block
<1> HIDE DEF bs
<1>2. ASSUME NEW i \in 2 .. Len(bs)
      PROVE  \E a \in i .. Len(bs) : bs[a].by = bs[i].by /\ Ancestors(bs, a) \subseteq Ancestors(bs, [p \in Producer |-> Len(bs)][bs[i].by])
  <2>1. [p \in Producer |-> Len(bs)][bs[i].by] = Len(bs)
    BY <1>1
  <2>2. i \in Ancestors(bs, Len(bs)) /\ Len(bs) \in 0 .. Len(bs)
    BY <1>1
  <2>3. Ancestors(bs, i) \subseteq Ancestors(bs, Len(bs))
    BY <1>1, <2>2, AncestorsNest
  <2>4. i \in i .. Len(bs)
    OBVIOUS
  <2> QED
    BY <2>1, <2>3, <2>4
<1>3. HeadInv(bs, [p \in Producer |-> Len(bs)])
  BY <1>2 DEF HeadInv
<1> QED
  BY <1>3 DEF bs

LEMMA OriginStraight ==
    ASSUME NEW first \in Seq(Producer) \ {<<>>}
    PROVE  Straight(Origin(first))
<1>1. PICK b : b = [header |-> Genesis(first), parent |-> 0, by |-> first[1],
                    confirmed |-> 0, slot |-> 0, proposed |-> NoProposal]
  OBVIOUS
<1>2. PICK w : w = Origin(first)
  OBVIOUS
<1>3. PICK bs : bs = <<b>>
  OBVIOUS
<1>4. /\ DOMAIN w = {"block", "marks", "signed"} /\ w.block = bs /\ w.marks = <<>>
      /\ w.signed = [p \in Producer |-> Never]
  BY <1>1, <1>2, <1>3 DEF Origin
<1>5. bs \in Seq({b}) /\ Len(bs) = 1 /\ bs[1] = b
  BY <1>3
<1>6. PICK h : h = Genesis(first)
  OBVIOUS
<1>7. /\ DOMAIN h = {"num", "active", "pending", "pending_lib", "produced",
                     "implied", "counts", "dpos", "lib"}
      /\ h.num = 1 /\ h.active = [version |-> 0, producers |-> first]
      /\ h.pending = [version |-> 0, producers |-> first] /\ h.pending_lib = 0
      /\ h.produced = <<>> /\ h.implied = <<>> /\ h.counts = <<>> /\ h.dpos = 0 /\ h.lib = 0
  BY <1>6 DEF Genesis
<1>8. IsMap(<<>>)
  BY DEF IsMap
<1>9. Sane(h)
  BY <1>7, <1>8 DEF Sane, IsHeader, Schedule
<1>10. Block(b) /\ b.header = h /\ b.parent = 0 /\ b.header.num = 1
  <2>1. b.by \in Producer /\ b.proposed \in Proposal
    BY <1>1 DEF NoProposal, Proposal
  <2> QED
    BY <1>1, <1>6, <1>7, <1>9, <2>1 DEF Block, Sane
<1>11. Parents(bs)
  BY <1>5, <1>10 DEF Parents
<1>12. Blocks(bs)
  BY <1>5, <1>9, <1>10, <1>11 DEF Blocks, Num
<1>13. Ancestors(bs, 1) = 1 .. 1
  <2>a. 1 \in 1 .. Len(bs)
    BY <1>5
  <2>b. Ancestors(bs, 0) = {}
    BY <1>11, AncestorsStep
  <2>1. Ancestors(bs, 1) = {1} \cup Ancestors(bs, bs[1].parent)
    BY <2>a, <1>11, AncestorsStep
  <2>2. Ancestors(bs, 1) = {1} \cup Ancestors(bs, 0)
    BY <1>5, <1>10, <2>1
  <2>3. Ancestors(bs, 1) = {1} \cup {}
    BY <2>b, <2>2, Zenon
  <2>4. {1} \cup {} = 1 .. 1
    OBVIOUS
  <2> QED
    BY <2>3, <2>4, Zenon
<1>14. w.signed \in [Producer -> [num : Nat, slot : Nat]]
  BY <1>4 DEF Never
<1>15. OnceInv(bs, [p \in Producer |-> 0]) /\ MarkInv(bs, <<>>, [p \in Producer |-> 0])
  BY <1>5 DEF OnceInv, MarkInv
<1> QED
  BY <1>2, <1>4, <1>5, <1>8, <1>12, <1>13, <1>14, <1>15 DEF Straight

\* The next block of such a chain.
Extending(w, s, bs, i, t, p, b, cs) ==
    /\ bs = w.block /\ i = Len(bs) /\ t = bs[i].slot + 1
    /\ p = get_scheduled_producer(bs[i].header.active, t)
    /\ b = produce_block(bs, i, p, w.marks, t, s) /\ cs = Append(bs, b)

LEMMA ExtendMakes ==
    ASSUME NEW w, Straight(w), NEW s \in Seq(Producer), NEW bs, NEW i, NEW t, NEW p, NEW b, NEW cs,
           Extending(w, s, bs, i, t, p, b, cs)
    PROVE  /\ Grows(bs, cs) /\ i \in 1 .. Len(bs) /\ i = Len(bs)
           /\ p \in Producer /\ p \in ToSet(bs[i].header.active.producers) /\ t \in Nat /\ t > bs[i].slot
           /\ IsMap(w.marks) /\ NewBlock(bs, cs, b, i, p, w.marks, t)
           /\ Block(b) /\ b.header.num \in Nat /\ Num(bs, i) \in Nat
<1>1. /\ bs = w.block /\ i = Len(bs) /\ t = bs[i].slot + 1
      /\ p = get_scheduled_producer(bs[i].header.active, t)
      /\ b = produce_block(bs, i, p, w.marks, t, s) /\ cs = Append(bs, b)
  BY DEF Extending
<1>2. /\ Blocks(bs) /\ Parents(bs) /\ i \in Nat /\ i >= 1 /\ i \in 1 .. Len(bs) /\ Block(bs[i]) /\ Sane(bs[i].header)
      /\ bs[i].slot \in Nat /\ t \in Nat /\ t > bs[Len(bs)].slot
  <2>1. Blocks(bs) /\ Parents(bs) /\ i \in Nat /\ i >= 1
    BY <1>1 DEF Straight, Blocks, Parents
  <2>2. i \in 1 .. Len(bs)
    BY <1>1, <2>1
  <2>3. Block(bs[i]) /\ Sane(bs[i].header)
    BY <2>1, <2>2 DEF Blocks
  <2>4. bs[i].slot \in Nat
    BY <2>3 DEF Block
  <2> QED
    BY <1>1, <2>1, <2>2, <2>3, <2>4
<1>4. p \in ToSet(bs[i].header.active.producers) \cap Producer
  BY <1>1, <1>2, ScheduledProducer DEF Sane, IsHeader, Schedule
<1>6. IsMap(w.marks) /\ (p \in DOMAIN w.marks => w.marks[p] <= Num(bs, i))
  BY <1>1 DEF Straight
<1>7. NewBlock(bs, cs, b, i, p, w.marks, t)
  BY <1>1, <1>2, <1>4, <1>6, ProduceBlock
<1>a. Blocks(cs) /\ Len(cs) = Len(bs) + 1 /\ cs[Len(cs)] = b /\ \A k \in 1 .. Len(bs) : cs[k] = bs[k]
  BY <1>7 DEF NewBlock
<1>8. Block(b) /\ b.header.num \in Nat /\ Num(bs, i) \in Nat
  <2>1. Len(cs) \in 1 .. Len(cs)
    BY <1>1, <1>2, <1>a
  <2>2. Block(b)
    BY <1>a, <2>1 DEF Blocks
  <2> QED
    BY <1>2, <2>2 DEF Block, IsHeader, Num
<1>9. Grows(bs, cs)
  BY <1>2, <1>a DEF Grows
<1> QED
  BY <1>1, <1>2, <1>4, <1>6, <1>7, <1>8, <1>9

LEMMA ExtendStraight ==
    ASSUME NEW w, Straight(w), NEW s \in Seq(Producer)
    PROVE  Straight(Extend(w, s))
<1>a. PICK bs, i, t, p, b, cs : Extending(w, s, bs, i, t, p, b, cs)
  BY DEF Extending
<1>1. bs = w.block /\ i = Len(bs) /\ t = bs[i].slot + 1
  BY <1>a DEF Extending
<1>2. i \in 1 .. Len(bs) /\ i \in Nat /\ i >= 1
  BY <1>a, ExtendMakes
<1>3. p = get_scheduled_producer(bs[i].header.active, t)
  BY <1>a DEF Extending
<1>4. p \in Producer
  BY <1>a, ExtendMakes
<1>5. b = produce_block(bs, i, p, w.marks, t, s) /\ cs = Append(bs, b)
  BY <1>a DEF Extending
<1>6. IsMap(w.marks) /\ (p \in DOMAIN w.marks => w.marks[p] <= Num(bs, i))
  BY <1>1 DEF Straight
<1>7. /\ Blocks(cs) /\ Len(cs) = Len(bs) + 1 /\ cs[Len(cs)] = b
      /\ \A k \in 1 .. Len(bs) : cs[k] = bs[k]
      /\ b.by = p /\ b.parent = i /\ b.slot = t
      /\ b.header.num = Num(bs, i) + 1
      /\ b.header.num - b.confirmed = IF p \in DOMAIN w.marks THEN w.marks[p] + 1 ELSE b.header.num
  <2>1. NewBlock(bs, cs, b, i, p, w.marks, t)
    BY <1>a, ExtendMakes
  <2> QED
    BY <2>1 DEF NewBlock
<1>8. Block(b) /\ b.header.num \in Nat /\ Num(bs, i) \in Nat
  BY <1>a, ExtendMakes
<1>9. Grows(bs, cs)
  BY <1>a, ExtendMakes
<1> DEFINE hd == [q \in Producer |-> Len(bs)]
<1>10. HeadInv(bs, hd)
  BY <1>1, StraightHeads
<1>11. Made(bs, cs, w.marks, hd, w.marks)
  <2>1. SameAt(w.marks, w.marks, p)
    BY DEF SameAt
  <2>2. hd[p] \in 1 .. Len(bs)
    BY <1>1, <1>2, <1>4
  <2>3. p \in DOMAIN w.marks => w.marks[p] < b.header.num
    BY <1>6, <1>7, <1>8 DEF IsMap
  <2> HIDE DEF hd
  <2> QED
    BY <1>2, <1>6, <1>7, <1>9, <2>1, <2>2, <2>3 DEF Made
<1> HIDE DEF hd
<1> DEFINE z == [q \in Producer |-> 0]
<1>12. OnceInv(bs, z) /\ MarkInv(bs, w.marks, z)
  BY <1>1 DEF Straight
<1> HIDE DEF z
<1>13. OnceInv(cs, z)
  BY <1>10, <1>11, <1>12, MadeOnce
<1> DEFINE n == [q \in Producer |-> on_block([marks |-> <<>>, signed |-> w.signed[q], started |-> 0], b, q)]
<1>14. ASSUME NEW q \in Producer
       PROVE  /\ IsNode(n[q]) /\ \A r \in DOMAIN n[q].marks : n[q].marks[r] = b.header.num
  <2>1. PICK o : o = [marks |-> <<>>, signed |-> w.signed[q], started |-> 0]
    OBVIOUS
  <2>2. IsNode(o) /\ o.marks = <<>>
    <3>1. IsMap(<<>>)
      BY DEF IsMap
    <3> QED
      BY <2>1, <3>1 DEF IsNode, Straight
  <2>3. PICK r : r = on_block(o, b, q)
    OBVIOUS
  <2>4. IsNode(r)
    BY <1>8, <2>2, <2>3, OnBlock
  <2>5. \A x \in DOMAIN r.marks : r.marks[x] = b.header.num
    BY <1>8, <2>2, <2>3, OnBlockEmpty
  <2>6. n[q] = r
    BY <2>1, <2>3
  <2> QED
    BY <2>4, <2>5, <2>6
<1> HIDE DEF n
<1> DEFINE at == {q \in Producer : q \in DOMAIN n[q].marks}
           installed == [q \in at |-> n[q].marks[q]]
<1>15. DOMAIN installed \subseteq Producer /\ \A q \in DOMAIN installed : installed[q] = b.header.num
  BY <1>14
<1>16. PICK e : e = Extend(w, s)
  OBVIOUS
<1>17. e = [block |-> cs, marks |-> Assign(Overlay(installed, w.marks), p, b.header.num),
            signed |-> [q \in Producer |-> n[q].signed]]
  BY <1>1, <1>3, <1>5, <1>16 DEF Extend, n
<1>18. PICK ins : ins = installed
  OBVIOUS
<1> HIDE DEF installed
<1>19. DOMAIN ins \subseteq Producer /\ \A q \in DOMAIN ins : ins[q] = b.header.num
  BY <1>15, <1>18
<1>20. PICK new : new = Assign(Overlay(ins, w.marks), p, b.header.num)
  OBVIOUS
<1>21. /\ DOMAIN new = DOMAIN ins \cup DOMAIN w.marks \cup {p} /\ p \in DOMAIN new /\ new[p] = b.header.num
       /\ \A q \in DOMAIN new : new[q] = b.header.num \/ (q \in DOMAIN w.marks /\ new[q] = w.marks[q])
  BY <1>19, <1>20 DEF Assign, Overlay
<1>22. \A q \in DOMAIN w.marks : w.marks[q] \in Nat /\ w.marks[q] <= b.header.num
  <2>1. ASSUME NEW q \in DOMAIN w.marks PROVE w.marks[q] \in Nat /\ w.marks[q] <= b.header.num
    <3>1. w.marks[q] \in Nat /\ w.marks[q] <= Num(bs, i)
      BY <1>1 DEF Straight, IsMap
    <3> QED
      BY <1>7, <1>8, <3>1
  <2> QED
    BY <2>1
<1>23. IsMap(new) /\ \A q \in DOMAIN new : new[q] <= b.header.num
  <2>1. DOMAIN new \subseteq Producer
    BY <1>4, <1>6, <1>19, <1>21 DEF IsMap
  <2>2. ASSUME NEW q \in DOMAIN new PROVE new[q] \in Nat /\ new[q] <= b.header.num
    BY <1>8, <1>21, <1>22
  <2>3. new = [q \in DOMAIN new |-> new[q]]
    BY <1>20 DEF Assign
  <2> QED
    BY <2>1, <2>2, <2>3 DEF IsMap
<1>24. \A q \in Producer : q # b.by => Covers(w.marks, new, q)
  <2> SUFFICES ASSUME NEW q \in DOMAIN w.marks PROVE q \in DOMAIN new /\ new[q] \in Nat /\ w.marks[q] <= new[q]
    BY DEF Covers
  <2>1. q \in DOMAIN new /\ w.marks[q] \in Nat
    BY <1>21, <1>22
  <2> QED
    BY <1>8, <1>21, <1>22, <2>1
<1>25. MarkInv(cs, new, z)
  <2>1. b.by \in DOMAIN new /\ new[b.by] = b.header.num
    BY <1>7, <1>21
  <2> QED
    BY <1>7, <1>10, <1>11, <1>12, <1>24, <2>1, MadeMarks
<1>26. Ancestors(cs, Len(cs)) = 1 .. Len(cs)
  <2>1. Parents(cs) /\ Ancestors(cs, i) = Ancestors(bs, i)
    BY <1>2, <1>9, GrowsTree
  <2>2. Len(cs) \in 1 .. Len(cs)
    BY <1>1, <1>2, <1>7
  <2>3. Ancestors(cs, Len(cs)) = {Len(cs)} \cup Ancestors(cs, cs[Len(cs)].parent)
    BY <2>1, <2>2, AncestorsStep
  <2>4. Ancestors(cs, cs[Len(cs)].parent) = Ancestors(bs, i)
    BY <1>7, <2>1
  <2>5. Ancestors(bs, i) = 1 .. i
    BY <1>1 DEF Straight
  <2> QED
    <3>1. Len(cs) = i + 1 /\ i \in Nat
      BY <1>1, <1>2, <1>7
    <3>2. Ancestors(cs, Len(cs)) = {i + 1} \cup (1 .. i)
      BY <2>3, <2>4, <2>5, <3>1
    <3>3. {i + 1} \cup (1 .. i) = 1 .. i + 1
      BY <3>1
    <3> QED
      BY <3>1, <3>2, <3>3
<1>27. [q \in Producer |-> n[q].signed] \in [Producer -> [num : Nat, slot : Nat]]
  BY <1>14 DEF IsNode
<1>28. /\ DOMAIN e = {"block", "marks", "signed"} /\ e.block = cs /\ e.marks = new
       /\ e.signed = [q \in Producer |-> n[q].signed]
  BY <1>17, <1>18, <1>20
<1>29. Num(cs, Len(cs)) = b.header.num
  BY <1>7 DEF Num
<1>30. Straight(e)
  BY <1>7, <1>13, <1>23, <1>25, <1>26, <1>27, <1>28, <1>29 DEF Straight, z
<1> QED
  BY <1>16, <1>30

\* The loop of Chain is what its definition says.
ChainStep(s, upto, num) ==
    IF num = 1 THEN Origin(s.first) ELSE Extend(upto[num - 1], IF num = s.at THEN s.next ELSE <<>>)

LEMMA ChainRuns ==
    ASSUME NEW s, s.length \in Nat \ {0}
    PROVE  \E upto : /\ \A k \in 1 .. s.length : upto[k] = ChainStep(s, upto, k)
                     /\ Chain(s) = upto[s.length]
<1> DEFINE N == s.length
           Step(upto, k) == ChainStep(s, upto, k)
           Fine(upto) == upto = [k \in 1 .. N |-> Step(upto, k)]
           D == {k \in Nat : \E upto : \A l \in 1 .. k : upto[l] = Step(upto, l)}
<1>0. ASSUME NEW g, NEW h, NEW k \in Nat, k # 1 => g[k - 1] = h[k - 1] PROVE Step(g, k) = Step(h, k)
  BY <1>0 DEF ChainStep
<1>1. 0 \in D
  OBVIOUS
<1>2. ASSUME NEW k \in Nat, k \in D PROVE k + 1 \in D
  <2>1. PICK g : \A l \in 1 .. k : g[l] = Step(g, l)
    BY <1>2
  <2> DEFINE h == [l \in 1 .. k + 1 |-> IF l <= k THEN g[l] ELSE Step(g, l)]
  <2> HIDE DEF Step
  <2>2. ASSUME NEW l \in 1 .. k + 1 PROVE h[l] = Step(h, l)
    <3>1. l # 1 => h[l - 1] = g[l - 1]
      OBVIOUS
    <3>2. Step(h, l) = Step(g, l)
      BY <1>0, <3>1
    <3> QED
      BY <2>1, <3>2
  <2> HIDE DEF h
  <2> QED
    BY <2>2
<1> HIDE DEF Step
<1>3. Nat \subseteq D
  <2> HIDE DEF D
  <2> QED
    BY <1>1, <1>2, SetInduction
<1>4. PICK g : \A k \in 1 .. N : g[k] = Step(g, k)
  BY <1>3
<1> DEFINE h == [k \in 1 .. N |-> g[k]]
<1>5. ASSUME NEW k \in 1 .. N PROVE h[k] = Step(h, k)
  <2>1. k # 1 => h[k - 1] = g[k - 1]
    OBVIOUS
  <2>2. Step(h, k) = Step(g, k)
    BY <1>0, <2>1
  <2> QED
    BY <1>4, <2>2
<1>6. Fine(h)
  BY <1>5
<1> HIDE DEF h
<1>7. Fine(CHOOSE upto : Fine(upto))
  BY <1>6, Zenon
<1>8. Chain(s) = (CHOOSE upto : Fine(upto))[N]
  BY DEF Chain, Step, ChainStep
<1>9. PICK upto : upto = CHOOSE f : Fine(f)
  OBVIOUS
<1>10. \A k \in 1 .. N : upto[k] = ChainStep(s, upto, k)
  BY <1>7, <1>9 DEF Step
<1> QED
  BY <1>8, <1>9, <1>10

LEMMA ChainStraight ==
    ASSUME NEW s \in Starts
    PROVE  Straight(Chain(s))
<1>1. /\ s.first \in Seq(Producer) \ {<<>>} /\ s.next \in Seq(Producer) /\ s.length \in Nat \ {0}
  BY FinalityAssumption
<1>2. PICK upto : /\ \A k \in 1 .. s.length : upto[k] = ChainStep(s, upto, k)
                  /\ Chain(s) = upto[s.length]
  BY <1>1, ChainRuns
<1> DEFINE D == {k \in Nat : k + 1 <= s.length => Straight(upto[k + 1])}
<1>3. 0 \in D
  <2>1. upto[1] = Origin(s.first)
    BY <1>1, <1>2 DEF ChainStep
  <2>2. Straight(Origin(s.first))
    BY <1>1, OriginStraight
  <2> QED
    BY <2>1, <2>2
<1>4. ASSUME NEW k \in Nat, k \in D PROVE k + 1 \in D
  <2> SUFFICES ASSUME k + 2 <= s.length PROVE Straight(upto[k + 2])
    OBVIOUS
  <2>1. PICK w : w = upto[k + 1] /\ Straight(w)
    BY <1>1, <1>4
  <2>2. PICK l \in 1 .. s.length : l = k + 2 /\ l # 1 /\ l - 1 = k + 1
    BY <1>1
  <2>3. PICK x : x = IF l = s.at THEN s.next ELSE <<>>
    OBVIOUS
  <2>4. x \in Seq(Producer)
    BY <1>1, <2>3
  <2>5. upto[l] = Extend(w, x)
    BY <1>2, <2>1, <2>2, <2>3 DEF ChainStep
  <2>6. Straight(Extend(w, x))
    BY <2>1, <2>4, ExtendStraight
  <2> QED
    BY <2>2, <2>5, <2>6
<1> HIDE DEF D
<1>5. Nat \subseteq D
  BY <1>3, <1>4, SetInduction
<1>6. PICK k \in Nat : k + 1 = s.length
  <2>1. PICK N \in Nat \ {0} : N = s.length
    BY <1>1
  <2>2. PICK l \in Nat : l = N - 1
    OBVIOUS
  <2>3. l + 1 = N
    BY <2>2
  <2> QED
    BY <2>1, <2>3
<1>7. Straight(upto[k + 1])
  BY <1>1, <1>5, <1>6 DEF D
<1> QED
  BY <1>2, <1>6, <1>7

----------------------------------------------------------------------------
(* ConfirmsOnce, for any schedules and any number of restarts. *)

\* The inductive invariant: the blocks are a tree, and what the three parts above
\* say of producers, watermarks and nodes.
FInv ==
    /\ Blocks(block) /\ ForksTypeOK
    /\ OnceInv(block, started) /\ MarkInv(block, marks, started) /\ HeadInv(block, heads)

LEMMA ForksInitHolds == ASSUME ForksInit PROVE FInv
<1>1. PICK s \in Starts :
         LET c == Chain(s)
         IN  /\ block = c.block /\ marks = c.marks /\ signed = c.signed
             /\ heads = [p \in Producer |-> Len(c.block)]
  BY DEF ForksInit
<1>2. PICK c : c = Chain(s)
  OBVIOUS
<1>3. Straight(c)
  BY <1>2, ChainStraight
<1>4. block = c.block /\ marks = c.marks /\ signed = c.signed /\ heads = [p \in Producer |-> Len(block)]
  BY <1>1, <1>2
<1>5. started = [p \in Producer |-> 0] /\ made = 0 /\ restarts = 0 /\ MaxNew \in Nat /\ MaxRestarts \in Nat
  BY FinalityAssumption DEF ForksInit
<1>6. HeadInv(block, heads)
  BY <1>3, <1>4, StraightHeads
<1>7. Blocks(block) /\ Len(block) \in Nat /\ Len(block) >= 1 /\ \A i \in 1 .. Len(block) : Block(block[i])
  BY <1>3, <1>4 DEF Straight, Blocks, Parents
<1>8. ForksTypeOK
  <2>1. heads \in [Producer -> 1 .. Len(block)] /\ started \in [Producer -> Nat]
    BY <1>4, <1>5, <1>7
  <2>2. IsMap(marks) /\ signed \in [Producer -> [num : Nat, slot : Nat]]
    BY <1>3, <1>4 DEF Straight
  <2>3. made \in 0 .. MaxNew /\ restarts \in 0 .. MaxRestarts
    BY <1>5
  <2> QED
    BY <1>7, <2>1, <2>2, <2>3 DEF ForksTypeOK
<1> QED
  BY <1>3, <1>4, <1>5, <1>6, <1>7, <1>8 DEF FInv, Straight

\* What a step of Produce does, in the terms of the lemmas.
Produced(p, j, n, b, m) ==
    /\ n = apply_blocks(Node(p), block, Branch(block, heads[p], j), p)
    /\ b = produce_block(block, j, p, n.marks,
                         NextSlot(block[j].header.active, p, block[Len(block)].slot), <<>>)
    /\ m = on_block(n, b, p)
    /\ p \in ToSet(block[j].header.active.producers)
    /\ MaySign(n.marks, p, block[j].header.num + 1)
    /\ block' = Append(block, b)
    /\ heads' = [heads EXCEPT ![p] = Len(block) + 1]
    /\ marks' = Assign(m.marks, p, b.header.num)
    /\ signed' = [signed EXCEPT ![p] = m.signed]
    /\ made' = made + 1 /\ made < MaxNew /\ started' = started /\ restarts' = restarts

LEMMA ProduceIs ==
    ASSUME NEW p, NEW j, Produce(p, j)
    PROVE  \E n, b, m : Produced(p, j, n, b, m)
BY DEF Produce, Produced

LEMMA ProducedMade ==
    ASSUME Blocks(block), ForksTypeOK, NEW p \in Producer, NEW j \in 1 .. Len(block),
           NEW n, NEW b, NEW m, Produced(p, j, n, b, m)
    PROVE  /\ IsNode(n) /\ IsNode(m)
           /\ Made(block, block', marks, heads, n.marks)
           /\ NewBlock(block, block', b, j, p, n.marks, NextSlot(block[j].header.active, p, block[Len(block)].slot))
           /\ NextSlot(block[j].header.active, p, block[Len(block)].slot) \in Nat
           /\ \A q \in Producer : q # p => SameAt(marks, m.marks, q)
<1>1. PICK bs, i, path, o : /\ bs = block /\ i = heads[p] /\ path = Branch(bs, i, j) /\ o = Node(p)
  OBVIOUS
<1>2. PICK t : t = NextSlot(bs[j].header.active, p, bs[Len(bs)].slot)
  OBVIOUS
<1>3. /\ n = apply_blocks(o, bs, path, p) /\ b = produce_block(bs, j, p, n.marks, t, <<>>)
      /\ m = on_block(n, b, p) /\ p \in ToSet(bs[j].header.active.producers)
      /\ MaySign(n.marks, p, bs[j].header.num + 1) /\ block' = Append(bs, b)
  BY <1>1, <1>2, Zenon DEF Produced
<1>4. Blocks(bs) /\ Parents(bs) /\ j \in 1 .. Len(bs) /\ i \in 1 .. Len(bs) /\ Len(bs) \in Nat /\ Len(bs) >= 1
  BY <1>1 DEF ForksTypeOK, Blocks, Parents
<1>5. IsNode(o) /\ o.marks = marks
  BY <1>1 DEF Node, IsNode, ForksTypeOK
<1>6. /\ Len(path) \in Nat
      /\ \A k \in 1 .. Len(path) : path[k] \in Ancestors(bs, j) \ Ancestors(bs, i)
  BY <1>1, <1>4, BranchBlocks
<1>7. \A k \in 1 .. Len(path) : Block(bs[path[k]])
  <2>1. Ancestors(bs, j) \subseteq 1 .. j
    BY <1>4, AncestorsWithin
  <2>2. ASSUME NEW k \in 1 .. Len(path) PROVE path[k] \in 1 .. Len(bs)
    BY <1>4, <1>6, <2>1
  <2>3. \A k \in 1 .. Len(bs) : Block(bs[k])
    BY <1>4 DEF Blocks
  <2> QED
    BY <2>2, <2>3
<1>8. /\ IsNode(n)
      /\ \A q \in Producer :
            q # p \/ (\A k \in 1 .. Len(path) : ~Installs(bs[path[k]], p)) => SameAt(o.marks, n.marks, q)
  BY <1>3, <1>5, <1>6, <1>7, ApplyBlocks
<1>9. Block(bs[j]) /\ Sane(bs[j].header) /\ Block(bs[Len(bs)])
  BY <1>4 DEF Blocks
<1>10. t \in Nat /\ t > bs[Len(bs)].slot
  <2>1. PICK u \in Nat : u = bs[Len(bs)].slot
    BY <1>9 DEF Block
  <2>2. PICK a : a = bs[j].header.active /\ a.producers \in Seq(Producer)
    BY <1>9 DEF Sane, IsHeader, Schedule
  <2>3. t = NextSlot(a, p, u) /\ p \in ToSet(a.producers)
    BY <1>2, <1>3, <2>1, <2>2
  <2>4. t \in Nat /\ t > u
    BY <2>2, <2>3, NextSlotLater
  <2> QED
    BY <2>1, <2>4
<1>11. IsMap(n.marks) /\ (p \in DOMAIN n.marks => n.marks[p] <= Num(bs, j) /\ n.marks[p] < Num(bs, j) + 1)
  <2>1. IsMap(n.marks)
    BY <1>8 DEF IsNode
  <2>2. ASSUME p \in DOMAIN n.marks PROVE n.marks[p] <= Num(bs, j) /\ n.marks[p] < Num(bs, j) + 1
    <3>1. PICK x, y \in Nat : x = n.marks[p] /\ y = bs[j].header.num
      BY <1>9, <2>1, <2>2 DEF Block, IsHeader, IsMap
    <3>2. x < y + 1
      BY <1>3, <2>2, <3>1 DEF MaySign
    <3> QED
      BY <3>1, <3>2 DEF Num
  <2> QED
    BY <2>1, <2>2
<1>12. PICK cs : cs = block'
  OBVIOUS
<1>13. NewBlock(bs, cs, b, j, p, n.marks, t)
  <2>1. cs = Append(bs, b)
    BY <1>3, <1>12
  <2>2. <<>> \in Seq(Producer)
    OBVIOUS
  <2> QED
    BY <1>3, <1>4, <1>10, <1>11, <2>1, <2>2, ProduceBlock
<1>14. Grows(bs, cs) /\ Block(b)
  <2>1. Len(cs) \in 1 .. Len(cs)
    BY <1>4, <1>13 DEF NewBlock
  <2> QED
    BY <1>4, <1>13, <2>1 DEF NewBlock, Grows, Blocks
<1>15. /\ IsNode(m)
       /\ \A q \in Producer : q # p \/ ~Installs(b, p) => SameAt(n.marks, m.marks, q)
  BY <1>3, <1>8, <1>14, OnBlock
<1>16. \A q \in Producer : q # p => SameAt(marks, m.marks, q)
  <2> SUFFICES ASSUME NEW q \in Producer, q # p PROVE SameAt(marks, m.marks, q)
    OBVIOUS
  <2>1. SameAt(marks, n.marks, q) /\ SameAt(n.marks, m.marks, q)
    BY <1>5, <1>8, <1>15
  <2> QED
    BY <2>1 DEF SameAt
<1>17. \/ SameAt(marks, n.marks, p)
       \/ \E k \in Ancestors(bs, j) \ Ancestors(bs, i) : Installs(bs[k], p)
  BY <1>5, <1>6, <1>8
<1>18. Made(bs, cs, marks, heads, n.marks)
  <2>1. /\ cs[Len(cs)] = b /\ b.by = p /\ b.parent = j /\ b.header.num = Num(bs, j) + 1
        /\ b.header.num - b.confirmed = IF p \in DOMAIN n.marks THEN n.marks[p] + 1 ELSE b.header.num
    BY <1>13 DEF NewBlock
  <2>2. IsMap(marks)
    BY DEF ForksTypeOK
  <2>3. p \in DOMAIN n.marks => n.marks[p] < b.header.num
    BY <1>11, <2>1
  <2> QED
    BY <1>1, <1>4, <1>11, <1>14, <1>17, <2>1, <2>2, <2>3 DEF Made
<1> QED
  BY <1>1, <1>2, <1>8, <1>10, <1>12, <1>13, <1>15, <1>16, <1>18

LEMMA ProduceKeeps ==
    ASSUME FInv, NEW p \in Producer, NEW j \in 1 .. Len(block), Produce(p, j)
    PROVE  FInv'
<1>1. PICK n, b, m : Produced(p, j, n, b, m)
  BY ProduceIs
<1>2. /\ Blocks(block) /\ ForksTypeOK /\ OnceInv(block, started) /\ MarkInv(block, marks, started)
      /\ HeadInv(block, heads)
  BY DEF FInv
<1>3. /\ IsNode(n) /\ IsNode(m) /\ Made(block, block', marks, heads, n.marks)
      /\ \A q \in Producer : q # p => SameAt(marks, m.marks, q)
  BY <1>1, <1>2, ProducedMade
<1>4. NewBlock(block, block', b, j, p, n.marks, NextSlot(block[j].header.active, p, block[Len(block)].slot))
  BY <1>1, <1>2, ProducedMade
<1>5. PICK bs, cs, hd, new, st : bs = block /\ cs = block' /\ hd = heads' /\ new = marks' /\ st = started /\ st = started'
  BY <1>1 DEF Produced
<1>6. Blocks(cs) /\ Len(cs) = Len(bs) + 1 /\ cs[Len(cs)] = b /\ b.by = p
  BY <1>4, <1>5 DEF NewBlock
<1>7. Block(b) /\ b.header.num \in Nat /\ \A k \in 1 .. Len(cs) : Block(cs[k])
  <2>1. Len(cs) \in Nat /\ Len(cs) >= 1 /\ \A k \in 1 .. Len(cs) : Block(cs[k])
    BY <1>6 DEF Blocks, Parents
  <2>2. Len(cs) \in 1 .. Len(cs)
    BY <2>1
  <2>3. Block(b)
    BY <1>6, <2>1, <2>2
  <2> QED
    BY <2>1, <2>3 DEF Block, IsHeader
<1>8. OnceInv(cs, st)
  BY <1>2, <1>3, <1>5, MadeOnce
<1>9. new = Assign(m.marks, p, b.header.num) /\ IsMap(m.marks) /\ IsMap(marks)
  BY <1>1, <1>2, <1>3, <1>5 DEF Produced, IsNode, ForksTypeOK
<1>10. IsMap(new)
  BY <1>7, <1>9 DEF Assign, IsMap
<1>11. MarkInv(cs, new, st)
  <2>1. b.by \in DOMAIN new /\ new[b.by] = b.header.num
    BY <1>6, <1>9 DEF Assign
  <2>2. \A q \in Producer : q # b.by => Covers(marks, new, q)
    <3> SUFFICES ASSUME NEW q \in Producer, q # p, q \in DOMAIN marks
                 PROVE  q \in DOMAIN new /\ new[q] \in Nat /\ marks[q] <= new[q]
      BY <1>6 DEF Covers
    <3>1. q \in DOMAIN m.marks /\ m.marks[q] = marks[q]
      BY <1>3 DEF SameAt
    <3>2. q \in DOMAIN new /\ new[q] = marks[q]
      BY <1>9, <3>1 DEF Assign
    <3>3. PICK x \in Nat : x = marks[q]
      BY <1>9 DEF IsMap
    <3> QED
      BY <3>2, <3>3
  <2> QED
    BY <1>2, <1>3, <1>5, <1>6, <2>1, <2>2, MadeMarks
<1>12. HeadInv(cs, hd) /\ hd \in [Producer -> 1 .. Len(cs)]
  <2>1. heads \in [Producer -> 1 .. Len(block)]
    BY <1>2 DEF ForksTypeOK
  <2>2. hd = [heads EXCEPT ![cs[Len(cs)].by] = Len(cs)]
    BY <1>1, <1>5, <1>6 DEF Produced
  <2> QED
    BY <1>2, <1>3, <1>5, <2>1, <2>2, MadeHeads
<1>13. signed' \in [Producer -> [num : Nat, slot : Nat]]
  BY <1>1, <1>2, <1>3 DEF Produced, IsNode, ForksTypeOK
<1>14. started' \in [Producer -> Nat] /\ made' \in 0 .. MaxNew /\ restarts' \in 0 .. MaxRestarts
  BY <1>1, <1>2, FinalityAssumption DEF Produced, ForksTypeOK
<1>15. ForksTypeOK'
  BY <1>5, <1>7, <1>10, <1>12, <1>13, <1>14 DEF ForksTypeOK
<1> QED
  BY <1>5, <1>6, <1>8, <1>11, <1>12, <1>15 DEF FInv

LEMMA RestartKeeps ==
    ASSUME FInv, NEW p \in Producer, Restart(p)
    PROVE  FInv'
<1>1. /\ Blocks(block) /\ ForksTypeOK /\ OnceInv(block, started) /\ MarkInv(block, marks, started)
      /\ HeadInv(block, heads)
  BY DEF FInv
<1>2. /\ block' = block /\ heads' = heads /\ made' = made
      /\ marks' = [q \in DOMAIN marks \ {p} |-> marks[q]]
      /\ signed' = [signed EXCEPT ![p] = Never]
      /\ started' = [started EXCEPT ![p] = block[Len(block)].slot]
      /\ restarts < MaxRestarts /\ restarts' = restarts + 1
  BY DEF Restart
<1>3. PICK bs, m, st : bs = block /\ m = marks' /\ st = started'
  OBVIOUS
<1>4. /\ Len(bs) \in Nat /\ Len(bs) >= 1
      /\ \A i \in 1 .. Len(bs) : Block(bs[i]) /\ bs[i].slot \in Nat /\ bs[i].by \in Producer
  BY <1>1, <1>3 DEF Blocks, Parents, Block
<1>5. \A i \in 1 .. Len(bs) : bs[i].slot <= bs[Len(bs)].slot
  <2> SUFFICES ASSUME NEW i \in 1 .. Len(bs) PROVE bs[i].slot <= bs[Len(bs)].slot
    OBVIOUS
  <2>1. i < Len(bs) => bs[i].slot < bs[Len(bs)].slot
    BY <1>1, <1>3, <1>4 DEF Blocks
  <2>2. bs[i].slot \in Nat /\ bs[Len(bs)].slot \in Nat
    BY <1>4
  <2> QED
    BY <1>4, <2>1, <2>2
<1>6. started \in [Producer -> Nat] /\ st \in [Producer -> Nat]
  <2>1. bs[Len(bs)].slot \in Nat
    BY <1>4
  <2> QED
    BY <1>1, <1>2, <1>3, <2>1 DEF ForksTypeOK
<1>7. ASSUME NEW i \in 2 .. Len(bs)
      PROVE  IF bs[i].by = p THEN bs[i].slot <= st[bs[i].by] ELSE st[bs[i].by] = started[bs[i].by]
  <2>1. bs[i].by \in Producer /\ bs[i].slot <= bs[Len(bs)].slot
    BY <1>4, <1>5
  <2>2. st[p] = bs[Len(bs)].slot /\ \A q \in Producer \ {p} : st[q] = started[q]
    BY <1>2, <1>3, <1>6
  <2> QED
    BY <2>1, <2>2
<1>8. OnceInv(bs, st)
  <2> SUFFICES ASSUME NEW i \in 2 .. Len(bs), NEW j \in 2 .. Len(bs), i < j, bs[i].by = bs[j].by, OverlapIn(bs, i, j)
               PROVE  bs[i].slot <= st[bs[i].by] \/ ReinstalledIn(bs, bs[i].by, i, j)
    BY DEF OnceInv
  <2>1. bs[i].slot <= started[bs[i].by] \/ ReinstalledIn(bs, bs[i].by, i, j)
    BY <1>1, <1>3 DEF OnceInv
  <2> QED
    BY <1>7, <2>1
<1>9. MarkInv(bs, m, st)
  <2> SUFFICES ASSUME NEW i \in 2 .. Len(bs), bs[i].by # p
               PROVE  \/ bs[i].slot <= st[bs[i].by]
                      \/ bs[i].by \in DOMAIN m /\ m[bs[i].by] >= Num(bs, i)
                      \/ ReinstalledIn(bs, bs[i].by, i, Len(bs))
    BY <1>7 DEF MarkInv
  <2>1. \/ bs[i].slot <= started[bs[i].by]
        \/ bs[i].by \in DOMAIN marks /\ marks[bs[i].by] >= Num(bs, i)
        \/ ReinstalledIn(bs, bs[i].by, i, Len(bs))
    BY <1>1, <1>3 DEF MarkInv
  <2>2. bs[i].by \in DOMAIN marks => bs[i].by \in DOMAIN m /\ m[bs[i].by] = marks[bs[i].by]
    BY <1>2, <1>3
  <2> QED
    BY <1>7, <2>1, <2>2
<1>10. ForksTypeOK'
  <2>1. IsMap(m)
    BY <1>1, <1>2, <1>3 DEF ForksTypeOK, IsMap
  <2>2. signed' \in [Producer -> [num : Nat, slot : Nat]]
    BY <1>1, <1>2 DEF ForksTypeOK, Never
  <2>3. restarts' \in 0 .. MaxRestarts
    BY <1>1, <1>2, FinalityAssumption DEF ForksTypeOK
  <2> QED
    BY <1>1, <1>2, <1>3, <1>6, <2>1, <2>2, <2>3 DEF ForksTypeOK
<1> QED
  BY <1>1, <1>2, <1>3, <1>8, <1>9, <1>10 DEF FInv

\* On forks, whatever the schedules, the delays and the restarts, a producer
\* whose node keeps running confirms no two blocks of one number, but when a
\* branch installs it once more: the watermark of start_block, kept by
\* produce_block and on_block, covers every block it made since it started.
THEOREM ProducersConfirmOnce == ForksSpec => []ConfirmsOnce
<1>1. ForksInit => FInv
  BY ForksInitHolds
<1>2. FInv /\ [ForksNext]_forksVars => FInv'
  <2> SUFFICES ASSUME FInv, [ForksNext]_forksVars PROVE FInv'
    OBVIOUS
  <2>1. CASE UNCHANGED forksVars
    BY <2>1 DEF forksVars, FInv, ForksTypeOK
  <2>2. ASSUME NEW p \in Producer, NEW j \in 1 .. Len(block), Produce(p, j) PROVE FInv'
    BY <2>2, ProduceKeeps
  <2>3. ASSUME NEW p \in Producer, Restart(p) PROVE FInv'
    BY <2>3, RestartKeeps
  <2> QED
    BY <2>1, <2>2, <2>3 DEF ForksNext
<1>3. FInv => ConfirmsOnce
  <2> SUFFICES ASSUME FInv, NEW w \in Twice, NEW p, p = block[w[1]].by
               PROVE  block[w[1]].slot <= started[p] \/ Reinstalled(p, w[1], w[2])
    BY DEF ConfirmsOnce, FInv
  <2>1. PICK i, j \in 2 .. Len(block) : i = w[1] /\ j = w[2] /\ i < j /\ block[i].by = block[j].by /\ Overlap(i, j)
    BY DEF Twice
  <2>2. OverlapIn(block, i, j)
    BY <2>1 DEF Overlap, OverlapIn, Num
  <2>3. block[i].slot <= started[p] \/ ReinstalledIn(block, p, i, j)
    BY <2>1, <2>2 DEF FInv, OnceInv
  <2>4. ReinstalledIn(block, p, i, j) => Reinstalled(p, i, j)
    BY DEF ReinstalledIn, Reinstalled, Installs
  <2> QED
    BY <2>1, <2>3, <2>4
<1> QED
  BY <1>1, <1>2, <1>3, PTL DEF ForksSpec

----------------------------------------------------------------------------
(* Confirmations are counted, on a chain where the schedule stays. *)

\* Each block of the window has, with the f[x] confirmations that the block
\* numbered x got, as many as it lacks.
Tally(f) == f \in [Nat -> Nat]
Owes(cc, num, f, Q) == \A a \in 1 .. Len(cc) : cc[a] + f[num - Len(cc) + a] >= Q

LEMMA OwesGrow ==
    ASSUME NEW cc \in Seq(Nat), NEW num \in Nat, Len(cc) <= num, NEW f, Tally(f),
           NEW Q \in Nat, Owes(cc, num, f, Q)
    PROVE  Owes(grow(cc, Q), num + 1, f, Q)
<1> DEFINE kept == IF Len(cc) < MaxTracked THEN cc ELSE Tail(cc)
           o == IF Len(cc) < MaxTracked THEN 0 ELSE 1
<1>0. MaxTracked \in Nat /\ MaxTracked >= 1 /\ Len(cc) \in Nat
  BY HeaderAssumption
<1>1. /\ kept \in Seq(Nat) /\ o \in 0 .. 1 /\ Len(kept) = Len(cc) - o
      /\ \A a \in 1 .. Len(kept) : kept[a] = cc[a + o]
  BY <1>0
<1>2. grow(cc, Q) = Append(kept, Q)
  BY DEF grow
<1> HIDE DEF kept
<1>3. PICK G : G = grow(cc, Q)
  OBVIOUS
<1>4. /\ G \in Seq(Nat) /\ Len(G) = Len(kept) + 1 /\ G[Len(kept) + 1] = Q
      /\ \A a \in 1 .. Len(kept) : G[a] = kept[a]
  BY <1>1, <1>2, <1>3, AppendProperties
<1>5. PICK e, L, N \in Nat : e = o /\ L = Len(cc) /\ N = Len(G) /\ N = L - e + 1 /\ L <= num /\ e <= 1
  BY <1>0, <1>1, <1>4
<1> HIDE DEF o
<1>6. ASSUME NEW a \in 1 .. N PROVE G[a] + f[num + 1 - N + a] >= Q
  <2>0. num + 1 - N + a \in Nat
    <3>1. N <= num + 1
      BY <1>5
    <3> QED
      BY <3>1
  <2>1. PICK x \in Nat : x = num + 1 - N + a
    BY <2>0
  <2>2. f[x] \in Nat
    BY DEF Tally
  <2>3. CASE a = N
    <3>1. G[a] = Q
      BY <1>1, <1>4, <1>5, <2>3
    <3> QED
      BY <2>1, <2>2, <3>1
  <2>4. CASE a # N
    <3>1. a \in 1 .. Len(kept) /\ a + e \in 1 .. L
      BY <1>1, <1>5, <2>4
    <3>2. G[a] = cc[a + e] /\ x = num - L + (a + e)
      BY <1>1, <1>4, <1>5, <2>1, <3>1
    <3>3. cc[a + e] + f[num - L + (a + e)] >= Q
      BY <1>5, <3>1 DEF Owes
    <3> QED
      BY <2>1, <3>2, <3>3
  <2> QED
    BY <2>3, <2>4
<1>7. Owes(G, num + 1, f, Q)
  BY <1>5, <1>6 DEF Owes
<1> QED
  BY <1>3, <1>7

LEMMA OneMore ==
    ASSUME NEW y \in Nat, NEW z \in Nat, NEW u \in Nat, NEW Q \in Nat, y >= 1, y + z >= Q, u >= z + 1
    PROVE  y - 1 \in Nat /\ (y - 1) + u >= Q
OBVIOUS

LEMMA RestOf ==
    ASSUME NEW s \in Seq(Nat), NEW k \in 1 .. Len(s)
    PROVE  /\ SubSeq(s, k + 1, Len(s)) \in Seq(Nat) /\ Len(SubSeq(s, k + 1, Len(s))) = Len(s) - k
           /\ \A a \in 1 .. Len(s) - k : SubSeq(s, k + 1, Len(s))[a] = s[k + a]
OBVIOUS

\* With one confirmation more for the blocks from num - c on, set_confirmed
\* keeps the count, and proposes a block only if it has Q.
LEMMA OwesConfirm ==
    ASSUME NEW cc \in Seq(Nat), NEW num \in Nat, Len(cc) <= num, NEW c \in Nat, NEW old \in Nat,
           NEW f, Tally(f), NEW g, Tally(g), NEW Q \in Nat, Owes(cc, num, f, Q),
           \A a \in 1 .. Len(cc) : cc[a] >= 1,
           \A x \in Nat : g[x] >= f[x], \A x \in Nat : num - c <= x /\ x <= num => g[x] >= f[x] + 1,
           old > 0 => f[old] >= Q
    PROVE  /\ Owes(confirm_counts(cc, c), num, g, Q)
           /\ confirm_proposed(cc, c, num, old) > 0 => g[confirm_proposed(cc, c, num, old)] >= Q
<1> DEFINE L    == Len(cc)
           less == [a \in 1 .. L |-> IF a \in Touched(cc, c) THEN cc[a] - 1 ELSE cc[a]]
           R    == Reached(cc, c)
<1>0. L \in Nat /\ L <= num /\ \A a \in 1 .. L : cc[a] \in Nat /\ cc[a] >= 1
  OBVIOUS
<1>1. ASSUME NEW a \in 1 .. L PROVE less[a] \in Nat /\ less[a] + g[num - L + a] >= Q
  <2>1. PICK x, y, z, u \in Nat : x = num - L + a /\ x <= num /\ y = cc[a] /\ y >= 1 /\ z = f[x] /\ u = g[x]
    <3>0. PICK l \in Nat : l = L /\ l <= num /\ a \in 1 .. l
      BY <1>0
    <3>a. num - l + a \in Nat /\ num - l + a <= num
      BY <3>0
    <3>1. PICK x \in Nat : x = num - L + a /\ x <= num
      BY <3>0, <3>a
    <3> QED
      BY <1>0, <3>1 DEF Tally
  <2>2. y + z >= Q /\ u >= z
    BY <2>1 DEF Owes
  <2>3. CASE a \in Touched(cc, c)
    <3>1. less[a] = y - 1
      BY <2>1, <2>3
    <3>2. x >= num - c
      BY <1>0, <2>1, <2>3 DEF Touched
    <3>3. u >= z + 1
      BY <2>1, <3>2
    <3>4. y - 1 \in Nat /\ (y - 1) + u >= Q
      BY <2>1, <2>2, <3>3, OneMore
    <3>5. g[num - L + a] = u
      BY <2>1
    <3> HIDE DEF less
    <3> QED
      BY <3>1, <3>4, <3>5
  <2>4. CASE a \notin Touched(cc, c)
    <3>1. less[a] = y
      BY <2>1, <2>4
    <3> HIDE DEF less
    <3> QED
      BY <2>1, <2>2, <3>1
  <2> QED
    BY <2>3, <2>4
<1>2. less \in Seq(Nat) /\ Len(less) = L
  <2>1. \A a \in 1 .. L : less[a] \in Nat
    BY <1>1
  <2> QED
    BY <1>0, <2>1
<1>3. R \subseteq 1 .. L /\ \A a \in R : cc[a] = 1 /\ a \in Touched(cc, c)
  BY DEF Reached, Touched
<1>4. CASE R = {}
  <2>1. confirm_counts(cc, c) = less /\ confirm_proposed(cc, c, num, old) = old
    BY <1>4 DEF confirm_counts, confirm_proposed
  <2>2. Owes(less, num, g, Q)
    <3> HIDE DEF less
    <3> QED
      BY <1>1, <1>2 DEF Owes
  <2>3. old > 0 => g[old] >= Q
    <3>1. f[old] \in Nat /\ g[old] \in Nat /\ g[old] >= f[old]
      BY DEF Tally
    <3> QED
      BY <3>1
  <2> QED
    BY <2>1, <2>2, <2>3, Zenon
<1>5. CASE R # {}
  <2>1. R \in SUBSET Nat /\ \A a \in R : a <= L
    BY <1>0, <1>3
  <2> HIDE DEF R
  <2>2. \E k \in R : \A j \in R : j <= k
    BY <1>0, <1>5, <2>1, GreatestNat
  <2>3. PICK k \in R : k = Newest(R) /\ \A j \in R : j <= k
    BY <2>2 DEF Newest
  <2>4. k \in 1 .. L
    BY <1>3, <2>3
  <2>5. less[k] = 0
    BY <1>3, <2>3, <2>4
  <2> HIDE DEF less
  <2>6. confirm_counts(cc, c) = SubSeq(less, k + 1, L) /\ confirm_proposed(cc, c, num, old) = num - (L - k)
    BY <1>5, <2>3 DEF confirm_counts, confirm_proposed, R, less
  <2>7. PICK new : new = SubSeq(less, k + 1, L)
    OBVIOUS
  <2>8. new \in Seq(Nat) /\ Len(new) = L - k /\ \A a \in 1 .. L - k : new[a] = less[k + a]
    <3>1. PICK l \in Nat : l = L /\ k \in 1 .. l
      BY <1>0, <2>4
    <3>2. less \in Seq(Nat) /\ Len(less) = l /\ new = SubSeq(less, k + 1, l)
      BY <1>2, <2>7, <3>1
    <3>a. k \in 1 .. Len(less) /\ new = SubSeq(less, k + 1, Len(less))
      BY <3>1, <3>2
    <3>b. new \in Seq(Nat) /\ Len(new) = Len(less) - k /\ \A a \in 1 .. Len(less) - k : new[a] = less[k + a]
      BY <3>2, <3>a, RestOf
    <3>3. new \in Seq(Nat) /\ Len(new) = l - k /\ \A a \in 1 .. l - k : new[a] = less[k + a]
      BY <3>2, <3>b
    <3> QED
      BY <3>1, <3>3
  <2>9. ASSUME NEW a \in 1 .. L - k PROVE new[a] + g[num - (L - k) + a] >= Q
    <3>1. k + a \in 1 .. L /\ num - (L - k) + a = num - L + (k + a)
      BY <1>0, <2>4
    <3>2. less[k + a] + g[num - L + (k + a)] >= Q
      BY <1>1, <3>1
    <3> QED
      BY <2>8, <3>1, <3>2
  <2>10. Owes(new, num, g, Q)
    BY <2>8, <2>9 DEF Owes
  <2>11. PICK d \in Nat : d = num - (L - k) /\ d = num - L + k
    <3>1. PICK l \in Nat : l = L /\ k \in 1 .. l /\ l <= num
      BY <1>0, <2>4
    <3>2. num - (l - k) \in Nat /\ num - (l - k) = num - l + k
      BY <3>1
    <3> QED
      BY <3>1, <3>2
  <2>12. g[d] >= Q
    <3>1. less[k] + g[num - L + k] >= Q
      BY <1>1, <2>4
    <3>2. g[d] \in Nat /\ 0 + g[d] >= Q
      BY <2>5, <2>11, <3>1 DEF Tally
    <3> QED
      BY <3>2
  <2>13. confirm_counts(cc, c) = new /\ confirm_proposed(cc, c, num, old) = d
    BY <2>6, <2>7, <2>11
  <2> QED
    BY <2>10, <2>12, <2>13, Zenon
<1> QED
  BY <1>4, <1>5

\* The schedule F, in force from the genesis on; it is pending too until the
\* first block.
Lasting(F) == [version |-> 0, producers |-> F]
Lasts(h, F) == h.active = Lasting(F) /\ (h.pending = Lasting(F) \/ h.pending = NoSchedule)

\* The confirmations that propose a block then.
Quota(F) == (Len(F) * 2) \div 3 + 1

LEMMA LastsStart ==
    ASSUME NEW h, Sane(h), NEW F, Lasts(h, F), NEW p, NEW c, NEW n, n = start_block(h, NoProposal, p, c)
    PROVE  /\ Lasts(n.header, F) /\ n.proposed = NoProposal
           /\ n.header.counts = confirm_counts(grow(h.counts, Quota(F)), c)
           /\ n.header.dpos = confirm_proposed(grow(h.counts, Quota(F)), c, h.num + 1, h.dpos)
<1>1. PICK k, m : k = Counted(h, p, c) /\ m = maybe_promote_pending(k, p)
  OBVIOUS
<1>2. m = next_header(h, p, c)
  BY <1>1 DEF next_header, Counted
<1>3. n = [header |-> m, proposed |-> NoProposal]
  BY <1>2 DEF start_block, Promotable
<1>4. required_confs(h.active) = Quota(F)
  <2>1. h.active.producers = F
    BY DEF Lasts, Lasting
  <2> QED
    BY <2>1 DEF required_confs, Quota
<1>5. /\ DOMAIN k = DOMAIN h /\ k.active = h.active /\ k.pending = h.pending
      /\ k.counts = confirm_counts(grow(h.counts, required_confs(h.active)), c)
      /\ k.dpos = confirm_proposed(grow(h.counts, required_confs(h.active)), c, h.num + 1, h.dpos)
  BY <1>1, CountedFields DEF Sane
<1>6. /\ m.counts = k.counts /\ m.dpos = k.dpos
      /\ m.active = k.active \/ (k.pending.producers # <<>> /\ m.active = k.pending)
      /\ m.pending = k.pending \/ m.pending = NoSchedule
  <2>1. CASE ~Promotes(k)
    BY <1>1, <2>1 DEF maybe_promote_pending
  <2>2. CASE Promotes(k)
    BY <1>1, <1>5, <2>2 DEF maybe_promote_pending, Promotes, Sane, IsHeader
  <2> QED
    BY <2>1, <2>2
<1>7. Lasts(m, F)
  <2>1. NoSchedule.producers = <<>>
    BY DEF NoSchedule
  <2> QED
    BY <1>5, <1>6, <2>1 DEF Lasts
<1>8. n.header = m /\ n.proposed = NoProposal
  BY <1>3
<1> QED
  BY <1>4, <1>5, <1>6, <1>7, <1>8, Zenon

LEMMA LastsInstalls ==
    ASSUME NEW b, Sane(b.header), NEW F, Lasts(b.header, F), NEW p
    PROVE  ~Installs(b, p)
<1>1. PICK h, q, g, m : /\ h = b.header /\ q = get_scheduled_producer(h.active, b.slot + 1)
                        /\ g = generate_next(h, q) /\ m = maybe_promote_pending(g, q)
  OBVIOUS
<1>2. m = LookAhead(h, b.slot)
  BY <1>1 DEF LookAhead
<1>3. DOMAIN g = DOMAIN h /\ g.active = h.active /\ g.pending = h.pending
  BY <1>1 DEF generate_next, Sane, IsHeader
<1>4. m.active = g.active \/ m.active = g.pending
  <2>1. CASE ~Promotes(g)
    BY <1>1, <2>1 DEF maybe_promote_pending
  <2>2. CASE Promotes(g)
    BY <1>1, <1>3, <2>2 DEF maybe_promote_pending, Sane, IsHeader
  <2> QED
    BY <2>1, <2>2
<1>5. m.active.version = h.active.version
  BY <1>1, <1>3, <1>4 DEF Lasts, Lasting, NoSchedule
<1>6. Installed(h, b.slot, {p}) = <<>>
  BY <1>2, <1>5 DEF Installed
<1>7. DOMAIN <<>> = {}
  OBVIOUS
<1>8. p \notin DOMAIN Installed(h, b.slot, {p})
  BY <1>6, <1>7, Zenon
<1> QED
  BY <1>1, <1>8 DEF Installs

\* The block k confirms the number x.
Confirming(bs, k, x) == k # 1 /\ Num(bs, k) - bs[k].confirmed <= x /\ x <= Num(bs, k)

\* How many blocks of the chain of i do.
On(bs, i, x) == {k \in Ancestors(bs, i) : Confirming(bs, k, x)}
Backing(bs, i) == [x \in Nat |-> Cardinality(On(bs, i, x))]

\* The header state counts them.
Tallied(bs, i, F) ==
    /\ Owes(bs[i].header.counts, Num(bs, i), Backing(bs, i), Quota(F))
    /\ bs[i].header.dpos > 0 => Backing(bs, i)[bs[i].header.dpos] >= Quota(F)

\* A tree where the schedule stays.
Steadily(bs, F) ==
    \A i \in 1 .. Len(bs) :
        /\ Lasts(bs[i].header, F) /\ bs[i].proposed = NoProposal /\ Tallied(bs, i, F)
        /\ i # 1 => bs[i].by \in ToSet(F)

LEMMA OnFinite ==
    ASSUME NEW bs, Parents(bs), NEW i \in 0 .. Len(bs), NEW x
    PROVE  IsFiniteSet(On(bs, i, x)) /\ Cardinality(On(bs, i, x)) \in Nat /\ On(bs, i, x) \subseteq 1 .. i
<1>1. On(bs, i, x) \subseteq 1 .. i
  BY AncestorsWithin DEF On
<1>2. Len(bs) \in Nat
  BY DEF Parents
<1>3. IsFiniteSet(1 .. i)
  BY <1>2, FS_Interval
<1> QED
  BY <1>1, <1>3, FiniteSubset

LEMMA BackingTally ==
    ASSUME NEW bs, Parents(bs), NEW i \in 0 .. Len(bs)
    PROVE  Tally(Backing(bs, i))
BY OnFinite DEF Tally, Backing

\* The old blocks confirm what they did; the new one adds to its parent's.
LEMMA OnGrows ==
    ASSUME NEW bs, NEW cs, Grows(bs, cs), NEW j \in 1 .. Len(bs), NEW b, b = cs[Len(cs)], b.parent = j
    PROVE  /\ \A i \in 1 .. Len(bs) : Backing(cs, i) = Backing(bs, i)
           /\ \A x \in Nat : Backing(cs, Len(cs))[x] >= Backing(bs, j)[x]
           /\ \A x \in Nat : b.header.num - b.confirmed <= x /\ x <= b.header.num =>
                 Backing(cs, Len(cs))[x] >= Backing(bs, j)[x] + 1
<1>0. /\ Len(bs) \in Nat /\ Len(bs) >= 1 /\ Len(cs) = Len(bs) + 1 /\ Parents(bs) /\ Parents(cs)
      /\ \A i \in 0 .. Len(bs) : Ancestors(cs, i) = Ancestors(bs, i)
      /\ \A i \in 1 .. Len(bs) : cs[i] = bs[i] /\ Num(cs, i) = Num(bs, i)
      /\ \A i \in 1 .. Len(bs) : Ancestors(bs, i) \subseteq 1 .. Len(bs)
  BY GrowsTree
<1>1. ASSUME NEW i \in 1 .. Len(bs), NEW x PROVE On(cs, i, x) = On(bs, i, x)
  <2>1. Ancestors(cs, i) = Ancestors(bs, i)
    BY <1>0
  <2>2. \A k \in Ancestors(bs, i) : Confirming(cs, k, x) <=> Confirming(bs, k, x)
    BY <1>0 DEF Confirming
  <2> QED
    BY <2>1, <2>2 DEF On
<1>2. \A i \in 1 .. Len(bs) : Backing(cs, i) = Backing(bs, i)
  BY <1>1 DEF Backing
<1>3. PICK l \in 1 .. Len(cs) : l = Len(cs) /\ l \notin 1 .. Len(bs) /\ l # 1 /\ cs[l] = b
  BY <1>0
<1>4. Ancestors(cs, l) = {l} \cup Ancestors(bs, j)
  <2>1. Ancestors(cs, l) = {l} \cup Ancestors(cs, cs[l].parent)
    BY <1>0, AncestorsStep
  <2>2. Ancestors(cs, cs[l].parent) = Ancestors(bs, j)
    BY <1>0, <1>3
  <2> QED
    BY <2>1, <2>2
<1>5. ASSUME NEW x \in Nat
      PROVE  /\ Backing(cs, l)[x] >= Backing(bs, j)[x]
             /\ b.header.num - b.confirmed <= x /\ x <= b.header.num => Backing(cs, l)[x] >= Backing(bs, j)[x] + 1
  <2>1. PICK S, T : S = On(bs, j, x) /\ T = On(cs, l, x)
    OBVIOUS
  <2>2. Backing(cs, l)[x] = Cardinality(T) /\ Backing(bs, j)[x] = Cardinality(S)
    BY <2>1 DEF Backing
  <2>3. IsFiniteSet(S) /\ Cardinality(S) \in Nat /\ IsFiniteSet(T) /\ Cardinality(T) \in Nat
    <3>1. j \in 0 .. Len(bs) /\ l \in 0 .. Len(cs)
      BY <1>0
    <3>2. IsFiniteSet(S) /\ Cardinality(S) \in Nat
      BY <1>0, <2>1, <3>1, OnFinite
    <3>3. IsFiniteSet(T) /\ Cardinality(T) \in Nat
      BY <1>0, <2>1, <3>1, OnFinite
    <3> QED
      BY <3>2, <3>3
  <2>4. On(cs, j, x) = S /\ Ancestors(cs, j) = Ancestors(bs, j)
    BY <1>0, <1>1, <2>1
  <2>5. S \subseteq T /\ l \notin S
    <3>1. S \subseteq T
      BY <1>4, <2>1, <2>4 DEF On
    <3>2. S \subseteq 1 .. Len(bs)
      BY <1>0, <2>1 DEF On
    <3> QED
      BY <1>3, <3>1, <3>2
  <2>6. Cardinality(S) <= Cardinality(T)
    BY <2>3, <2>5, FS_Subset
  <2>7. ASSUME b.header.num - b.confirmed <= x, x <= b.header.num PROVE Cardinality(T) >= Cardinality(S) + 1
    <3>1. Confirming(cs, l, x)
      BY <1>3, <2>7 DEF Confirming, Num
    <3>2. l \in T
      BY <1>4, <2>1, <3>1 DEF On
    <3>3. S \cup {l} \subseteq T
      BY <2>5, <3>2
    <3>4. Cardinality(S \cup {l}) = Cardinality(S) + 1
      BY <2>3, <2>5, FS_AddElement
    <3>5. Cardinality(S \cup {l}) <= Cardinality(T)
      BY <2>3, <3>3, FS_Subset
    <3> QED
      BY <2>3, <3>4, <3>5
  <2> QED
    BY <2>2, <2>3, <2>6, <2>7
<1> QED
  BY <1>2, <1>3, <1>5

\* The counts of a new block.
LEMMA TalliedGrows ==
    ASSUME NEW bs, NEW cs, Grows(bs, cs), NEW F \in Seq(Producer), Steadily(bs, F),
           NEW j \in 1 .. Len(bs), NEW p, NEW m, NEW t, NEW b, b = cs[Len(cs)],
           b = produce_block(bs, j, p, m, t, <<>>), b.header.num = Num(bs, j) + 1
    PROVE  Lasts(b.header, F) /\ b.proposed = NoProposal /\ Tallied(cs, Len(cs), F)
<1>1. PICK h, c, n : /\ h = bs[j].header /\ c = blocks_to_confirm(m, p, h.num)
                     /\ n = start_block(h, bs[j].proposed, p, c)
  OBVIOUS
<1>2. b = [header |-> n.header, parent |-> j, by |-> p, confirmed |-> c, slot |-> t,
           proposed |-> Propose(<<>>, n.header, n.proposed)]
  BY <1>1 DEF produce_block
<1>3. Sane(h) /\ Lasts(h, F) /\ bs[j].proposed = NoProposal /\ Tallied(bs, j, F)
  BY <1>1 DEF Grows, Blocks, Steadily
<1>4. /\ Lasts(n.header, F) /\ n.proposed = NoProposal
      /\ n.header.counts = confirm_counts(grow(h.counts, Quota(F)), c)
      /\ n.header.dpos = confirm_proposed(grow(h.counts, Quota(F)), c, h.num + 1, h.dpos)
  <2>1. n = start_block(h, NoProposal, p, c)
    BY <1>1, <1>3
  <2> QED
    BY <1>3, <2>1, LastsStart
<1>5. b.header = n.header /\ b.proposed = NoProposal /\ b.confirmed = c /\ b.parent = j
  BY <1>2, <1>4 DEF Propose
<1>6. PICK l \in 1 .. Len(cs) : l = Len(cs)
  BY GrowsTree
<1>7. Block(b) /\ c \in Nat
  BY <1>5, <1>6 DEF Grows, Blocks, Block
<1>8. PICK f, g : f = Backing(bs, j) /\ g = Backing(cs, l)
  OBVIOUS
<1>9. PICK Q \in Nat : Q = Quota(F) /\ Q >= 1
  BY DEF Quota
<1>10. PICK num, old \in Nat : num = h.num /\ old = h.dpos
  BY <1>3 DEF Sane, IsHeader
<1>11. PICK cc \in Seq(Nat) : cc = h.counts /\ Len(cc) <= num /\ \A a \in 1 .. Len(cc) : cc[a] >= 1
  BY <1>3, <1>10 DEF Sane, IsHeader
<1>12. Tally(f) /\ Tally(g)
  <2>1. Parents(bs) /\ Parents(cs) /\ Len(bs) \in Nat /\ Len(cs) = Len(bs) + 1
    BY GrowsTree
  <2>2. j \in 0 .. Len(bs) /\ l \in 0 .. Len(cs)
    BY <2>1
  <2>3. Tally(f)
    BY <1>8, <2>1, <2>2, BackingTally
  <2>4. Tally(g)
    BY <1>8, <2>1, <2>2, BackingTally
  <2> QED
    BY <2>3, <2>4
<1>13. Owes(cc, num, f, Q) /\ (old > 0 => f[old] >= Q)
  <2>1. /\ Owes(bs[j].header.counts, bs[j].header.num, Backing(bs, j), Quota(F))
        /\ bs[j].header.dpos > 0 => Backing(bs, j)[bs[j].header.dpos] >= Quota(F)
    BY <1>3 DEF Tallied, Num
  <2> QED
    BY <1>1, <1>8, <1>9, <1>10, <1>11, <2>1, Zenon
<1>14. /\ \A x \in Nat : g[x] >= f[x]
       /\ \A x \in Nat : (num + 1) - c <= x /\ x <= num + 1 => g[x] >= f[x] + 1
  <2>1. b.header.num = num + 1
    BY <1>1, <1>10 DEF Num
  <2>2. /\ \A x \in Nat : g[x] >= f[x]
        /\ \A x \in Nat : b.header.num - b.confirmed <= x /\ x <= b.header.num => g[x] >= f[x] + 1
    BY <1>5, <1>6, <1>8, OnGrows
  <2> QED
    BY <1>5, <2>1, <2>2, Zenon
<1>15. PICK G : G = grow(cc, Q)
  OBVIOUS
<1>16. G \in Seq(Nat) /\ Len(G) <= num + 1 /\ \A a \in 1 .. Len(G) : G[a] >= 1
  <2>1. G \in Seq(Nat) /\ Len(G) <= Len(cc) + 1 /\ \A a \in 1 .. Len(G) : G[a] >= 1
    BY <1>9, <1>11, <1>15, SaneGrow
  <2> QED
    BY <1>11, <2>1
<1>17. Owes(G, num + 1, f, Q)
  BY <1>11, <1>12, <1>13, <1>15, OwesGrow
<1>18. /\ Owes(confirm_counts(G, c), num + 1, g, Q)
       /\ confirm_proposed(G, c, num + 1, old) > 0 => g[confirm_proposed(G, c, num + 1, old)] >= Q
  <2>1. PICK k \in Nat : k = num + 1
    OBVIOUS
  <2>2. /\ Owes(G, k, f, Q) /\ Len(G) <= k
        /\ \A x \in Nat : k - c <= x /\ x <= k => g[x] >= f[x] + 1
    BY <1>14, <1>16, <1>17, <2>1
  <2>3. /\ Owes(confirm_counts(G, c), k, g, Q)
        /\ confirm_proposed(G, c, k, old) > 0 => g[confirm_proposed(G, c, k, old)] >= Q
    BY <1>7, <1>12, <1>13, <1>14, <1>16, <2>2, OwesConfirm
  <2> QED
    BY <2>1, <2>3
<1>19. /\ cs[l] = b /\ Num(cs, l) = num + 1 /\ b.header.counts = confirm_counts(G, c)
       /\ b.header.dpos = confirm_proposed(G, c, num + 1, old)
  <2>1. cs[l] = b /\ b.header.num = num + 1
    BY <1>1, <1>6, <1>10 DEF Num
  <2> QED
    BY <1>4, <1>5, <1>9, <1>10, <1>11, <1>15, <2>1, Zenon DEF Num
<1>20. Tallied(cs, l, F)
  BY <1>8, <1>9, <1>18, <1>19, Zenon DEF Tallied
<1> QED
  BY <1>4, <1>5, <1>6, <1>20

LEMMA SteadilyGrows ==
    ASSUME NEW bs, NEW cs, Grows(bs, cs), NEW F \in Seq(Producer), Steadily(bs, F),
           NEW j \in 1 .. Len(bs), NEW p \in ToSet(F), NEW m, NEW t, NEW b, b = cs[Len(cs)],
           b = produce_block(bs, j, p, m, t, <<>>), NewBlock(bs, cs, b, j, p, m, t)
    PROVE  Steadily(cs, F)
<1>1. Lasts(b.header, F) /\ b.proposed = NoProposal /\ Tallied(cs, Len(cs), F)
  <2>1. b.header.num = Num(bs, j) + 1
    BY DEF NewBlock
  <2> QED
    BY <2>1, TalliedGrows
<1>2. b.by = p /\ b.parent = j
  BY DEF NewBlock
<1>3. /\ Len(bs) \in Nat /\ Len(cs) = Len(bs) + 1
      /\ \A i \in 1 .. Len(bs) : cs[i] = bs[i] /\ Num(cs, i) = Num(bs, i)
  BY GrowsTree
<1>4. \A i \in 1 .. Len(bs) : Backing(cs, i) = Backing(bs, i)
  BY <1>2, OnGrows
<1> SUFFICES ASSUME NEW i \in 1 .. Len(cs)
             PROVE  /\ Lasts(cs[i].header, F) /\ cs[i].proposed = NoProposal /\ Tallied(cs, i, F)
                    /\ i # 1 => cs[i].by \in ToSet(F)
  BY DEF Steadily
<1>5. CASE i = Len(cs)
  BY <1>1, <1>2, <1>5
<1>6. CASE i # Len(cs)
  <2>1. i \in 1 .. Len(bs)
    BY <1>3, <1>6
  <2>2. cs[i] = bs[i] /\ Num(cs, i) = Num(bs, i) /\ Backing(cs, i) = Backing(bs, i)
    BY <1>3, <1>4, <2>1
  <2>3. /\ Lasts(bs[i].header, F) /\ bs[i].proposed = NoProposal /\ Tallied(bs, i, F)
        /\ i # 1 => bs[i].by \in ToSet(F)
    BY <2>1 DEF Steadily
  <2>4. Tallied(cs, i, F)
    BY <2>2, <2>3, Zenon DEF Tallied
  <2> QED
    BY <2>2, <2>3, <2>4
<1> QED
  BY <1>5, <1>6

----------------------------------------------------------------------------
(* ProposedOnce, where the schedule stays. *)

\* The blocks that confirm x, anywhere; the producers that made one since they
\* started.
AllOn(bs, x) == {k \in 1 .. Len(bs) : Confirming(bs, k, x)}
Live(bs, st, x) == {p \in Producer : \E k \in AllOn(bs, x) : bs[k].by = p /\ bs[k].slot > st[p]}

\* Each number has a confirmation of each producer, and one more a restart.
CountInv(bs, st, r) == \A x \in Nat : Cardinality(AllOn(bs, x)) <= Cardinality(Live(bs, st, x)) + r

LEMMA AddOne ==
    ASSUME NEW S, IsFiniteSet(S), NEW x
    PROVE  IsFiniteSet(S \cup {x}) /\ Cardinality(S \cup {x}) \in Nat /\ Cardinality(S \cup {x}) <= Cardinality(S) + 1
<1>1. IsFiniteSet(S \cup {x}) /\ Cardinality(S \cup {x}) = IF x \in S THEN Cardinality(S) ELSE Cardinality(S) + 1
  BY FS_AddElement
<1>2. PICK n \in Nat : n = Cardinality(S)
  BY FS_CardinalityType
<1>3. Cardinality(S \cup {x}) = n \/ Cardinality(S \cup {x}) = n + 1
  BY <1>1, <1>2
<1> QED
  BY <1>1, <1>2, <1>3

LEMMA AllFinite ==
    ASSUME NEW bs, Len(bs) \in Nat, NEW x, NEW st
    PROVE  /\ IsFiniteSet(AllOn(bs, x)) /\ Cardinality(AllOn(bs, x)) \in Nat
           /\ IsFiniteSet(Live(bs, st, x)) /\ Cardinality(Live(bs, st, x)) \in Nat
<1>1. AllOn(bs, x) \subseteq 1 .. Len(bs) /\ Live(bs, st, x) \subseteq Producer
  BY DEF AllOn, Live
<1>2. IsFiniteSet(1 .. Len(bs))
  BY FS_Interval
<1>3. IsFiniteSet(AllOn(bs, x)) /\ Cardinality(AllOn(bs, x)) \in Nat
  BY <1>1, <1>2, FiniteSubset
<1>4. IsFiniteSet(Live(bs, st, x)) /\ Cardinality(Live(bs, st, x)) \in Nat
  BY <1>1, HeaderAssumption, FiniteSubset
<1> QED
  BY <1>3, <1>4

LEMMA CountGrows ==
    ASSUME NEW bs, NEW cs, Grows(bs, cs), NEW st, st \in [Producer -> Nat], OnceInv(cs, st),
           NEW r \in Nat, CountInv(bs, st, r), \A k \in 1 .. Len(cs), q \in Producer : ~Installs(cs[k], q),
           st[cs[Len(cs)].by] < cs[Len(cs)].slot
    PROVE  CountInv(cs, st, r)
<1>0. /\ Len(bs) \in Nat /\ Len(bs) >= 1 /\ Len(cs) = Len(bs) + 1 /\ Parents(cs)
      /\ \A i \in 1 .. Len(bs) : cs[i] = bs[i] /\ Num(cs, i) = Num(bs, i)
  BY GrowsTree
<1>1. PICK l \in 1 .. Len(cs) : l = Len(cs) /\ l \notin 1 .. Len(bs) /\ l # 1
  BY <1>0
<1>2. \A k \in 1 .. Len(cs) : /\ cs[k].by \in Producer /\ cs[k].slot \in Nat
                              /\ cs[k].header.num \in Nat /\ cs[k].confirmed \in Nat
  BY DEF Grows, Blocks, Block, IsHeader
<1>3. PICK p \in Producer : p = cs[l].by
  BY <1>2
<1> SUFFICES ASSUME NEW x \in Nat PROVE Cardinality(AllOn(cs, x)) <= Cardinality(Live(cs, st, x)) + r
  BY DEF CountInv
<1>4. PICK A, B, V, W : A = AllOn(bs, x) /\ B = AllOn(cs, x) /\ V = Live(bs, st, x) /\ W = Live(cs, st, x)
  OBVIOUS
<1>5. /\ IsFiniteSet(A) /\ IsFiniteSet(B) /\ IsFiniteSet(V) /\ IsFiniteSet(W)
      /\ Cardinality(A) \in Nat /\ Cardinality(B) \in Nat /\ Cardinality(V) \in Nat /\ Cardinality(W) \in Nat
  <2>1. Len(cs) \in Nat
    BY <1>0
  <2>2. IsFiniteSet(A) /\ IsFiniteSet(V) /\ Cardinality(A) \in Nat /\ Cardinality(V) \in Nat
    BY <1>0, <1>4, AllFinite
  <2>3. IsFiniteSet(B) /\ IsFiniteSet(W) /\ Cardinality(B) \in Nat /\ Cardinality(W) \in Nat
    BY <2>1, <1>4, AllFinite
  <2> QED
    BY <2>2, <2>3
<1>6. Cardinality(A) <= Cardinality(V) + r
  BY <1>4 DEF CountInv
<1>7. \A k \in 1 .. Len(bs) : k \in 1 .. Len(cs) /\ k # l /\ (Confirming(cs, k, x) <=> Confirming(bs, k, x))
  BY <1>0, <1>1 DEF Confirming
<1>8. A \subseteq B /\ B \subseteq A \cup {l} /\ (l \in B <=> Confirming(cs, l, x))
  <2>1. A \subseteq B
    BY <1>4, <1>7 DEF AllOn
  <2>2. ASSUME NEW k \in B PROVE k \in A \cup {l}
    <3>1. k \in 1 .. Len(cs) /\ Confirming(cs, k, x)
      BY <1>4 DEF AllOn
    <3>2. k = l \/ k \in 1 .. Len(bs)
      BY <1>0, <1>1, <3>1
    <3> QED
      BY <1>4, <1>7, <3>1, <3>2 DEF AllOn
  <2>3. l \in B <=> Confirming(cs, l, x)
    BY <1>4 DEF AllOn
  <2> QED
    BY <2>1, <2>2, <2>3
<1>9. V \subseteq W
  <2> SUFFICES ASSUME NEW q \in V PROVE q \in W
    OBVIOUS
  <2>1. q \in Producer /\ \E k \in A : bs[k].by = q /\ bs[k].slot > st[q]
    BY <1>4 DEF Live
  <2>2. PICK k \in A : bs[k].by = q /\ bs[k].slot > st[q]
    BY <2>1
  <2>3. k \in B /\ cs[k] = bs[k]
    <3>1. k \in 1 .. Len(bs)
      BY <1>4 DEF AllOn
    <3> QED
      BY <1>0, <1>8, <3>1
  <2> QED
    BY <1>4, <2>1, <2>2, <2>3 DEF Live
<1>10. Cardinality(V) <= Cardinality(W)
  BY <1>5, <1>9, FS_Subset
<1>11. CASE ~Confirming(cs, l, x)
  <2>1. B = A
    BY <1>8, <1>11
  <2> QED
    BY <1>4, <1>5, <1>6, <1>10, <2>1
<1>12. CASE Confirming(cs, l, x)
  <2>1. p \in W
    <3>1. cs[l].slot > st[p]
      <4>1. st[p] \in Nat /\ cs[l].slot \in Nat /\ st[p] < cs[l].slot
        BY <1>1, <1>2, <1>3
      <4> QED
        BY <4>1
    <3>2. l \in B
      BY <1>8, <1>12
    <3> QED
      BY <1>3, <1>4, <3>1, <3>2 DEF Live
  <2>2. p \notin V
    <3> SUFFICES ASSUME p \in V PROVE FALSE
      OBVIOUS
    <3>1. PICK k \in A : bs[k].by = p /\ bs[k].slot > st[p]
      BY <1>4 DEF Live
    <3>2. k \in 1 .. Len(bs) /\ Confirming(cs, k, x)
      BY <1>4, <1>7 DEF AllOn
    <3>3. k \in 2 .. Len(cs) /\ l \in 2 .. Len(cs) /\ k < l /\ cs[k] = bs[k] /\ k \in 1 .. Len(cs)
      BY <1>0, <1>1, <3>2 DEF Confirming
    <3>4. OverlapIn(cs, k, l)
      <4>1. PICK a, b, c, d \in Nat : a = Num(cs, k) /\ b = Num(cs, l) /\ c = cs[k].confirmed /\ d = cs[l].confirmed
        BY <1>2, <3>3 DEF Num
      <4>2. a - c <= x /\ x <= a /\ b - d <= x /\ x <= b
        BY <1>12, <3>2, <4>1 DEF Confirming
      <4>3. a >= b - d /\ b >= a - c
        BY <4>2
      <4> QED
        BY <4>1, <4>3 DEF OverlapIn
    <3>5. cs[k].slot <= st[p] \/ ReinstalledIn(cs, p, k, l)
      BY <1>3, <3>1, <3>3, <3>4 DEF OnceInv
    <3>6. ~ReinstalledIn(cs, p, k, l)
      <4> SUFFICES ASSUME ReinstalledIn(cs, p, k, l) PROVE FALSE
        OBVIOUS
      <4>1. PICK a \in k .. l, b \in k .. l : \E y \in Ancestors(cs, b) : Installs(cs[y], p)
        BY DEF ReinstalledIn
      <4>2. PICK y \in Ancestors(cs, b) : Installs(cs[y], p)
        BY <4>1
      <4>3. b \in 0 .. Len(cs)
        BY <1>0, <3>3
      <4>4. Ancestors(cs, b) \subseteq 1 .. b
        BY <1>0, <4>3, AncestorsWithin
      <4>5. y \in 1 .. Len(cs)
        BY <1>0, <4>3, <4>4
      <4> QED
        BY <4>2, <4>5
    <3>7. cs[k].slot \in Nat /\ st[p] \in Nat
      BY <1>2, <3>3
    <3> QED
      BY <3>1, <3>3, <3>5, <3>6, <3>7
  <2>3. Cardinality(V) + 1 <= Cardinality(W)
    <3>1. Cardinality(V \cup {p}) = Cardinality(V) + 1
      BY <1>5, <2>2, FS_AddElement
    <3>2. Cardinality(V \cup {p}) <= Cardinality(W)
      BY <1>5, <1>9, <2>1, FS_Subset
    <3> QED
      BY <3>1, <3>2
  <2>4. Cardinality(B) <= Cardinality(A) + 1
    <3>1. IsFiniteSet(A \cup {l}) /\ Cardinality(A \cup {l}) \in Nat /\ Cardinality(A \cup {l}) <= Cardinality(A) + 1
      BY <1>5, AddOne
    <3>2. Cardinality(B) <= Cardinality(A \cup {l})
      BY <1>8, <3>1, FS_Subset
    <3> QED
      BY <1>5, <3>1, <3>2
  <2> QED
    BY <1>4, <1>5, <1>6, <2>3, <2>4
<1> QED
  BY <1>11, <1>12

\* A restart of p's node.
LEMMA CountRestarts ==
    ASSUME NEW bs, Len(bs) \in Nat, NEW p, NEW st, NEW new, NEW r \in Nat, CountInv(bs, st, r),
           \A q \in Producer \ {p} : new[q] = st[q]
    PROVE  CountInv(bs, new, r + 1)
<1> SUFFICES ASSUME NEW x \in Nat PROVE Cardinality(AllOn(bs, x)) <= Cardinality(Live(bs, new, x)) + (r + 1)
  BY DEF CountInv
<1>1. PICK A, V, W : A = AllOn(bs, x) /\ V = Live(bs, st, x) /\ W = Live(bs, new, x)
  OBVIOUS
<1>2. IsFiniteSet(V) /\ IsFiniteSet(W) /\ Cardinality(A) \in Nat /\ Cardinality(V) \in Nat /\ Cardinality(W) \in Nat
  BY <1>1, AllFinite
<1>3. V \subseteq W \cup {p}
  BY <1>1 DEF Live
<1>4. IsFiniteSet(W \cup {p}) /\ Cardinality(W \cup {p}) \in Nat /\ Cardinality(W \cup {p}) <= Cardinality(W) + 1
  BY <1>2, AddOne
<1>5. Cardinality(V) <= Cardinality(W \cup {p})
  BY <1>3, <1>4, FS_Subset
<1>6. Cardinality(A) <= Cardinality(V) + r
  BY <1>1 DEF CountInv
<1> QED
  BY <1>1, <1>2, <1>4, <1>5, <1>6

\* No block of such a tree installs a producer.
LEMMA NoneInstalled ==
    ASSUME NEW bs, Blocks(bs), NEW F, Steadily(bs, F), NEW k \in 1 .. Len(bs), NEW q
    PROVE  ~Installs(bs[k], q)
<1>1. Sane(bs[k].header) /\ Lasts(bs[k].header, F)
  BY DEF Blocks, Steadily
<1> QED
  BY <1>1, LastsInstalls

\* The chain of the start.
StraightOn(w, F) ==
    /\ Straight(w) /\ Steadily(w.block, F) /\ w.block[1].header.active = Lasting(F)
    /\ CountInv(w.block, [p \in Producer |-> 0], 0)

LEMMA OriginSteady ==
    ASSUME NEW F \in Seq(Producer) \ {<<>>}
    PROVE  StraightOn(Origin(F), F)
<1>1. PICK w, b, bs, h : /\ w = Origin(F) /\ h = Genesis(F)
                         /\ b = [header |-> h, parent |-> 0, by |-> F[1],
                                 confirmed |-> 0, slot |-> 0, proposed |-> NoProposal]
                         /\ bs = <<b>>
  OBVIOUS
<1>2. Straight(w)
  BY <1>1, OriginStraight
<1>3. w.block = bs
  BY <1>1 DEF Origin
<1>4. Len(bs) = 1 /\ bs[1] = b /\ b.header = h /\ b.proposed = NoProposal
  BY <1>1
<1>5. h.counts = <<>> /\ h.dpos = 0 /\ h.active = Lasting(F) /\ h.pending = Lasting(F)
  BY <1>1 DEF Genesis, Lasting
<1>6. Lasts(h, F)
  BY <1>5 DEF Lasts
<1>7. Tallied(bs, 1, F)
  <2>1. bs[1].header.counts = <<>> /\ bs[1].header.dpos = 0
    BY <1>4, <1>5
  <2>2. Owes(<<>>, Num(bs, 1), Backing(bs, 1), Quota(F))
    BY DEF Owes
  <2>3. ~(0 > 0)
    OBVIOUS
  <2> QED
    BY <2>1, <2>2, <2>3, Zenon DEF Tallied
<1>8. Steadily(bs, F)
  <2> SUFFICES ASSUME NEW i \in 1 .. Len(bs)
               PROVE  /\ Lasts(bs[i].header, F) /\ bs[i].proposed = NoProposal /\ Tallied(bs, i, F)
                      /\ i # 1 => bs[i].by \in ToSet(F)
    BY DEF Steadily
  <2>1. i = 1
    BY <1>4
  <2> QED
    BY <1>4, <1>6, <1>7, <2>1
<1>9. CountInv(bs, [p \in Producer |-> 0], 0)
  <2> SUFFICES ASSUME NEW x \in Nat
               PROVE  Cardinality(AllOn(bs, x)) <= Cardinality(Live(bs, [p \in Producer |-> 0], x)) + 0
    BY DEF CountInv
  <2>1. AllOn(bs, x) = {}
    BY <1>4 DEF AllOn, Confirming
  <2>2. Cardinality(AllOn(bs, x)) = 0
    BY <2>1, FS_EmptySet, Zenon
  <2>3. Cardinality(Live(bs, [p \in Producer |-> 0], x)) \in Nat
    BY <1>4, AllFinite
  <2> QED
    BY <2>2, <2>3
<1>10. w.block[1].header.active = Lasting(F)
  BY <1>3, <1>4, <1>5
<1> QED
  BY <1>1, <1>2, <1>3, <1>8, <1>9, <1>10 DEF StraightOn

LEMMA ExtendSteady ==
    ASSUME NEW F \in Seq(Producer), NEW w, StraightOn(w, F)
    PROVE  StraightOn(Extend(w, <<>>), F)
<1>0. Straight(w) /\ <<>> \in Seq(Producer)
  BY DEF StraightOn
<1>1. PICK bs, i, t, p, b, cs : Extending(w, <<>>, bs, i, t, p, b, cs)
  BY DEF Extending
<1>2. /\ Grows(bs, cs) /\ i \in 1 .. Len(bs) /\ p \in Producer /\ p \in ToSet(bs[i].header.active.producers)
      /\ t \in Nat /\ t > bs[i].slot /\ NewBlock(bs, cs, b, i, p, w.marks, t)
  BY <1>0, <1>1, ExtendMakes
<1>3. bs = w.block /\ b = produce_block(bs, i, p, w.marks, t, <<>>)
  BY <1>1 DEF Extending
<1>4. PICK e : e = Extend(w, <<>>)
  OBVIOUS
<1>5. e.block = cs
  BY <1>1, <1>4 DEF Extend, Extending
<1>6. Straight(e)
  BY <1>0, <1>4, ExtendStraight
<1>7. Steadily(bs, F) /\ bs[i].header.active.producers = F
  BY <1>2, <1>3 DEF StraightOn, Steadily, Lasts, Lasting
<1>8. b = cs[Len(cs)] /\ b.by = p /\ b.slot = t
  BY <1>2 DEF NewBlock
<1>9. Steadily(cs, F)
  BY <1>2, <1>3, <1>7, <1>8, SteadilyGrows
<1>10. Blocks(cs) /\ Len(cs) \in Nat /\ cs[1] = bs[1]
  <2>1. 1 \in 1 .. Len(bs)
    BY <1>2, GrowsTree
  <2> QED
    BY <1>2, <2>1, GrowsTree DEF Grows
<1> DEFINE z == [q \in Producer |-> 0]
<1>11. OnceInv(cs, z)
  BY <1>5, <1>6 DEF Straight
<1>12. CountInv(bs, z, 0)
  BY <1>3 DEF StraightOn
<1>13. CountInv(cs, z, 0)
  <2>1. \A k \in 1 .. Len(cs), q \in Producer : ~Installs(cs[k], q)
    BY <1>9, <1>10, NoneInstalled
  <2>2. z \in [Producer -> Nat] /\ z[p] = 0 /\ 0 < t
    <3>1. bs[i].slot \in Nat
      BY <1>2 DEF Grows, Blocks, Block
    <3> QED
      BY <1>2, <3>1
  <2>3. z[cs[Len(cs)].by] < cs[Len(cs)].slot
    BY <1>8, <2>2
  <2> HIDE DEF z
  <2> QED
    BY <1>2, <1>11, <1>12, <2>1, <2>2, <2>3, CountGrows
<1>14. cs[1].header.active = Lasting(F)
  BY <1>3, <1>10 DEF StraightOn
<1> QED
  BY <1>4, <1>5, <1>6, <1>9, <1>13, <1>14 DEF StraightOn

LEMMA ChainSteady ==
    ASSUME NEW s \in Starts, s.next = <<>>
    PROVE  StraightOn(Chain(s), s.first)
<1>1. /\ s.first \in Seq(Producer) \ {<<>>} /\ s.length \in Nat \ {0}
  BY FinalityAssumption
<1>2. PICK upto : /\ \A k \in 1 .. s.length : upto[k] = ChainStep(s, upto, k)
                  /\ Chain(s) = upto[s.length]
  BY <1>1, ChainRuns
<1> DEFINE D == {k \in Nat : k + 1 <= s.length => StraightOn(upto[k + 1], s.first)}
<1>3. 0 \in D
  <2>1. upto[1] = Origin(s.first)
    BY <1>1, <1>2 DEF ChainStep
  <2>2. StraightOn(Origin(s.first), s.first)
    BY <1>1, OriginSteady
  <2> QED
    BY <2>1, <2>2
<1>4. ASSUME NEW k \in Nat, k \in D PROVE k + 1 \in D
  <2> SUFFICES ASSUME k + 2 <= s.length PROVE StraightOn(upto[k + 2], s.first)
    OBVIOUS
  <2>1. PICK w : w = upto[k + 1] /\ StraightOn(w, s.first)
    BY <1>1, <1>4
  <2>2. PICK l \in 1 .. s.length : l = k + 2 /\ l # 1 /\ l - 1 = k + 1
    BY <1>1
  <2>3. upto[l] = Extend(w, <<>>)
    BY <1>2, <2>1, <2>2 DEF ChainStep
  <2>4. StraightOn(Extend(w, <<>>), s.first)
    BY <1>1, <2>1, ExtendSteady
  <2> QED
    BY <2>2, <2>3, <2>4
<1> HIDE DEF D
<1>5. Nat \subseteq D
  BY <1>3, <1>4, SetInduction
<1>6. PICK k \in Nat : k + 1 = s.length
  <2>1. PICK N \in Nat \ {0} : N = s.length
    BY <1>1
  <2>2. PICK l \in Nat : l = N - 1
    OBVIOUS
  <2>3. l + 1 = N
    BY <2>2
  <2> QED
    BY <2>1, <2>3
<1>7. StraightOn(upto[k + 1], s.first)
  BY <1>1, <1>5, <1>6 DEF D
<1> QED
  BY <1>2, <1>6, <1>7

\* On a chain, the order of the numbers is that of the blocks.
LEMMA AncestorsInLine ==
    ASSUME NEW bs, Blocks(bs), NEW i \in 1 .. Len(bs), NEW k \in Ancestors(bs, i), NEW l \in Ancestors(bs, i),
           Num(bs, l) <= Num(bs, k)
    PROVE  l \in Ancestors(bs, k)
<1>0. /\ Parents(bs) /\ Len(bs) \in Nat
      /\ \A j \in 1 .. Len(bs) : Num(bs, j) \in Nat /\ bs[j].parent \in 0 .. j - 1 /\ Ancestors(bs, j) \subseteq 1 .. Len(bs)
      /\ \A j \in 2 .. Len(bs) : bs[j].parent # 0 /\ Num(bs, j) = Num(bs, bs[j].parent) + 1
  <2>1. Parents(bs) /\ Len(bs) \in Nat
    BY DEF Blocks, Parents
  <2>2. \A j \in 1 .. Len(bs) : Num(bs, j) \in Nat /\ bs[j].parent \in 0 .. j - 1
    BY DEF Blocks, Parents, Block, IsHeader, Num
  <2>3. ASSUME NEW j \in 1 .. Len(bs) PROVE Ancestors(bs, j) \subseteq 1 .. Len(bs)
    BY <2>1, AncestorsWithin
  <2> QED
    BY <2>1, <2>2, <2>3 DEF Blocks
<1> DEFINE S == {j \in 0 .. Len(bs) :
                    /\ j # 0 => \A a \in Ancestors(bs, j) : Num(bs, a) <= Num(bs, j)
                    /\ \A a, b \in Ancestors(bs, j) : Num(bs, b) <= Num(bs, a) => b \in Ancestors(bs, a)}
<1>1. 0 \in S
  BY <1>0, AncestorsStep
<1>2. ASSUME NEW j \in 1 .. Len(bs), bs[j].parent \in S PROVE j \in S
  <2>1. Ancestors(bs, j) = {j} \cup Ancestors(bs, bs[j].parent)
    BY <1>0, AncestorsStep
  <2>2. PICK m \in 0 .. j - 1 : m = bs[j].parent
    BY <1>0
  <2>3. /\ m # 0 => \A a \in Ancestors(bs, m) : Num(bs, a) <= Num(bs, m)
        /\ \A a, b \in Ancestors(bs, m) : Num(bs, b) <= Num(bs, a) => b \in Ancestors(bs, a)
    BY <1>2, <2>2
  <2>4. \A a \in Ancestors(bs, m) : a \in 1 .. Len(bs) /\ Num(bs, a) \in Nat
    <3>1. Ancestors(bs, m) \subseteq Ancestors(bs, j)
      BY <2>1, <2>2
    <3> QED
      BY <1>0, <3>1
  <2>5. \A a \in Ancestors(bs, m) : Num(bs, a) < Num(bs, j)
    <3> SUFFICES ASSUME NEW a \in Ancestors(bs, m) PROVE Num(bs, a) < Num(bs, j)
      OBVIOUS
    <3>1. m # 0
      <4>1. Ancestors(bs, 0) = {}
        BY <1>0, AncestorsStep
      <4>2. a \notin Ancestors(bs, 0)
        BY <4>1, Zenon
      <4> QED
        BY <4>2
    <3>2. j \in 2 .. Len(bs) /\ m \in 1 .. Len(bs)
      <4>1. m \in 1 .. j - 1
        BY <2>2, <3>1
      <4> QED
        BY <1>0, <4>1
    <3>3. PICK u, v, w \in Nat : u = Num(bs, a) /\ v = Num(bs, m) /\ w = Num(bs, j)
      BY <1>0, <2>4, <3>2
    <3>4. u <= v /\ w = v + 1
      BY <1>0, <2>2, <2>3, <3>1, <3>2, <3>3
    <3>5. u < w
      BY <3>4
    <3> QED
      BY <3>3, <3>5
  <2>6. \A a \in Ancestors(bs, j) : Num(bs, a) <= Num(bs, j)
    <3> SUFFICES ASSUME NEW a \in Ancestors(bs, j) PROVE Num(bs, a) <= Num(bs, j)
      OBVIOUS
    <3>1. PICK v, w \in Nat : v = Num(bs, a) /\ w = Num(bs, j)
      BY <1>0
    <3>2. v < w \/ v = w
      BY <2>1, <2>2, <2>5, <3>1
    <3>3. v <= w
      BY <3>2
    <3> QED
      BY <3>1, <3>3
  <2>7. ASSUME NEW a \in Ancestors(bs, j), NEW b \in Ancestors(bs, j), Num(bs, b) <= Num(bs, a) PROVE b \in Ancestors(bs, a)
    <3>1. CASE a = j
      BY <3>1
    <3>2. CASE a # j
      <4>1. a \in Ancestors(bs, m)
        BY <2>1, <2>2, <3>2
      <4>2. PICK u, v, w \in Nat : u = Num(bs, a) /\ v = Num(bs, b) /\ w = Num(bs, j)
        BY <1>0
      <4>3. u < w /\ v <= u
        BY <2>5, <2>7, <4>1, <4>2
      <4>4. v # w
        BY <4>3
      <4>5. b \in Ancestors(bs, m)
        BY <2>1, <2>2, <4>2, <4>4
      <4> QED
        BY <2>3, <2>7, <4>1, <4>5
    <3> QED
      BY <3>1, <3>2
  <2> QED
    BY <1>0, <2>6, <2>7
<1> HIDE DEF S
<1>3. i \in S
  <2>1. 0 .. Len(bs) \subseteq S
    BY <1>0, <1>1, <1>2, TreeInduction
  <2> QED
    BY <1>0, <2>1
<1> QED
  BY <1>3 DEF S

\* Two chains with a block in common share the chain up to it.
LEMMA SameBelow ==
    ASSUME NEW bs, Blocks(bs), NEW i \in 1 .. Len(bs), NEW k \in Ancestors(bs, i), NEW d, d \in Nat, d <= Num(bs, k)
    PROVE  {l \in Ancestors(bs, i) : Num(bs, l) = d} = {l \in Ancestors(bs, k) : Num(bs, l) = d}
<1>1. Parents(bs) /\ i \in 0 .. Len(bs)
  BY DEF Blocks, Parents
<1>2. Ancestors(bs, k) \subseteq Ancestors(bs, i)
  BY <1>1, AncestorsNest
<1>3. ASSUME NEW l \in Ancestors(bs, i), Num(bs, l) = d PROVE l \in Ancestors(bs, k)
  BY <1>3, AncestorsInLine
<1> QED
  BY <1>2, <1>3

\* The list has at most its length of producers.
LEMMA ListBound ==
    ASSUME NEW F \in Seq(Producer)
    PROVE  IsFiniteSet(ToSet(F)) /\ Cardinality(ToSet(F)) \in Nat /\ Cardinality(ToSet(F)) <= Len(F)
<1>1. PICK n \in Nat : n = Len(F)
  OBVIOUS
<1>2. F \in [1 .. n -> ToSet(F)] /\ \A t \in ToSet(F) : \E a \in 1 .. n : F[a] = t
  BY <1>1 DEF ToSet
<1>3. F \in Surjection(1 .. n, ToSet(F))
  BY <1>2 DEF Surjection
<1>4. IsFiniteSet(1 .. n) /\ Cardinality(1 .. n) = n
  BY FS_Interval
<1>5. IsFiniteSet(ToSet(F)) /\ Cardinality(ToSet(F)) <= n
  BY <1>3, <1>4, FS_Surjection
<1> QED
  BY <1>1, <1>5, FS_CardinalityType

\* Two blocks proposed with one number share a block that confirms it.
LEMMA QuotasMeet ==
    ASSUME NEW bs, Blocks(bs), NEW F \in Seq(Producer), Steadily(bs, F), NEW st, NEW r \in Nat, CountInv(bs, st, r),
           r + Len(F) < 2 * Quota(F), NEW i \in 1 .. Len(bs), NEW j \in 1 .. Len(bs), NEW d \in Nat,
           d = bs[i].header.dpos, d = bs[j].header.dpos, d > 0
    PROVE  \E k \in Ancestors(bs, i) \cap Ancestors(bs, j) : d <= Num(bs, k)
<1>0. Parents(bs) /\ Len(bs) \in Nat
  BY DEF Blocks, Parents
<1>1. PICK S, T, A, V : S = On(bs, i, d) /\ T = On(bs, j, d) /\ A = AllOn(bs, d) /\ V = Live(bs, st, d)
  OBVIOUS
<1>2. PICK Q \in Nat : Q = Quota(F)
  BY DEF Quota
<1>3. /\ IsFiniteSet(S) /\ Cardinality(S) \in Nat /\ IsFiniteSet(T) /\ Cardinality(T) \in Nat
  <2>1. i \in 0 .. Len(bs) /\ j \in 0 .. Len(bs)
    BY <1>0
  <2>2. IsFiniteSet(S) /\ Cardinality(S) \in Nat
    BY <1>0, <1>1, <2>1, OnFinite
  <2>3. IsFiniteSet(T) /\ Cardinality(T) \in Nat
    BY <1>0, <1>1, <2>1, OnFinite
  <2> QED
    BY <2>2, <2>3
<1>4. IsFiniteSet(A) /\ Cardinality(A) \in Nat /\ IsFiniteSet(V) /\ Cardinality(V) \in Nat
  BY <1>0, <1>1, AllFinite
<1>5. Cardinality(S) >= Q /\ Cardinality(T) >= Q
  <2>1. Backing(bs, i)[d] >= Q /\ Backing(bs, j)[d] >= Q
    BY <1>2 DEF Steadily, Tallied
  <2>2. Backing(bs, i)[d] = Cardinality(S) /\ Backing(bs, j)[d] = Cardinality(T)
    BY <1>1 DEF Backing
  <2> QED
    BY <2>1, <2>2
<1>6. S \cup T \subseteq A
  <2>1. Ancestors(bs, i) \subseteq 1 .. i /\ i \in 0 .. Len(bs)
    BY <1>0, AncestorsWithin
  <2>2. Ancestors(bs, j) \subseteq 1 .. j /\ j \in 0 .. Len(bs)
    BY <1>0, AncestorsWithin
  <2>3. Ancestors(bs, i) \subseteq 1 .. Len(bs) /\ Ancestors(bs, j) \subseteq 1 .. Len(bs)
    BY <1>0, <2>1, <2>2
  <2> QED
    BY <1>1, <2>3 DEF On, AllOn
<1>7. V \subseteq ToSet(F)
  <2> SUFFICES ASSUME NEW p \in V PROVE p \in ToSet(F)
    OBVIOUS
  <2>1. PICK k \in A : bs[k].by = p
    BY <1>1 DEF Live
  <2>2. k \in 1 .. Len(bs) /\ k # 1
    BY <1>1 DEF AllOn, Confirming
  <2> QED
    BY <2>1, <2>2 DEF Steadily
<1>8. PICK n \in Nat : n = Len(F)
  OBVIOUS
<1>9. Cardinality(V) <= n
  <2>1. IsFiniteSet(ToSet(F)) /\ Cardinality(ToSet(F)) \in Nat /\ Cardinality(ToSet(F)) <= n
    BY <1>8, ListBound
  <2>2. Cardinality(V) <= Cardinality(ToSet(F))
    BY <1>7, <2>1, FS_Subset
  <2> QED
    BY <1>4, <2>1, <2>2
<1>10. Cardinality(A) <= Cardinality(V) + r
  BY <1>1 DEF CountInv
<1>11. Cardinality(S \cup T) = Cardinality(S) + Cardinality(T) - Cardinality(S \cap T) /\ IsFiniteSet(S \cap T)
  BY <1>3, FS_Union, FS_Intersection
<1>12. Cardinality(S \cup T) <= Cardinality(A)
  BY <1>4, <1>6, FS_Subset
<1>13. S \cap T # {}
  <2> SUFFICES ASSUME S \cap T = {} PROVE FALSE
    OBVIOUS
  <2>1. Cardinality(S \cap T) = 0
    BY FS_EmptySet, Zenon
  <2>2. PICK a, b, c, v \in Nat : a = Cardinality(S) /\ b = Cardinality(T) /\ c = Cardinality(A) /\ v = Cardinality(V)
    BY <1>3, <1>4
  <2>3. a + b - 0 <= c /\ c <= v + r /\ v <= n /\ a >= Q /\ b >= Q /\ r + n < 2 * Q
    BY <1>2, <1>5, <1>8, <1>9, <1>10, <1>11, <1>12, <2>1, <2>2
  <2> QED
    BY <2>3
<1>14. PICK k \in S \cap T : TRUE
  BY <1>13
<1> QED
  BY <1>1, <1>14 DEF On, Confirming

\* What the nodes run: a schedule that stays, and few restarts.  With n producers
\* a block is proposed by more than two thirds of n, so that the two quotas of
\* two proposals meet in a third of the producers; the restarts are fewer.
StaysFirst == \A s \in Starts : s.next = <<>> /\ MaxRestarts + Len(s.first) < 2 * Quota(s.first)

\* The schedule of the tree.
Root == block[1].header.active.producers

\* The inductive invariant where the schedule stays.
SInv ==
    /\ FInv /\ Root \in Seq(Producer) /\ Steadily(block, Root)
    /\ CountInv(block, started, restarts)
    /\ \A p \in Producer : started[p] <= block[Len(block)].slot
    /\ MaxRestarts + Len(Root) < 2 * Quota(Root)

LEMMA SteadyInit == ASSUME StaysFirst, ForksInit PROVE SInv
<1>1. PICK s \in Starts :
         LET c == Chain(s)
         IN  /\ block = c.block /\ marks = c.marks /\ signed = c.signed
             /\ heads = [p \in Producer |-> Len(c.block)]
  BY Zenon DEF ForksInit
<1>2. PICK F : F = s.first /\ F \in Seq(Producer) \ {<<>>} /\ MaxRestarts + Len(F) < 2 * Quota(F)
  BY FinalityAssumption DEF StaysFirst
<1>3. PICK c : c = Chain(s) /\ block = c.block /\ StraightOn(c, F)
  <2>1. s.next = <<>>
    BY DEF StaysFirst
  <2> QED
    BY <1>1, <1>2, <2>1, ChainSteady
<1>4. FInv
  BY ForksInitHolds
<1>5. started = [p \in Producer |-> 0] /\ restarts = 0
  BY DEF ForksInit
<1>6. Root = F
  BY <1>3 DEF Root, StraightOn, Lasting
<1>7. \A p \in Producer : started[p] <= block[Len(block)].slot
  <2>1. Len(block) \in 1 .. Len(block)
    BY <1>4 DEF FInv, Blocks, Parents
  <2>2. block[Len(block)].slot \in Nat
    BY <1>4, <2>1 DEF FInv, Blocks, Block
  <2> QED
    BY <1>5, <2>2
<1> QED
  BY <1>2, <1>3, <1>4, <1>5, <1>6, <1>7 DEF SInv, StraightOn

LEMMA SteadyProduce ==
    ASSUME SInv, NEW p \in Producer, NEW j \in 1 .. Len(block), Produce(p, j)
    PROVE  SInv'
<1>1. PICK n, b, m : Produced(p, j, n, b, m)
  BY ProduceIs
<1>2. FInv /\ Blocks(block) /\ ForksTypeOK
  BY DEF SInv, FInv
<1>3. FInv'
  BY <1>2, ProduceKeeps
<1>4. PICK bs, cs, st, F, t : /\ bs = block /\ cs = block' /\ st = started /\ F = Root
                              /\ t = NextSlot(block[j].header.active, p, block[Len(block)].slot)
  OBVIOUS
<1>5. NewBlock(bs, cs, b, j, p, n.marks, t) /\ Made(bs, cs, marks, heads, n.marks)
  BY <1>1, <1>2, <1>4, ProducedMade
<1>6. b = produce_block(bs, j, p, n.marks, t, <<>>) /\ p \in ToSet(bs[j].header.active.producers)
      /\ started' = st /\ restarts' = restarts
  BY <1>1, <1>4 DEF Produced
<1>7. Grows(bs, cs) /\ j \in 1 .. Len(bs)
  BY <1>4, <1>5 DEF Made
<1>8. cs[Len(cs)] = b /\ b.by = p /\ b.slot = t
  BY <1>5 DEF NewBlock
<1>9. /\ Len(bs) \in Nat /\ Len(bs) >= 1 /\ Len(cs) = Len(bs) + 1
      /\ \A k \in 1 .. Len(bs) : cs[k] = bs[k]
  BY <1>7, GrowsTree
<1>10. F \in Seq(Producer) /\ Steadily(bs, F) /\ CountInv(bs, st, restarts) /\ MaxRestarts + Len(F) < 2 * Quota(F)
  BY <1>4 DEF SInv
<1>11. bs[j].header.active.producers = F
  BY <1>7, <1>10 DEF Steadily, Lasts, Lasting
<1>12. Steadily(cs, F)
  BY <1>5, <1>6, <1>7, <1>8, <1>10, <1>11, SteadilyGrows
<1>13. Root' = F
  BY <1>4, <1>9 DEF Root
<1>14. \A q \in Producer : st[q] < t /\ st[q] \in Nat /\ t \in Nat
  <2> SUFFICES ASSUME NEW q \in Producer PROVE st[q] < t /\ st[q] \in Nat /\ t \in Nat
    OBVIOUS
  <2>1. PICK u, v, w \in Nat : u = bs[Len(bs)].slot /\ v = st[q] /\ w = t
    <3>1. Len(bs) \in 1 .. Len(bs) /\ Len(cs) \in 1 .. Len(cs)
      BY <1>9
    <3>2. bs[Len(bs)].slot \in Nat
      BY <1>7, <3>1 DEF Grows, Blocks, Block
    <3>3. cs[Len(cs)].slot \in Nat
      BY <1>7, <3>1 DEF Grows, Blocks, Block
    <3>4. st[q] \in Nat
      BY <1>2, <1>4 DEF ForksTypeOK
    <3> QED
      BY <1>8, <3>2, <3>3, <3>4
  <2>2. v <= u
    BY <1>4, <2>1 DEF SInv
  <2>3. u < w
    <3>1. Len(bs) \in 1 .. Len(cs) /\ Len(cs) \in 1 .. Len(cs) /\ Len(bs) < Len(cs)
      BY <1>9
    <3>2. cs[Len(bs)].slot < cs[Len(cs)].slot
      BY <1>7, <3>1 DEF Grows, Blocks
    <3>3. cs[Len(bs)] = bs[Len(bs)]
      BY <1>9
    <3> QED
      BY <1>8, <2>1, <3>2, <3>3
  <2>4. v < w
    BY <2>2, <2>3
  <2> QED
    BY <2>1, <2>4
<1>15. CountInv(cs, st, restarts)
  <2>1. \A k \in 1 .. Len(cs), q \in Producer : ~Installs(cs[k], q)
    BY <1>7, <1>12, NoneInstalled DEF Grows
  <2>2. OnceInv(cs, st)
    BY <1>3, <1>4, <1>6 DEF FInv
  <2>3. st \in [Producer -> Nat] /\ restarts \in Nat
    BY <1>2, <1>4, FinalityAssumption DEF ForksTypeOK
  <2>4. st[cs[Len(cs)].by] < cs[Len(cs)].slot
    BY <1>8, <1>14
  <2> QED
    BY <1>7, <1>10, <2>1, <2>2, <2>3, <2>4, CountGrows
<1>16. \A q \in Producer : st[q] <= cs[Len(cs)].slot
  BY <1>8, <1>14
<1> QED
  BY <1>3, <1>4, <1>6, <1>10, <1>12, <1>13, <1>15, <1>16 DEF SInv

LEMMA SteadyRestart ==
    ASSUME SInv, NEW p \in Producer, Restart(p)
    PROVE  SInv'
<1>1. FInv /\ Blocks(block) /\ ForksTypeOK /\ Len(block) \in Nat /\ Len(block) >= 1
  BY DEF SInv, FInv, Blocks, Parents
<1>2. FInv'
  BY <1>1, RestartKeeps
<1>3. /\ block' = block /\ started' = [started EXCEPT ![p] = block[Len(block)].slot]
      /\ restarts' = restarts + 1
  BY DEF Restart
<1>4. PICK st, new : st = started /\ new = started'
  OBVIOUS
<1>5. st \in [Producer -> Nat] /\ restarts \in Nat /\ block[Len(block)].slot \in Nat
  <2>1. Len(block) \in 1 .. Len(block)
    BY <1>1
  <2>2. block[Len(block)].slot \in Nat
    BY <1>1, <2>1 DEF Blocks, Block
  <2> QED
    BY <1>1, <1>4, <2>2, FinalityAssumption DEF ForksTypeOK
<1>6. new[p] = block[Len(block)].slot /\ \A q \in Producer \ {p} : new[q] = st[q]
  BY <1>3, <1>4, <1>5
<1>7. CountInv(block, new, restarts + 1)
  BY <1>1, <1>4, <1>5, <1>6, CountRestarts DEF SInv
<1>8. \A q \in Producer : new[q] <= block[Len(block)].slot
  BY <1>4, <1>5, <1>6 DEF SInv
<1>9. Root' = Root
  BY <1>3 DEF Root
<1> QED
  BY <1>2, <1>3, <1>4, <1>7, <1>8, <1>9 DEF SInv

\* On forks, where the schedule stays and fewer nodes restart than two quotas of
\* confirmations have producers in common, two branches never propose different
\* blocks of one number as irreversible, whatever the delays and the slots missed.
THEOREM BranchesProposeOnce == StaysFirst /\ ForksSpec => []ProposedOnce
<1> SUFFICES ASSUME StaysFirst PROVE ForksSpec => []ProposedOnce
  OBVIOUS
<1>1. ForksInit => SInv
  BY SteadyInit
<1>2. SInv /\ [ForksNext]_forksVars => SInv'
  <2> SUFFICES ASSUME SInv, [ForksNext]_forksVars PROVE SInv'
    OBVIOUS
  <2>1. CASE UNCHANGED forksVars
    BY <2>1 DEF forksVars, SInv, Root, FInv, ForksTypeOK
  <2>2. ASSUME NEW p \in Producer, NEW j \in 1 .. Len(block), Produce(p, j) PROVE SInv'
    BY <2>2, SteadyProduce
  <2>3. ASSUME NEW p \in Producer, Restart(p) PROVE SInv'
    BY <2>3, SteadyRestart
  <2> QED
    BY <2>1, <2>2, <2>3 DEF ForksNext
<1>3. SInv => ProposedOnce
  <2> SUFFICES ASSUME SInv, NEW i \in 2 .. Len(block), NEW j \in 2 .. Len(block),
                      block[i].header.dpos = block[j].header.dpos
               PROVE  {k \in Ancestors(block, i) : block[k].header.num = block[i].header.dpos} =
                      {k \in Ancestors(block, j) : block[k].header.num = block[i].header.dpos}
    BY DEF ProposedOnce
  <2>1. PICK bs, F : bs = block /\ F = Root
    OBVIOUS
  <2>2. /\ Blocks(bs) /\ ForksTypeOK /\ F \in Seq(Producer) /\ Steadily(bs, F) /\ CountInv(bs, started, restarts)
        /\ MaxRestarts + Len(F) < 2 * Quota(F)
    BY <2>1 DEF SInv, FInv
  <2>3. i \in 1 .. Len(bs) /\ j \in 1 .. Len(bs)
    BY <2>1, <2>2 DEF Blocks, Parents
  <2>4. PICK d \in Nat : d = bs[i].header.dpos /\ d = bs[j].header.dpos
    BY <2>1, <2>2, <2>3 DEF Blocks, Block, IsHeader
  <2>5. \A k \in 1 .. Len(bs) : Num(bs, k) \in Nat /\ Num(bs, k) >= 1
    BY <2>2 DEF Blocks, Sane, IsHeader, Num
  <2>6. {k \in Ancestors(bs, i) : Num(bs, k) = d} = {k \in Ancestors(bs, j) : Num(bs, k) = d}
    <3>0. Parents(bs) /\ Len(bs) \in Nat
      BY <2>2 DEF Blocks, Parents
    <3>1. CASE d = 0
      <4>1. Ancestors(bs, i) \subseteq 1 .. i
        BY <2>3, <3>0, AncestorsWithin
      <4>2. Ancestors(bs, j) \subseteq 1 .. j
        BY <2>3, <3>0, AncestorsWithin
      <4>3. \A k \in Ancestors(bs, i) \cup Ancestors(bs, j) : Num(bs, k) # d
        BY <2>3, <2>5, <3>0, <3>1, <4>1, <4>2
      <4> QED
        BY <4>3
    <3>2. CASE d # 0
      <4>1. PICK r, l, Q \in Nat : r = restarts /\ l = Len(F) /\ Q = Quota(F) /\ r <= MaxRestarts
        BY <2>2, FinalityAssumption DEF ForksTypeOK, Quota
      <4>2. r + Len(F) < 2 * Quota(F)
        <5>1. PICK mx \in Nat : mx = MaxRestarts /\ r <= mx
          BY <4>1, FinalityAssumption
        <5>2. mx + l < 2 * Q
          BY <2>2, <4>1, <5>1
        <5>3. r + l < 2 * Q
          BY <5>1, <5>2
        <5> QED
          BY <4>1, <5>3
      <4>a. CountInv(bs, started, r) /\ d > 0
        BY <2>2, <3>2, <4>1
      <4>3. PICK k \in Ancestors(bs, i) \cap Ancestors(bs, j) : d <= Num(bs, k)
        BY <2>2, <2>3, <2>4, <4>2, <4>a, QuotasMeet
      <4>4. {x \in Ancestors(bs, i) : Num(bs, x) = d} = {x \in Ancestors(bs, k) : Num(bs, x) = d}
        BY <2>2, <2>3, <4>3, SameBelow
      <4>5. {x \in Ancestors(bs, j) : Num(bs, x) = d} = {x \in Ancestors(bs, k) : Num(bs, x) = d}
        BY <2>2, <2>3, <4>3, SameBelow
      <4> QED
        BY <4>4, <4>5
    <3> QED
      BY <3>1, <3>2
  <2> QED
    BY <2>1, <2>4, <2>6 DEF Num
<1> QED
  BY <1>1, <1>2, <1>3, PTL DEF ForksSpec

=============================================================================
