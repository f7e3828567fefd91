--------------------------- MODULE ControllerProofs ---------------------------
(***************************************************************************)
(* The controller keeps its state, its stores, its marks and its fork      *)
(* database together, whatever blocks arrive in whatever order and         *)
(* wherever it crashes outside a switch.                                   *)
(*                                                                         *)
(* The invariant names two things no variable holds: r, the number up to   *)
(* which the fork database has been pruned, and t, the block the durable   *)
(* stores lead to.  Its heart is Settled: a block is logged only when no   *)
(* branch that leaves the chain below it can outrank the chain any more,   *)
(* so no later switch has to pop a logged block.                           *)
(***************************************************************************)
EXTENDS Controller, Induction, SequenceTheorems, TLAPS

-----------------------------------------------------------------------------
(***************************************************************************)
(* What the proofs need to know of block trees: the chain of a block, the  *)
(* order of the fork database, its root, the marks, the durable stores,    *)
(* and where two branches fork.  This part is about constants.             *)
(***************************************************************************)

\* s leads from the genesis block to b.
LeadsTo(s, b) ==
    /\ s \in Seq(Block) /\ Len(s) = Num[b] /\ s[Num[b]] = b
    /\ \A n \in 1 .. Num[b] - 1 : s[n + 1] # Genesis /\ s[n] = Parent[s[n + 1]]

\* The only block numbered 1 is the genesis block.
LEMMA LowestIsGenesis ==
    ASSUME NEW b \in Block, Num[b] = 1
    PROVE  b = Genesis
BY TreeAssumption

\* header.previous of a block names a block one number lower.
LEMMA ParentNum ==
    ASSUME NEW b \in Block, b # Genesis
    PROVE  Parent[b] \in Block /\ Num[Parent[b]] \in Nat \ {0} /\ Num[b] = Num[Parent[b]] + 1
BY TreeAssumption

\* A way to the parent, and one step more, is a way to the block.
LEMMA LeadsToChild ==
    ASSUME NEW b \in Block, b # Genesis, NEW s, LeadsTo(s, Parent[b])
    PROVE  LeadsTo(Append(s, b), b)
<1> DEFINE t == Append(s, b)
           k == Num[Parent[b]]
<1>1. s \in Seq(Block) /\ Len(s) = k /\ s[k] = Parent[b] /\ k \in Nat \ {0} /\ Num[b] = k + 1
  BY ParentNum DEF LeadsTo
<1>2. /\ t \in Seq(Block) /\ Len(t) = k + 1 /\ t[k + 1] = b
      /\ \A i \in 1 .. k : t[i] = s[i]
  BY <1>1, AppendProperties
<1>3. ASSUME NEW n \in 1 .. k PROVE t[n + 1] # Genesis /\ t[n] = Parent[t[n + 1]]
  <2>1. CASE n = k
    BY <1>1, <1>2, <2>1
  <2>2. CASE n # k
    <3>1. n \in 1 .. k - 1 /\ n + 1 \in 1 .. k
      BY <1>1, <2>2
    <3> QED
      BY <1>2, <3>1 DEF LeadsTo
  <2> QED
    BY <2>1, <2>2
<1> HIDE DEF t, k
<1> QED
  BY <1>1, <1>2, <1>3 DEF LeadsTo, t

\* The genesis block is reached at once.
LEMMA LeadsToGenesis == LeadsTo(<<Genesis>>, Genesis)
BY TreeAssumption DEF LeadsTo

\* There is a way to every block.
LEMMA LeadsToExists ==
    ASSUME NEW b \in Block
    PROVE  \E s : LeadsTo(s, b)
<1> DEFINE S == {n \in Nat : \A c \in Block : Num[c] = n => \E s : LeadsTo(s, c)}
<1>1. 0 \in S
  BY TreeAssumption
<1>2. ASSUME NEW n \in Nat, n \in S PROVE n + 1 \in S
  <2> SUFFICES ASSUME NEW c \in Block, Num[c] = n + 1 PROVE \E s : LeadsTo(s, c)
    OBVIOUS
  <2>1. CASE c = Genesis
    BY <2>1, LeadsToGenesis
  <2>2. CASE c # Genesis
    <3>1. Parent[c] \in Block /\ Num[Parent[c]] = n
      BY <2>2, ParentNum
    <3>2. PICK s : LeadsTo(s, Parent[c])
      BY <1>2, <3>1
    <3> QED
      BY <2>2, <3>2, LeadsToChild
  <2> QED
    BY <2>1, <2>2
<1> HIDE DEF S
<1>3. Nat \subseteq S
  BY <1>1, <1>2, SetInduction
<1>4. Num[b] \in S
  BY <1>3, TreeAssumption
<1> QED
  BY <1>4 DEF S

\* There is only one.
LEMMA LeadsToUnique ==
    ASSUME NEW b \in Block, NEW s, NEW t, LeadsTo(s, b), LeadsTo(t, b)
    PROVE  s = t
<1> DEFINE N == Num[b]
           S == {d \in Nat : d < N => s[N - d] = t[N - d]}
<1>0. N \in Nat \ {0}
  BY TreeAssumption
<1>1. 0 \in S
  BY <1>0 DEF LeadsTo
<1>2. ASSUME NEW d \in Nat, d \in S PROVE d + 1 \in S
  <2> SUFFICES ASSUME d + 1 < N PROVE s[N - (d + 1)] = t[N - (d + 1)]
    OBVIOUS
  <2>1. N - (d + 1) \in 1 .. N - 1 /\ (N - (d + 1)) + 1 = N - d
    BY <1>0
  <2>2. s[N - d] = t[N - d]
    BY <1>2, <1>0
  <2>3. s[N - (d + 1)] = Parent[s[N - d]] /\ t[N - (d + 1)] = Parent[t[N - d]]
    BY <2>1 DEF LeadsTo
  <2> QED
    BY <2>2, <2>3
<1> HIDE DEF S
<1>3. Nat \subseteq S
  BY <1>1, <1>2, SetInduction
<1>4. ASSUME NEW i \in 1 .. N PROVE s[i] = t[i]
  <2>1. N - i \in S /\ N - i \in Nat /\ N - i < N /\ N - (N - i) = i
    BY <1>0, <1>3
  <2> QED
    BY <2>1 DEF S
<1> QED
  BY <1>4, SeqEqual DEF LeadsTo

\* Chain is what its definition says.
LEMMA ChainStep ==
    Chain = [b \in Block |-> IF b = Genesis THEN <<b>> ELSE Append(Chain[Parent[b]], b)]
<1> DEFINE f == [b \in Block |-> CHOOSE s : LeadsTo(s, b)]
           Body(g) == [b \in Block |-> IF b = Genesis THEN <<b>> ELSE Append(g[Parent[b]], b)]
<1>1. ASSUME NEW b \in Block PROVE LeadsTo(f[b], b)
  BY LeadsToExists
<1> HIDE DEF f
<1>2. ASSUME NEW b \in Block PROVE f[b] = IF b = Genesis THEN <<b>> ELSE Append(f[Parent[b]], b)
  <2>1. CASE b = Genesis
    BY <1>1, <2>1, LeadsToGenesis, LeadsToUnique
  <2>2. CASE b # Genesis
    <3>1. LeadsTo(f[Parent[b]], Parent[b])
      BY <1>1, <2>2, ParentNum
    <3>2. LeadsTo(Append(f[Parent[b]], b), b)
      BY <2>2, <3>1, LeadsToChild
    <3>3. f[b] = Append(f[Parent[b]], b)
      BY <1>1, <3>2, LeadsToUnique
    <3> QED
      BY <2>2, <3>3
  <2> QED
    BY <2>1, <2>2
<1>3. f = Body(f)
  <2>1. f = [b \in Block |-> f[b]]
    BY DEF f
  <2> QED
    BY <1>2, <2>1
<1> HIDE DEF Body
<1>4. Chain = CHOOSE g : g = Body(g)
  BY DEF Chain, Body
<1>5. Chain = Body(Chain)
  BY <1>3, <1>4
<1> QED
  BY <1>5 DEF Body

\* The chain of a block is a way to it.
LEMMA ChainLeads ==
    ASSUME NEW b \in Block
    PROVE  LeadsTo(Chain[b], b)
<1> DEFINE S == {n \in Nat : \A c \in Block : Num[c] = n => LeadsTo(Chain[c], c)}
<1>1. 0 \in S
  BY TreeAssumption
<1>2. ASSUME NEW n \in Nat, n \in S PROVE n + 1 \in S
  <2> SUFFICES ASSUME NEW c \in Block, Num[c] = n + 1 PROVE LeadsTo(Chain[c], c)
    OBVIOUS
  <2>1. CASE c = Genesis
    BY <2>1, LeadsToGenesis, ChainStep
  <2>2. CASE c # Genesis
    <3>1. Parent[c] \in Block /\ Num[Parent[c]] = n
      BY <2>2, ParentNum
    <3>2. LeadsTo(Chain[Parent[c]], Parent[c])
      BY <1>2, <3>1
    <3>3. Chain[c] = Append(Chain[Parent[c]], c)
      BY <2>2, ChainStep
    <3> QED
      BY <2>2, <3>2, <3>3, LeadsToChild
  <2> QED
    BY <2>1, <2>2
<1> HIDE DEF S
<1>3. Nat \subseteq S
  BY <1>1, <1>2, SetInduction
<1>4. Num[b] \in S
  BY <1>3, TreeAssumption
<1> QED
  BY <1>4 DEF S

\* Two blocks have the same block of number n.
Agree(x, y, n) == n <= Num[x] /\ n <= Num[y] /\ Chain[x][n] = Chain[y][n]

\* The chain of a block is as long as its number and ends in it.
LEMMA ChainType ==
    ASSUME NEW b \in Block
    PROVE  /\ Num[b] \in Nat \ {0} /\ Chain[b] \in Seq(Block) /\ Len(Chain[b]) = Num[b]
           /\ Chain[b][Num[b]] = b
           /\ \A n \in 1 .. Num[b] : Chain[b][n] \in Block
<1>1. Num[b] \in Nat \ {0}
  BY TreeAssumption
<1>2. Chain[b] \in Seq(Block) /\ Len(Chain[b]) = Num[b] /\ Chain[b][Num[b]] = b
  BY ChainLeads DEF LeadsTo
<1> QED
  BY <1>1, <1>2

\* A block's chain is its parent's chain and the block itself.
LEMMA ChainParent ==
    ASSUME NEW b \in Block, b # Genesis
    PROVE  /\ Parent[b] \in Block /\ Num[Parent[b]] = Num[b] - 1 /\ Num[b] >= 2
           /\ Chain[b] = Append(Chain[Parent[b]], b)
           /\ \A n \in 1 .. Num[b] - 1 : Chain[b][n] = Chain[Parent[b]][n]
           /\ Chain[b][Num[b] - 1] = Parent[b]
<1>1. Parent[b] \in Block /\ Num[Parent[b]] \in Nat \ {0} /\ Num[b] = Num[Parent[b]] + 1
  BY ParentNum
<1>2. Chain[b] = Append(Chain[Parent[b]], b)
  BY ChainStep
<1>3. /\ Chain[Parent[b]] \in Seq(Block) /\ Len(Chain[Parent[b]]) = Num[Parent[b]]
      /\ Chain[Parent[b]][Num[Parent[b]]] = Parent[b]
  BY <1>1, ChainType
<1>4. \A n \in 1 .. Num[Parent[b]] : Chain[b][n] = Chain[Parent[b]][n]
  BY <1>2, <1>3, AppendProperties
<1> QED
  BY <1>1, <1>2, <1>3, <1>4

\* The block number n of a chain has number n and the same chain up to it.
LEMMA ChainPrefix ==
    ASSUME NEW b \in Block, NEW n \in 1 .. Num[b]
    PROVE  /\ Chain[b][n] \in Block /\ Num[Chain[b][n]] = n
           /\ \A m \in 1 .. n : Chain[Chain[b][n]][m] = Chain[b][m]
<1> DEFINE Good(c) == \A i \in 1 .. Num[c] :
               /\ Num[Chain[c][i]] = i
               /\ \A m \in 1 .. i : Chain[Chain[c][i]][m] = Chain[c][m]
           S == {k \in Nat : \A c \in Block : Num[c] = k => Good(c)}
<1>1. 0 \in S
  BY TreeAssumption
<1>2. ASSUME NEW k \in Nat, k \in S PROVE k + 1 \in S
  <2> SUFFICES ASSUME NEW c \in Block, Num[c] = k + 1, NEW i \in 1 .. Num[c]
               PROVE  /\ Num[Chain[c][i]] = i
                      /\ \A m \in 1 .. i : Chain[Chain[c][i]][m] = Chain[c][m]
    OBVIOUS
  <2>1. CASE i = Num[c]
    BY <2>1, ChainType
  <2>2. CASE i # Num[c]
    <3>1. c # Genesis /\ i \in 1 .. Num[c] - 1
      BY <2>2, TreeAssumption
    <3>2. /\ Parent[c] \in Block /\ Num[Parent[c]] = k
          /\ \A j \in 1 .. k : Chain[c][j] = Chain[Parent[c]][j]
      BY <3>1, ChainParent
    <3>3. Good(Parent[c])
      BY <1>2, <3>2
    <3> QED
      BY <3>1, <3>2, <3>3
  <2> QED
    BY <2>1, <2>2
<1> HIDE DEF S
<1>3. Nat \subseteq S
  BY <1>1, <1>2, SetInduction
<1>4. Num[b] \in S
  BY <1>3, TreeAssumption
<1>5. Good(b)
  BY <1>4 DEF S
<1> QED
  BY <1>5, ChainType

\* Each block of a chain is the parent of the next one.
LEMMA ChainUp ==
    ASSUME NEW b \in Block, NEW n \in 1 .. Num[b] - 1
    PROVE  Chain[b][n + 1] # Genesis /\ Parent[Chain[b][n + 1]] = Chain[b][n]
BY ChainLeads DEF LeadsTo

\* Every chain begins with the genesis block.
LEMMA ChainRoot ==
    ASSUME NEW b \in Block
    PROVE  1 \in 1 .. Num[b] /\ Chain[b][1] = Genesis
BY ChainPrefix, ChainType, LowestIsGenesis

\* Chains that share a block share every block below it.
LEMMA AgreeBelow ==
    ASSUME NEW x \in Block, NEW y \in Block, NEW n \in Nat, Agree(x, y, n), NEW m \in 1 .. n
    PROVE  Agree(x, y, m)
<1>1. n \in 1 .. Num[x] /\ n \in 1 .. Num[y] /\ m <= Num[x] /\ m <= Num[y]
  BY ChainType DEF Agree
<1>2. Chain[x][m] = Chain[Chain[x][n]][m] /\ Chain[y][m] = Chain[Chain[y][n]][m]
  BY <1>1, ChainPrefix
<1> QED
  BY <1>1, <1>2 DEF Agree

\* To share block n is transitive.
LEMMA AgreeTrans ==
    ASSUME NEW x \in Block, NEW y \in Block, NEW z \in Block, NEW n,
           Agree(x, y, n), Agree(y, z, n)
    PROVE  Agree(x, z, n)
BY DEF Agree

\* b is an ancestor of x when they agree at the number of b.
LEMMA AncestorIff ==
    ASSUME NEW b \in Block, NEW x
    PROVE  x \in Ancestors(b) <=> x \in Block /\ Agree(x, b, Num[x])
<1>1. ASSUME x \in Ancestors(b) PROVE x \in Block /\ Agree(x, b, Num[x])
  <2>1. PICK i \in 1 .. Num[b] : x = Chain[b][i]
    BY <1>1 DEF Ancestors
  <2>2. x \in Block /\ Num[x] = i
    BY <2>1, ChainPrefix
  <2> QED
    BY <2>1, <2>2, ChainType DEF Agree
<1>2. ASSUME x \in Block, Agree(x, b, Num[x]) PROVE x \in Ancestors(b)
  <2>1. Chain[x][Num[x]] = x /\ Num[x] \in 1 .. Num[b]
    BY <1>2, ChainType DEF Agree
  <2> QED
    BY <1>2, <2>1 DEF Ancestors, Agree
<1> QED
  BY <1>1, <1>2

\* An ancestor agrees with the block all the way up.
LEMMA AncestorAgrees ==
    ASSUME NEW b \in Block, NEW n \in 1 .. Num[b]
    PROVE  Chain[b][n] \in Block /\ Num[Chain[b][n]] = n /\ Agree(Chain[b][n], b, n)
BY ChainPrefix, ChainType DEF Agree

\* A block's parent is on its chain.
LEMMA ParentAgrees ==
    ASSUME NEW b \in Block, b # Genesis
    PROVE  Agree(Parent[b], b, Num[Parent[b]])
<1>1. Num[b] - 1 \in 1 .. Num[b] - 1
  BY ChainParent, ChainType
<1> QED
  BY <1>1, ChainParent, ChainType DEF Agree

-----------------------------------------------------------------------------
(* The order of the fork database. *)

\* by_lib_block_num is a strict order whose ties are transitive.
LEMMA BetterOrder ==
    ASSUME NEW x \in Block, NEW y \in Block, NEW z \in Block
    PROVE  /\ ~Better(x, x) /\ (Better(x, y) => ~Better(y, x))
           /\ Better(x, y) /\ ~Better(z, y) => Better(x, z)
           /\ Better(x, y) /\ ~Better(x, z) => Better(z, y)
           /\ Better(x, y) /\ Better(y, z) => Better(x, z)
           /\ ~Better(x, y) /\ ~Better(y, z) => ~Better(x, z)
BY TreeAssumption, LibAssumption DEF Better

\* A block outranks its ancestors.
LEMMA LibGrows ==
    ASSUME NEW y \in Block, NEW n \in 1 .. Num[y]
    PROVE  Lib[Chain[y][n]] <= Lib[y]
<1> DEFINE Good(c) == \A i \in 1 .. Num[c] : Lib[Chain[c][i]] <= Lib[c]
           S == {k \in Nat : \A c \in Block : Num[c] = k => Good(c)}
<1>1. 0 \in S
  BY TreeAssumption
<1>2. ASSUME NEW k \in Nat, k \in S PROVE k + 1 \in S
  <2> SUFFICES ASSUME NEW c \in Block, Num[c] = k + 1, NEW i \in 1 .. Num[c]
               PROVE  Lib[Chain[c][i]] <= Lib[c]
    OBVIOUS
  <2>1. CASE i = Num[c]
    BY <2>1, ChainType, LibAssumption
  <2>2. CASE i # Num[c]
    <3>1. c # Genesis /\ i \in 1 .. Num[c] - 1
      BY <2>2, TreeAssumption
    <3>2. Parent[c] \in Block /\ Num[Parent[c]] = k /\ Chain[c][i] = Chain[Parent[c]][i]
      BY <3>1, ChainParent
    <3>3. Good(Parent[c]) /\ i \in 1 .. Num[Parent[c]]
      BY <1>2, <3>1, <3>2
    <3>4. Lib[Chain[Parent[c]][i]] <= Lib[Parent[c]] /\ Chain[Parent[c]][i] \in Block
      BY <3>3, <3>2, ChainType
    <3>5. Lib[Parent[c]] <= Lib[c]
      BY <3>1, LibAssumption
    <3> QED
      BY <3>2, <3>4, <3>5, LibAssumption
  <2> QED
    BY <2>1, <2>2
<1> HIDE DEF S
<1>3. Nat \subseteq S
  BY <1>1, <1>2, SetInduction
<1>4. Num[y] \in S
  BY <1>3, TreeAssumption
<1> QED
  BY <1>4 DEF S

\* A block outranks the other blocks of its chain.
LEMMA BetterThanAncestor ==
    ASSUME NEW x \in Block, NEW y \in Block, Agree(x, y, Num[x])
    PROVE  ~Better(x, y) /\ (x # y => Better(y, x))
<1>1. Num[x] \in 1 .. Num[y] /\ Chain[y][Num[x]] = x
  BY ChainType DEF Agree
<1>2. Lib[x] <= Lib[y]
  BY <1>1, LibGrows
<1>3. x # y => Num[x] < Num[y]
  BY <1>1, ChainType
<1> QED
  BY <1>1, <1>2, <1>3, TreeAssumption, LibAssumption DEF Better

\* Any two chains share the block of their fork.
LEMMA ForkPointIs ==
    ASSUME NEW x \in Block, NEW y \in Block
    PROVE  ForkPoint(x, y) \in 1 .. Num[x] /\ Agree(x, y, ForkPoint(x, y))
<1> DEFINE T == {n \in 1 .. Num[x] : Agree(x, y, n)}
<1>1. 1 \in T
  BY ChainRoot, ChainType DEF Agree
<1>2. PICK n \in T : \A m \in T : m <= n
  <2>1. T \in SUBSET Nat /\ T # {} /\ Num[x] \in Nat /\ \A m \in T : m <= Num[x]
    BY <1>1, ChainType
  <2> HIDE DEF T
  <2> QED
    BY <2>1, GreatestNat
<1>3. /\ n \in 1 .. Num[x] /\ n <= Num[y] /\ Chain[x][n] = Chain[y][n]
      /\ \A m \in n + 1 .. Num[x] : m <= Num[y] => Chain[x][m] # Chain[y][m]
  BY <1>2, ChainType DEF Agree
<1> HIDE DEF T
<1> QED
  BY <1>3 DEF ForkPoint, Agree

\* Who makes a block irreversible at which y does not agree outranks y already.
LEMMA GradualFork ==
    ASSUME NEW x \in Block, x # Genesis, NEW y \in Block, NEW n \in Nat,
           ~Agree(x, y, n + 1), Lib[x] > n
    PROVE  Better(Parent[x], y)
<1>1. ForkPoint(x, y) \in Nat /\ Agree(x, y, ForkPoint(x, y))
  BY ForkPointIs, ChainType
<1>2. ForkPoint(x, y) <= n
  BY <1>1, AgreeBelow
<1>3. Lib[x] \in Nat
  BY LibAssumption
<1> QED
  BY <1>1, <1>2, <1>3, GradualAssumption

-----------------------------------------------------------------------------
(* The operators on the index. *)

\* Leaving X aside, h is the first of the best blocks of o.
Ranked(o, X, h) ==
    \E i \in DOMAIN o :
        /\ o[i] = h
        /\ \A j \in DOMAIN o : o[j] \notin X =>
              ~Better(o[j], h) /\ (j < i => Better(h, o[j]))

\* begin() of by_lib_block_num is the block that Ranked names.
LEMMA BestIs ==
    ASSUME NEW o \in Seq(Block), NEW h, Ranked(o, {}, h)
    PROVE  Best(o) = h
<1> DEFINE Q(i) == \A j \in DOMAIN o : ~Better(o[j], o[i]) /\ (j < i => Better(o[i], o[j]))
<1>1. PICK i \in DOMAIN o : o[i] = h /\ Q(i)
  BY DEF Ranked
<1>2. DOMAIN o \subseteq Nat
  OBVIOUS
<1>3. ASSUME NEW c \in DOMAIN o, Q(c) PROVE c = i
  BY <1>1, <1>2, <1>3
<1> DEFINE c == CHOOSE k \in DOMAIN o : Q(k)
<1>4. c \in DOMAIN o /\ Q(c)
  BY <1>1
<1>5. Best(o) = o[c]
  BY DEF Best
<1> HIDE DEF Q, c
<1> QED
  BY <1>1, <1>3, <1>4, <1>5

\* The best block is a block of the index.
LEMMA RankedIn ==
    ASSUME NEW o, NEW X, NEW h, Ranked(o, X, h)
    PROVE  h \in ToSet(o)
BY DEF Ranked, ToSet

\* index.insert adds the one block.
LEMMA ToSetAppend ==
    ASSUME NEW o \in Seq(Block), NEW b \in Block
    PROVE  /\ Append(o, b) \in Seq(Block) /\ ToSet(Append(o, b)) = ToSet(o) \cup {b}
           /\ ToSet(o) \subseteq Block
<1>1. /\ Append(o, b) \in Seq(Block) /\ Len(Append(o, b)) = Len(o) + 1
      /\ Append(o, b)[Len(o) + 1] = b /\ \A i \in 1 .. Len(o) : Append(o, b)[i] = o[i]
  BY AppendProperties
<1>2. DOMAIN o = 1 .. Len(o) /\ Len(o) \in Nat /\ DOMAIN Append(o, b) = 1 .. Len(o) + 1
  BY <1>1, LenProperties
<1>3. ToSet(Append(o, b)) = ToSet(o) \cup {b}
  <2>1. ASSUME NEW x \in ToSet(Append(o, b)) PROVE x \in ToSet(o) \cup {b}
    BY <1>1, <1>2 DEF ToSet
  <2>2. ASSUME NEW x \in ToSet(o) PROVE x \in ToSet(Append(o, b))
    <3>1. PICK i \in 1 .. Len(o) : x = o[i]
      BY <1>2 DEF ToSet
    <3>2. i \in DOMAIN Append(o, b) /\ x = Append(o, b)[i]
      BY <1>1, <1>2, <3>1
    <3> QED
      BY <3>2 DEF ToSet
  <2>3. b \in ToSet(Append(o, b))
    <3>1. Len(o) + 1 \in DOMAIN Append(o, b)
      BY <1>2
    <3> QED
      BY <1>1, <3>1 DEF ToSet
  <2> QED
    BY <2>1, <2>2, <2>3
<1>4. ToSet(o) \subseteq Block
  BY DEF ToSet
<1> QED
  BY <1>1, <1>3, <1>4

\* A block is inserted: it or the old head is the best one.
LEMMA RankedAppend ==
    ASSUME NEW o \in Seq(Block), NEW h \in Block, NEW b \in Block, Ranked(o, {}, h)
    PROVE  /\ Ranked(Append(o, b), {b}, h)
           /\ Ranked(Append(o, b), {}, IF Better(b, h) THEN b ELSE h)
<1> DEFINE p == Append(o, b)
           n == Len(o)
<1>1. /\ p \in Seq(Block) /\ Len(p) = n + 1 /\ p[n + 1] = b /\ \A i \in 1 .. n : p[i] = o[i]
      /\ DOMAIN o = 1 .. n /\ n \in Nat /\ DOMAIN p = 1 .. n + 1
  BY AppendProperties, LenProperties
<1>2. PICK i \in 1 .. n : o[i] = h /\ \A j \in 1 .. n :
          ~Better(o[j], h) /\ (j < i => Better(h, o[j]))
  BY <1>1 DEF Ranked
<1>3. \A j \in 1 .. n : o[j] \in Block
  BY <1>1
<1> HIDE DEF p, n
<1>4. i \in DOMAIN p /\ p[i] = h /\ n + 1 \in DOMAIN p
  BY <1>1, <1>2
<1>5. \A j \in DOMAIN p : j \in 1 .. n \/ j = n + 1
  BY <1>1
<1>6. Ranked(p, {b}, h)
  BY <1>1, <1>2, <1>4, <1>5 DEF Ranked
<1>7. CASE Better(b, h)
  <2>1. ASSUME NEW j \in DOMAIN p PROVE ~Better(p[j], b) /\ (j < n + 1 => Better(b, p[j]))
    <3>1. CASE j = n + 1
      BY <1>1, <3>1, BetterOrder
    <3>2. CASE j \in 1 .. n
      <4>1. p[j] = o[j] /\ o[j] \in Block /\ ~Better(o[j], h)
        BY <1>1, <1>2, <1>3, <3>2
      <4> QED
        BY <1>7, <4>1, BetterOrder
    <3> QED
      BY <1>5, <3>1, <3>2
  <2>2. Ranked(p, {}, b)
    BY <1>1, <1>4, <2>1 DEF Ranked
  <2> QED
    BY <1>6, <1>7, <2>2 DEF p
<1>8. CASE ~Better(b, h)
  <2>1. ASSUME NEW j \in DOMAIN p PROVE ~Better(p[j], h) /\ (j < i => Better(h, p[j]))
    BY <1>1, <1>2, <1>5, <1>8
  <2>2. Ranked(p, {}, h)
    BY <1>4, <2>1 DEF Ranked
  <2> QED
    BY <1>6, <1>8, <2>2 DEF p
<1> QED
  BY <1>7, <1>8

\* p is what is left of the first n elements of o, in their order.
LeftOf(p, o, gone, n) ==
    /\ p \in Seq(Block)
    /\ \A i \in DOMAIN p : \E j \in 1 .. n : p[i] = o[j] /\ o[j] \notin gone
    /\ \A j \in 1 .. n : o[j] \notin gone =>
          \E i \in DOMAIN p :
              /\ p[i] = o[j]
              /\ \A k \in DOMAIN p : k < i => \E l \in 1 .. n : l < j /\ p[k] = o[l]

\* One more block looked at by Without, kept or dropped.
LEMMA LeftOfNext ==
    ASSUME NEW o \in Seq(Block), NEW gone, NEW n \in Nat, n < Len(o), NEW p,
           LeftOf(p, o, gone, n)
    PROVE  LeftOf(IF o[n + 1] \in gone THEN p ELSE Append(p, o[n + 1]), o, gone, n + 1)
<1>1. n + 1 \in 1 .. Len(o) /\ o[n + 1] \in Block /\ Len(o) \in Nat
  BY LenProperties
<1>2. \A j \in 1 .. n + 1 : j \in 1 .. n \/ j = n + 1
  OBVIOUS
<1>3. \A j \in 1 .. n : j \in 1 .. n + 1
  OBVIOUS
<1>4. CASE o[n + 1] \in gone
  <2>1. LeftOf(p, o, gone, n + 1)
    BY <1>2, <1>3, <1>4 DEF LeftOf
  <2> QED
    BY <1>4, <2>1
<1>5. CASE o[n + 1] \notin gone
  <2> DEFINE q == Append(p, o[n + 1])
             m == Len(p)
  <2>1. /\ p \in Seq(Block) /\ m \in Nat /\ DOMAIN p = 1 .. m
        /\ q \in Seq(Block) /\ DOMAIN q = 1 .. m + 1 /\ q[m + 1] = o[n + 1]
        /\ \A i \in 1 .. m : q[i] = p[i]
    BY <1>1, AppendProperties, LenProperties DEF LeftOf
  <2> HIDE DEF q, m
  <2>2. ASSUME NEW i \in DOMAIN q
        PROVE  \E j \in 1 .. n + 1 : q[i] = o[j] /\ o[j] \notin gone
    <3>1. CASE i = m + 1
      BY <1>5, <2>1, <3>1
    <3>2. CASE i \in 1 .. m
      BY <1>3, <2>1, <3>2 DEF LeftOf
    <3> QED
      BY <2>1, <3>1, <3>2
  <2>3. ASSUME NEW j \in 1 .. n + 1, o[j] \notin gone
        PROVE  \E i \in DOMAIN q :
                  /\ q[i] = o[j]
                  /\ \A k \in DOMAIN q : k < i => \E l \in 1 .. n + 1 : l < j /\ q[k] = o[l]
    <3>1. CASE j = n + 1
      <4>1. ASSUME NEW k \in 1 .. m PROVE \E l \in 1 .. n : q[k] = o[l]
        <5>1. k \in DOMAIN p /\ q[k] = p[k]
          BY <2>1
        <5>2. \E l \in 1 .. n : p[k] = o[l]
          BY <5>1 DEF LeftOf
        <5> QED
          BY <5>1, <5>2
      <4>2. \A k \in DOMAIN q : k < m + 1 => \E l \in 1 .. n + 1 : l < j /\ q[k] = o[l]
        BY <2>1, <3>1, <4>1
      <4>3. m + 1 \in DOMAIN q /\ q[m + 1] = o[j]
        BY <2>1, <3>1
      <4> QED
        BY <4>2, <4>3
    <3>2. CASE j \in 1 .. n
      <4>1. PICK i \in DOMAIN p :
               /\ p[i] = o[j]
               /\ \A k \in DOMAIN p : k < i => \E l \in 1 .. n : l < j /\ p[k] = o[l]
        BY <2>3, <3>2, Zenon DEF LeftOf
      <4>2. i \in DOMAIN q /\ q[i] = o[j]
        BY <2>1, <4>1
      <4>3. \A k \in DOMAIN q : k < i => k \in DOMAIN p /\ q[k] = p[k]
        BY <2>1, <4>1
      <4>4. \A k \in DOMAIN q : k < i => \E l \in 1 .. n + 1 : l < j /\ q[k] = o[l]
        BY <1>3, <4>1, <4>3
      <4> QED
        BY <4>2, <4>4
    <3> QED
      BY <1>2, <3>1, <3>2
  <2>4. LeftOf(q, o, gone, n + 1)
    BY <2>1, <2>2, <2>3 DEF LeftOf
  <2> QED
    BY <1>5, <2>4 DEF q
<1> QED
  BY <1>4, <1>5

\* Without keeps the blocks that are not gone, in their order.
LEMMA WithoutIsLeft ==
    ASSUME NEW o \in Seq(Block), NEW gone
    PROVE  LeftOf(Without(o, gone), o, gone, Len(o))
<1> DEFINE N == Len(o)
           Step1(f, i) == IF o[i] \in gone THEN f[i - 1] ELSE Append(f[i - 1], o[i])
           Body(f, n) == [i \in 0 .. n |-> IF i = 0 THEN <<>> ELSE Step1(f, i)]
           S == {n \in Nat : \E f : f = Body(f, n)}
<1>0. N \in Nat
  BY LenProperties
<1>1. 0 \in S
  <2>1. [i \in 0 .. 0 |-> <<>>] = Body([i \in 0 .. 0 |-> <<>>], 0)
    OBVIOUS
  <2> QED
    BY <2>1
<1>2. ASSUME NEW n \in Nat, n \in S PROVE n + 1 \in S
  <2>1. PICK f : f = Body(f, n)
    BY <1>2
  <2> DEFINE g == [i \in 0 .. n + 1 |-> IF i = n + 1 THEN Step1(f, n + 1) ELSE f[i]]
  <2>2. ASSUME NEW i \in 0 .. n + 1 PROVE g[i] = IF i = 0 THEN <<>> ELSE Step1(g, i)
    <3>1. CASE i = n + 1
      <4>1. g[n + 1] = Step1(f, n + 1) /\ g[n] = f[n] /\ (n + 1) - 1 = n
        OBVIOUS
      <4> QED
        BY <3>1, <4>1
    <3>2. CASE i # n + 1
      <4>1. i \in 0 .. n /\ g[i] = f[i]
        BY <3>2
      <4>2. f[i] = IF i = 0 THEN <<>> ELSE Step1(f, i)
        BY <2>1, <4>1
      <4>3. i # 0 => i - 1 \in 0 .. n /\ i - 1 # n + 1 /\ i - 1 \in 0 .. n + 1
        BY <4>1
      <4>4. i # 0 => g[i - 1] = f[i - 1]
        BY <4>3
      <4> HIDE DEF g
      <4> QED
        BY <4>1, <4>2, <4>4
    <3> QED
      BY <3>1, <3>2
  <2>3. g = [i \in 0 .. n + 1 |-> g[i]]
    OBVIOUS
  <2> HIDE DEF g
  <2>4. g = Body(g, n + 1)
    BY <2>2, <2>3
  <2> HIDE DEF Body
  <2> QED
    BY <2>4
<1>3. PICK f : f = Body(f, N)
  <2> HIDE DEF S
  <2>1. Nat \subseteq S
    BY <1>1, <1>2, SetInduction
  <2>2. N \in S
    BY <1>0, <2>1
  <2> QED
    BY <2>2 DEF S
<1> DEFINE keep == CHOOSE g : g = Body(g, N)
<1>4. Without(o, gone) = keep[N]
  BY DEF Without
<1> HIDE DEF Body
<1>5. keep = Body(keep, N)
  BY <1>3
<1> HIDE DEF keep
<1>6. \A i \in 0 .. N : keep[i] = IF i = 0 THEN <<>> ELSE Step1(keep, i)
  BY <1>5 DEF Body
<1> DEFINE T == {n \in Nat : n <= N => LeftOf(keep[n], o, gone, n)}
<1>7. 0 \in T
  <2>1. keep[0] = <<>>
    BY <1>0, <1>6
  <2>2. LeftOf(<<>>, o, gone, 0)
    BY DEF LeftOf
  <2> QED
    BY <2>1, <2>2
<1>8. ASSUME NEW n \in Nat, n \in T PROVE n + 1 \in T
  <2> SUFFICES ASSUME n + 1 <= N PROVE LeftOf(keep[n + 1], o, gone, n + 1)
    OBVIOUS
  <2>1. LeftOf(keep[n], o, gone, n) /\ n < N
    BY <1>0, <1>8
  <2>2. keep[n + 1] = IF o[n + 1] \in gone THEN keep[n] ELSE Append(keep[n], o[n + 1])
    <3>1. n + 1 \in 0 .. N /\ n + 1 # 0 /\ (n + 1) - 1 = n
      BY <1>0
    <3> QED
      BY <1>6, <3>1
  <2> QED
    BY <2>1, <2>2, LeftOfNext
<1> HIDE DEF T, N
<1>9. Nat \subseteq T
  BY <1>7, <1>8, SetInduction
<1> QED
  BY <1>0, <1>4, <1>9 DEF T, N

\* fork_database::remove takes away exactly the blocks that are gone.
LEMMA WithoutIs ==
    ASSUME NEW o \in Seq(Block), NEW gone
    PROVE  /\ Without(o, gone) \in Seq(Block)
           /\ ToSet(Without(o, gone)) = ToSet(o) \ gone
<1> DEFINE p == Without(o, gone)
<1>1. LeftOf(p, o, gone, Len(o)) /\ DOMAIN o = 1 .. Len(o)
  BY WithoutIsLeft, LenProperties
<1> HIDE DEF p
<1>2. ASSUME NEW x \in ToSet(p) PROVE x \in ToSet(o) \ gone
  BY <1>1 DEF LeftOf, ToSet
<1>3. ASSUME NEW x \in ToSet(o) \ gone PROVE x \in ToSet(p)
  <2>1. PICK j \in 1 .. Len(o) : x = o[j]
    BY <1>1 DEF ToSet
  <2>2. PICK i \in DOMAIN p : p[i] = o[j]
    BY <1>1, <2>1, Zenon DEF LeftOf
  <2> QED
    BY <2>1, <2>2 DEF ToSet
<1> QED
  BY <1>1, <1>2, <1>3 DEF LeftOf, p

\* Removing blocks other than the best one leaves it the best one.
LEMMA RankedWithout ==
    ASSUME NEW o \in Seq(Block), NEW X, NEW h, NEW gone, Ranked(o, X, h), h \notin gone
    PROVE  Ranked(Without(o, gone), X, h)
<1> DEFINE p == Without(o, gone)
           N == Len(o)
<1>1. LeftOf(p, o, gone, N) /\ DOMAIN o = 1 .. N
  BY WithoutIsLeft, LenProperties
<1> HIDE DEF p, N
<1>2. PICK j \in 1 .. N : o[j] = h /\ \A l \in 1 .. N : o[l] \notin X =>
              ~Better(o[l], h) /\ (l < j => Better(h, o[l]))
  BY <1>1 DEF Ranked
<1>3. PICK i \in DOMAIN p : p[i] = h /\
         \A k \in DOMAIN p : k < i => \E l \in 1 .. N : l < j /\ p[k] = o[l]
  BY <1>1, <1>2 DEF LeftOf
<1>4. ASSUME NEW k \in DOMAIN p, p[k] \notin X
      PROVE  ~Better(p[k], h) /\ (k < i => Better(h, p[k]))
  <2>1. PICK l \in 1 .. N : p[k] = o[l]
    BY <1>1 DEF LeftOf
  <2>2. ~Better(p[k], h)
    BY <1>2, <1>4, <2>1
  <2>3. k < i => Better(h, p[k])
    BY <1>2, <1>3, <1>4
  <2> QED
    BY <2>2, <2>3
<1>5. Ranked(p, X, h)
  BY <1>3, <1>4 DEF Ranked
<1> QED
  BY <1>5 DEF p

\* A block that has left the index need not be left aside.
LEMMA RankedGone ==
    ASSUME NEW o, NEW b, NEW h, Ranked(o, {b}, h), b \notin ToSet(o)
    PROVE  Ranked(o, {}, h)
BY DEF Ranked, ToSet

\* To share block n is symmetric.
LEMMA AgreeSym ==
    ASSUME NEW x, NEW y, NEW n
    PROVE  Agree(x, y, n) <=> Agree(y, x, n)
BY DEF Agree

\* A subtree is the blocks with b on their chain.
LEMMA SubtreeIff ==
    ASSUME NEW b \in Block, NEW x \in Block
    PROVE  x \in Subtree(b) <=> Agree(b, x, Num[b])
BY AncestorIff DEF Subtree

-----------------------------------------------------------------------------
(* The root of the fork database. *)

\* All blocks of the index I have the block number r of h below them, and of
\* each the index holds the chain above that block.
Rooted(I, h, r) ==
    /\ I \subseteq Block /\ h \in I /\ r \in Nat
    /\ \A b \in I :
        /\ Num[b] > r
        /\ r > 0 => Agree(b, h, r)
        /\ \A n \in r + 1 .. Num[b] : Chain[b][n] \in I

\* Which block of the index is looked at makes no difference to its root.
LEMMA RootedMove ==
    ASSUME NEW I, NEW h, NEW r, Rooted(I, h, r), NEW x \in I
    PROVE  Rooted(I, x, r)
<1>1. \A b \in I : r > 0 => Agree(b, x, r)
  BY DEF Rooted, Agree
<1> QED
  BY <1>1 DEF Rooted

\* A block inserted above one of the index keeps the index rooted.
LEMMA RootedAppend ==
    ASSUME NEW I, NEW h, NEW r, Rooted(I, h, r), NEW b \in Block, b # Genesis, Parent[b] \in I
    PROVE  Rooted(I \cup {b}, h, r)
<1>1. /\ Num[Parent[b]] = Num[b] - 1 /\ Num[b] \in Nat /\ Chain[b][Num[b]] = b
      /\ \A n \in 1 .. Num[b] - 1 : Chain[b][n] = Chain[Parent[b]][n]
  BY ChainParent, ChainType
<1>2. r \in Nat /\ Num[Parent[b]] > r
  BY DEF Rooted
<1>3. r > 0 => Agree(b, h, r)
  <2>1. r > 0 => Agree(Parent[b], h, r)
    BY DEF Rooted
  <2>2. r > 0 => r \in 1 .. Num[b] - 1
    BY <1>1, <1>2
  <2> QED
    BY <1>1, <1>2, <2>1, <2>2 DEF Agree
<1>4. ASSUME NEW n \in r + 1 .. Num[b] PROVE Chain[b][n] \in I \cup {b}
  <2>1. CASE n = Num[b]
    BY <1>1, <2>1
  <2>2. CASE n # Num[b]
    <3>1. n \in 1 .. Num[b] - 1 /\ n \in r + 1 .. Num[Parent[b]]
      BY <1>1, <1>2, <2>2
    <3> QED
      BY <1>1, <3>1 DEF Rooted
  <2> QED
    BY <2>1, <2>2
<1> QED
  BY <1>1, <1>2, <1>3, <1>4 DEF Rooted

\* Removing a block with all that is built on it keeps the index rooted.
LEMMA RootedRemove ==
    ASSUME NEW I, NEW h, NEW r, Rooted(I, h, r), NEW b \in Block, h \notin Subtree(b)
    PROVE  Rooted(I \ Subtree(b), h, r)
<1>1. ASSUME NEW c \in I \ Subtree(b), NEW n \in r + 1 .. Num[c]
      PROVE  Chain[c][n] \in I \ Subtree(b)
  <2>1. c \in Block /\ Chain[c][n] \in I /\ n \in 1 .. Num[c] /\ r \in Nat
    BY <1>1 DEF Rooted
  <2>2. Chain[c][n] \in Block /\ Num[Chain[c][n]] = n /\ Agree(Chain[c][n], c, n)
    BY <2>1, AncestorAgrees
  <2>3. ASSUME Chain[c][n] \in Subtree(b) PROVE FALSE
    <3>1. Agree(b, Chain[c][n], Num[b]) /\ Num[b] \in Nat \ {0}
      BY <2>2, <2>3, SubtreeIff, ChainType
    <3>2. Num[b] \in 1 .. n
      BY <2>1, <2>2, <3>1 DEF Agree
    <3>3. Agree(Chain[c][n], c, Num[b])
      BY <2>1, <2>2, <3>2, AgreeBelow
    <3>4. Agree(b, c, Num[b])
      BY <2>1, <2>2, <3>1, <3>3, AgreeTrans
    <3> QED
      BY <1>1, <2>1, <3>4, SubtreeIff
  <2> QED
    BY <2>1, <2>3
<1> QED
  BY <1>1 DEF Rooted

\* The lowest block of the chain of h and its rivals are pruned.
LEMMA RootedPrune ==
    ASSUME NEW I, NEW h, NEW r, Rooted(I, h, r), r + 1 < Num[h],
           NEW v, v = Chain[h][r + 1], NEW rivals, rivals = {b \in I \ {v} : Num[b] = Num[v]}
    PROVE  Rooted(I \ ({v} \cup UNION {Subtree(b) : b \in rivals}), h, r + 1)
<1> DEFINE G == {v} \cup UNION {Subtree(b) : b \in rivals}
<1>1. h \in Block /\ r \in Nat /\ r + 1 \in 1 .. Num[h] /\ I \subseteq Block
  BY ChainType DEF Rooted
<1>2. v \in Block /\ Num[v] = r + 1 /\ v \in I
  BY <1>1, ChainPrefix DEF Rooted
<1>3. ASSUME NEW c \in I
      PROVE  c \in G <=> Num[c] = r + 1 \/ Chain[c][r + 1] # v
  <2>1. c \in Block /\ r + 1 \in 1 .. Num[c] /\ Chain[c][r + 1] \in I
    BY <1>1, <1>3, ChainType DEF Rooted
  <2>2. Chain[c][r + 1] \in Block /\ Num[Chain[c][r + 1]] = r + 1
    BY <2>1, ChainPrefix
  <2>3. ASSUME Num[c] = r + 1 PROVE c \in G
    <3>1. CASE c = v
      BY <3>1
    <3>2. CASE c # v
      <4>1. c \in rivals
        BY <1>2, <2>3, <3>2
      <4>2. c \in Subtree(c)
        BY <2>1, SubtreeIff, ChainType DEF Agree
      <4> QED
        BY <4>1, <4>2
    <3> QED
      BY <3>1, <3>2
  <2>4. ASSUME Chain[c][r + 1] # v PROVE c \in G
    <3> DEFINE d == Chain[c][r + 1]
    <3>1. d \in rivals
      BY <1>2, <2>1, <2>2, <2>4
    <3>2. Agree(d, c, r + 1)
      BY <2>1, AncestorAgrees
    <3>3. c \in Subtree(d)
      BY <2>1, <2>2, <3>2, SubtreeIff
    <3> QED
      BY <3>1, <3>3
  <2>5. ASSUME c \in G, Num[c] # r + 1 PROVE Chain[c][r + 1] # v
    <3>1. PICK b \in rivals : c \in Subtree(b)
      BY <1>2, <2>5
    <3>2. b \in Block /\ b # v /\ Num[b] = r + 1
      BY <1>1, <1>2
    <3>3. Agree(b, c, r + 1) /\ Chain[b][r + 1] = b
      BY <2>1, <3>1, <3>2, SubtreeIff, ChainType
    <3> QED
      BY <3>2, <3>3 DEF Agree
  <2> QED
    BY <2>3, <2>4, <2>5
<1> HIDE DEF G
<1>4. h \in I \ G
  BY <1>1, <1>3 DEF Rooted
<1>5. ASSUME NEW c \in I \ G
      PROVE  /\ Num[c] > r + 1 /\ Agree(c, h, r + 1)
             /\ \A n \in (r + 1) + 1 .. Num[c] : Chain[c][n] \in I \ G
  <2>1. Num[c] # r + 1 /\ Chain[c][r + 1] = v /\ c \in Block /\ Num[c] \in Nat
    BY <1>1, <1>3, <1>5, ChainType
  <2>2. Num[c] > r + 1
    BY <1>1, <2>1, <1>5 DEF Rooted
  <2>3. Agree(c, h, r + 1)
    BY <1>1, <2>1, <2>2, ChainType DEF Agree
  <2>4. ASSUME NEW n \in (r + 1) + 1 .. Num[c] PROVE Chain[c][n] \in I \ G
    <3>1. Chain[c][n] \in I /\ n \in 1 .. Num[c] /\ r + 1 \in 1 .. n
      BY <1>1, <1>5, <2>4 DEF Rooted
    <3>2. Num[Chain[c][n]] = n /\ Chain[Chain[c][n]][r + 1] = Chain[c][r + 1]
      BY <2>1, <3>1, ChainPrefix
    <3> QED
      BY <1>1, <1>3, <2>1, <3>1, <3>2
  <2> QED
    BY <2>2, <2>3, <2>4
<1>6. Rooted(I \ G, h, r + 1)
  BY <1>1, <1>4, <1>5 DEF Rooted
<1> QED
  BY <1>6 DEF G

\* At the root of the index only the block of the chain of h is marked.
Marking(marked, h, r) ==
    /\ \A b \in marked : Num[b] = r + 1 => b = Chain[h][r + 1]
    /\ r > 0 => Chain[h][r + 1] \in marked

\* Only the block of the current chain is pruned.
LEMMA OldestIs ==
    ASSUME NEW o \in Seq(Block), NEW h, NEW r, Rooted(ToSet(o), h, r), NEW marked,
           Marking(marked, h, r)
    PROVE  /\ Oldest(o, marked) = {Chain[h][r + 1]}
           /\ Chain[h][r + 1] \in Block /\ Num[Chain[h][r + 1]] = r + 1 /\ r + 1 <= Num[h]
<1> DEFINE I == ToSet(o)
           v == Chain[h][r + 1]
           lowest == {b \in I : \A c \in I : Num[b] <= Num[c]}
<1>1. h \in Block /\ r \in Nat /\ r + 1 \in 1 .. Num[h] /\ I \subseteq Block
  BY ChainType DEF Rooted
<1>2. v \in I /\ v \in Block /\ Num[v] = r + 1
  BY <1>1, ChainPrefix DEF Rooted
<1>3. \A b \in I : Num[b] \in Nat /\ Num[b] >= r + 1
  BY <1>1, ChainType DEF Rooted
<1>4. lowest = {b \in I : Num[b] = r + 1}
  BY <1>1, <1>2, <1>3
<1>5. Oldest(o, marked) = IF lowest \cap marked # {} THEN lowest \cap marked ELSE lowest
  BY DEF Oldest
<1>6. Oldest(o, marked) = {v}
  <2>1. CASE r > 0
    BY <1>2, <1>4, <1>5, <2>1 DEF Marking
  <2>2. CASE r = 0
    <3>1. \A b \in lowest : b = v
      BY <1>1, <1>2, <1>4, <2>2, LowestIsGenesis
    <3>2. v \in lowest
      BY <1>2, <1>4
    <3> HIDE DEF lowest
    <3> QED
      BY <1>5, <3>1, <3>2
  <2> QED
    BY <1>1, <2>1, <2>2
<1> QED
  BY <1>1, <1>2, <1>6

-----------------------------------------------------------------------------
(* What no branch can undo any more. *)

\* No branch that leaves the chain of h at block n or below outranks h.
Settled(h, n) == \A y \in Block : ~Agree(y, h, n + 1) => ~Better(y, h)

\* A new head whose parent did not outrank h makes no block irreversible that is
\* not on the chain of h, nor one with a rival that could still outrank h.
LEMMA IrreversibleIsSettled ==
    ASSUME NEW x \in Block, NEW h \in Block, x # Genesis => ~Better(Parent[x], h),
           NEW n \in Nat, Lib[x] > n
    PROVE  Agree(x, h, n + 1) /\ Settled(h, n)
<1>1. x # Genesis
  BY TreeAssumption, LibAssumption
<1>2. Agree(x, h, n + 1)
  BY <1>1, GradualFork
<1>3. ASSUME NEW y \in Block, ~Agree(y, h, n + 1) PROVE ~Better(y, h)
  <2>1. ~Agree(x, y, n + 1)
    BY <1>2, <1>3 DEF Agree
  <2>2. Better(Parent[x], y)
    BY <1>1, <2>1, GradualFork
  <2>3. Parent[x] \in Block
    BY <1>1, ChainParent
  <2> QED
    BY <1>1, <2>2, <2>3, BetterOrder
<1> QED
  BY <1>2, <1>3 DEF Settled

\* What no branch outranks at h, none outranks at a better block above.
LEMMA SettledUp ==
    ASSUME NEW h \in Block, NEW x \in Block, NEW n, Settled(h, n), Agree(x, h, n + 1),
           ~Better(h, x)
    PROVE  Settled(x, n)
<1> SUFFICES ASSUME NEW y \in Block, ~Agree(y, x, n + 1) PROVE ~Better(y, x)
  BY DEF Settled
<1>1. ~Agree(y, h, n + 1)
  BY DEF Agree
<1>2. ~Better(y, h)
  BY <1>1 DEF Settled
<1> QED
  BY <1>2, BetterOrder

-----------------------------------------------------------------------------
(* Chains of valid blocks, and the durable stores. *)

Sound(b) == \A n \in 1 .. Num[b] : Chain[b][n] \notin Bad

\* A valid block on a valid chain makes a valid chain.
LEMMA SoundExtend ==
    ASSUME NEW b \in Block, b # Genesis, b \notin Bad, Sound(Parent[b])
    PROVE  Sound(b)
<1>1. /\ Num[Parent[b]] = Num[b] - 1 /\ Num[b] \in Nat /\ Chain[b][Num[b]] = b
      /\ \A n \in 1 .. Num[b] - 1 : Chain[b][n] = Chain[Parent[b]][n]
  BY ChainParent, ChainType
<1> QED
  BY <1>1 DEF Sound

\* A valid chain is valid below each of its blocks.
LEMMA SoundBelow ==
    ASSUME NEW b \in Block, NEW x \in Block, Sound(b), Agree(x, b, Num[x])
    PROVE  Sound(x) /\ x \notin Bad
<1>1. Num[x] \in 1 .. Num[x] /\ Num[x] \in Nat /\ Num[b] \in Nat /\ Chain[x][Num[x]] = x
  BY ChainType
<1>2. \A n \in 1 .. Num[x] : Agree(x, b, n)
  BY <1>1, AgreeBelow
<1>3. \A n \in 1 .. Num[x] : n \in 1 .. Num[b]
  BY <1>1 DEF Agree
<1> QED
  BY <1>1, <1>2, <1>3 DEF Sound, Agree

\* A block has the ancestors of its parent and itself.
LEMMA AncestorsStep ==
    /\ Ancestors(Genesis) = {Genesis}
    /\ \A b \in Block \ {Genesis} :
          Ancestors(b) = Ancestors(Parent[b]) \cup {b} /\ b \notin Ancestors(Parent[b])
<1>1. Ancestors(Genesis) = {Genesis}
  BY TreeAssumption, ChainType DEF Ancestors
<1>2. ASSUME NEW b \in Block \ {Genesis}
      PROVE  Ancestors(b) = Ancestors(Parent[b]) \cup {b} /\ b \notin Ancestors(Parent[b])
  <2>1. /\ Parent[b] \in Block /\ Num[Parent[b]] = Num[b] - 1 /\ Num[b] \in Nat /\ Num[b] >= 2
        /\ Chain[b][Num[b]] = b
        /\ \A n \in 1 .. Num[b] - 1 : Chain[b][n] = Chain[Parent[b]][n]
    BY ChainParent, ChainType
  <2>2. \A n \in 1 .. Num[b] : n = Num[b] \/ n \in 1 .. Num[Parent[b]]
    BY <2>1
  <2>3. Ancestors(b) = Ancestors(Parent[b]) \cup {b}
    <3>1. \A x \in Ancestors(b) : x \in Ancestors(Parent[b]) \cup {b}
      BY <2>1, <2>2 DEF Ancestors
    <3>2. \A x \in Ancestors(Parent[b]) : x \in Ancestors(b)
      BY <2>1 DEF Ancestors
    <3>3. b \in Ancestors(b)
      BY <2>1 DEF Ancestors
    <3> QED
      BY <3>1, <3>2, <3>3
  <2>4. b \notin Ancestors(Parent[b])
    BY <2>1, AncestorIff DEF Agree
  <2> QED
    BY <2>3, <2>4
<1> QED
  BY <1>1, <1>2

\* The log lg and the rows rv hold the chain of t, as far as a replay needs it.
Stored(lg, rv, t) ==
    /\ Len(lg) >= 1 /\ Len(lg) <= Num[t] /\ (Len(lg) = Num[t] => Len(lg) = 1)
    /\ \A n \in 1 .. Len(lg) : lg[n] = Chain[t][n]
    /\ \A b \in rv : b \in Block \ {Genesis} /\ Agree(b, t, Num[b])
    /\ \A n \in Len(lg) + 1 .. Num[t] : Chain[t][n] \in rv

\* The row of the next block is free, and with it the stores hold its chain.
LEMMA StoredExtend ==
    ASSUME NEW lg \in Seq(Block), NEW rv, NEW b \in Block, b # Genesis, Stored(lg, rv, Parent[b])
    PROVE  Stored(lg, rv \cup {b}, b) /\ \A x \in rv : Num[x] # Num[b]
<1> DEFINE h == Parent[b]
           L == Len(lg)
<1>1. /\ h \in Block /\ Num[h] = Num[b] - 1 /\ Num[b] \in Nat /\ Chain[b][Num[b]] = b
      /\ \A n \in 1 .. Num[b] - 1 : Chain[b][n] = Chain[h][n]
  BY ChainParent, ChainType
<1>2. L \in Nat /\ L >= 1 /\ L <= Num[h]
  BY LenProperties DEF Stored
<1> HIDE DEF h, L
<1>3. \A n \in 1 .. L : lg[n] = Chain[b][n]
  BY <1>1, <1>2 DEF Stored, L, h
<1>4. ASSUME NEW x \in rv PROVE x \in Block \ {Genesis} /\ Agree(x, b, Num[x]) /\ Num[x] # Num[b]
  <2>1. x \in Block \ {Genesis} /\ Agree(x, h, Num[x]) /\ Num[x] \in Nat \ {0}
    BY ChainType DEF Stored, h
  <2> QED
    BY <1>1, <2>1 DEF Agree
<1>5. Agree(b, b, Num[b])
  BY <1>1 DEF Agree
<1>6. ASSUME NEW n \in L + 1 .. Num[b] PROVE Chain[b][n] \in rv \cup {b}
  <2>1. CASE n = Num[b]
    BY <1>1, <2>1
  <2>2. CASE n # Num[b]
    <3>1. n \in L + 1 .. Num[h] /\ n \in 1 .. Num[b] - 1
      BY <1>1, <1>2, <2>2
    <3> QED
      BY <1>1, <3>1 DEF Stored, L, h
  <2> QED
    BY <2>1, <2>2
<1> QED
  BY <1>1, <1>2, <1>3, <1>4, <1>5, <1>6 DEF Stored, L

\* pop_block of a block above the log leaves the chain of its parent stored.
LEMMA StoredPop ==
    ASSUME NEW lg \in Seq(Block), NEW rv, NEW h \in Block, h # Genesis, Stored(lg, rv, h),
           NEW k \in Nat, k < Num[h], k > Len(lg) \/ Len(lg) <= 1
    PROVE  Stored(lg, {x \in rv : Num[x] # Num[h]}, Parent[h])
<1> DEFINE p == Parent[h]
           L == Len(lg)
           rows == {x \in rv : Num[x] # Num[h]}
<1>1. /\ p \in Block /\ Num[p] = Num[h] - 1 /\ Num[h] \in Nat /\ Num[h] >= 2
      /\ Chain[h][Num[h]] = h
      /\ \A n \in 1 .. Num[h] - 1 : Chain[h][n] = Chain[p][n]
  BY ChainParent, ChainType
<1>6. L \in Nat /\ L >= 1 /\ (k > L \/ L <= 1)
  BY LenProperties DEF Stored
<1> HIDE DEF p, L
<1>2. L \in Nat /\ L >= 1 /\ L <= Num[p] /\ (L = Num[p] => L = 1)
  BY <1>1, <1>6
<1>3. \A n \in 1 .. L : lg[n] = Chain[p][n]
  BY <1>1, <1>2 DEF Stored, L
<1>4. ASSUME NEW x \in rows PROVE x \in Block \ {Genesis} /\ Agree(x, p, Num[x])
  <2>1. x \in Block \ {Genesis} /\ Agree(x, h, Num[x]) /\ Num[x] \in Nat \ {0} /\ Num[x] # Num[h]
    BY ChainType DEF Stored
  <2>2. Num[x] \in 1 .. Num[h] - 1
    BY <1>1, <2>1 DEF Agree
  <2> QED
    BY <1>1, <2>1, <2>2 DEF Agree
<1>5. ASSUME NEW n \in L + 1 .. Num[p] PROVE Chain[p][n] \in rows
  <2>1. n \in L + 1 .. Num[h] /\ n \in 1 .. Num[h] - 1 /\ n \in 1 .. Num[p]
    BY <1>1, <1>2
  <2>2. Chain[p][n] \in rv /\ Num[Chain[p][n]] = n
    BY <1>1, <2>1, ChainPrefix DEF Stored, L
  <2> QED
    BY <2>1, <2>2
<1> QED
  BY <1>1, <1>2, <1>3, <1>4, <1>5 DEF Stored, L, p

\* Logging the next block of the stored chain leaves that chain stored.
LEMMA StoredLog ==
    ASSUME NEW lg \in Seq(Block), NEW rv, NEW t \in Block, Stored(lg, rv, t),
           NEW v \in Block, v = Chain[t][Len(lg) + 1], Len(lg) + 1 < Num[t]
    PROVE  /\ Append(lg, v) \in Seq(Block) /\ Len(Append(lg, v)) = Len(lg) + 1
           /\ Stored(Append(lg, v), rv, t)
<1> DEFINE L == Len(lg)
           m == Append(lg, v)
<1>1. /\ L \in Nat /\ m \in Seq(Block) /\ Len(m) = L + 1 /\ m[L + 1] = v
      /\ \A i \in 1 .. L : m[i] = lg[i]
  BY AppendProperties, LenProperties
<1>2. Num[t] \in Nat
  BY ChainType
<1> HIDE DEF L, m
<1>3. \A n \in 1 .. L + 1 : m[n] = Chain[t][n]
  BY <1>1 DEF Stored, L
<1>4. \A n \in (L + 1) + 1 .. Num[t] : Chain[t][n] \in rv
  BY <1>1, <1>2 DEF Stored, L
<1>5. L >= 1 /\ L + 1 < Num[t]
  BY DEF Stored, L
<1> QED
  BY <1>1, <1>2, <1>3, <1>4, <1>5 DEF Stored, L, m

\* Dropping the row of a logged block leaves the chain stored.
LEMMA StoredTrim ==
    ASSUME NEW lg \in Seq(Block), NEW rv, NEW t \in Block, Stored(lg, rv, t),
           NEW x, Num[x] <= Len(lg)
    PROVE  Stored(lg, rv \ {x}, t)
<1>1. Len(lg) \in Nat /\ Num[t] \in Nat
  BY LenProperties, ChainType
<1>2. ASSUME NEW n \in Len(lg) + 1 .. Num[t] PROVE Chain[t][n] \in rv \ {x}
  <2>1. n \in 1 .. Num[t]
    BY <1>1
  <2>2. Num[Chain[t][n]] = n
    BY <2>1, ChainPrefix
  <2> QED
    BY <1>1, <2>2 DEF Stored
<1> QED
  BY <1>1, <1>2 DEF Stored

\* Tip, for any log and rows.
TipOf(lg, rv) ==
    LET above == {r \in rv : Num[r] > Len(lg)}
    IN  IF above = {} THEN Last(lg)
        ELSE CHOOSE r \in above : \A s \in above : Num[s] <= Num[r]

\* A replay of the stores ends at t.
LEMMA TipIs ==
    ASSUME NEW lg \in Seq(Block), NEW rv, NEW t \in Block, Stored(lg, rv, t)
    PROVE  TipOf(lg, rv) = t
<1> DEFINE above == {r \in rv : Num[r] > Len(lg)}
<1>1. Len(lg) \in Nat /\ Len(lg) >= 1 /\ Num[t] \in Nat /\ Chain[t][Num[t]] = t
  BY LenProperties, ChainType DEF Stored
<1>2. \A b \in rv : b \in Block /\ Num[b] \in Nat /\ Num[b] <= Num[t] /\ Chain[t][Num[b]] = b
  BY ChainType DEF Stored, Agree
<1>3. CASE Num[t] > Len(lg)
  <2>1. t \in above
    BY <1>1, <1>3 DEF Stored
  <2>2. \A s \in above : Num[s] <= Num[t]
    BY <1>2
  <2>3. ASSUME NEW r \in above, \A s \in above : Num[s] <= Num[r] PROVE r = t
    <3>1. Num[r] = Num[t]
      BY <1>1, <1>2, <2>1, <2>3
    <3> QED
      BY <1>1, <1>2, <3>1
  <2> DEFINE c == CHOOSE r \in above : \A s \in above : Num[s] <= Num[r]
  <2>4. TipOf(lg, rv) = c
    BY <2>1 DEF TipOf
  <2> HIDE DEF above
  <2>5. c \in above /\ \A s \in above : Num[s] <= Num[c]
    BY <2>1, <2>2
  <2> HIDE DEF c
  <2> QED
    BY <2>3, <2>4, <2>5
<1>4. CASE ~(Num[t] > Len(lg))
  <2>1. above = {}
    BY <1>1, <1>2, <1>4
  <2>2. TipOf(lg, rv) = Last(lg)
    BY <2>1 DEF TipOf
  <2>3. Len(lg) = Num[t] /\ lg[Len(lg)] = t
    BY <1>1, <1>4 DEF Stored
  <2> QED
    BY <2>2, <2>3 DEF Last
<1> QED
  BY <1>3, <1>4

-----------------------------------------------------------------------------
(* The branches of a switch. *)

\* k is the number of the last block that x and y share, and neither is on the
\* chain of the other.
ForkAt(x, y, k) ==
    k \in Nat \ {0} /\ k < Num[x] /\ k < Num[y] /\ Agree(x, y, k) /\ ~Agree(x, y, k + 1)

\* b is the part of the chain of x above block k, x first.
Above(b, x, k) ==
    /\ b \in Seq(Block) /\ Len(b) = Num[x] - k
    /\ \A i \in 1 .. Len(b) : b[i] = Chain[x][Num[x] + 1 - i]

\* Two blocks, neither on the chain of the other, have a fork.
LEMMA ForkExists ==
    ASSUME NEW x \in Block, NEW y \in Block, ~Agree(x, y, Num[x]), ~Agree(x, y, Num[y])
    PROVE  \E k \in Nat : ForkAt(x, y, k)
<1> DEFINE T == {n \in 1 .. Num[x] : Agree(x, y, n)}
<1>1. 1 \in T /\ Num[x] \in Nat /\ Num[y] \in Nat
  BY ChainRoot, ChainType DEF Agree
<1>2. PICK n \in T : \A m \in T : m <= n
  <2>1. T \in SUBSET Nat /\ T # {} /\ \A m \in T : m <= Num[x]
    BY <1>1
  <2> HIDE DEF T
  <2> QED
    BY <1>1, <2>1, GreatestNat
<1>3. n \in Nat \ {0} /\ Agree(x, y, n) /\ n # Num[x] /\ n # Num[y]
  BY <1>2
<1>4. n < Num[x] /\ n < Num[y]
  BY <1>1, <1>3 DEF Agree
<1>5. ~Agree(x, y, n + 1)
  BY <1>1, <1>2, <1>4
<1> QED
  BY <1>3, <1>4, <1>5 DEF ForkAt

\* A fork is the same seen from either side.
LEMMA ForkAtSym ==
    ASSUME NEW x, NEW y, NEW k, ForkAt(x, y, k)
    PROVE  ForkAt(y, x, k)
BY AgreeSym DEF ForkAt

\* fetch_branch_from gives the blocks above the fork.
LEMMA BranchIsAbove ==
    ASSUME NEW x \in Block, NEW y \in Block, NEW k, ForkAt(x, y, k)
    PROVE  Above(Branch(x, y), x, k)
<1> DEFINE shared == {n \in 1 .. Num[x] - 1 : n < Num[y] /\ Chain[x][n] = Chain[y][n]}
           top == CHOOSE n \in shared : \A m \in shared : m <= n
           part == SubSeq(Chain[x], k + 1, Num[x])
<1>1. /\ k \in Nat \ {0} /\ Num[x] \in Nat /\ Num[y] \in Nat /\ k < Num[x] /\ k < Num[y]
      /\ Chain[x] \in Seq(Block) /\ Len(Chain[x]) = Num[x]
  BY ChainType DEF ForkAt
<1>2. k \in shared
  BY <1>1 DEF ForkAt, Agree
<1>3. ASSUME NEW m \in shared PROVE m <= k
  <2>1. m \in Nat /\ Agree(x, y, m)
    BY <1>1 DEF Agree
  <2>2. ~(k + 1 \in 1 .. m)
    BY <2>1, AgreeBelow DEF ForkAt
  <2> QED
    BY <1>1, <2>1, <2>2
<1>4. top = k
  <2>1. shared \subseteq Nat
    BY <1>1
  <2> HIDE DEF shared
  <2>2. \A n \in shared : (\A m \in shared : m <= n) => n = k
    BY <1>1, <1>2, <1>3, <2>1
  <2> QED
    BY <1>2, <1>3, <2>2
<1>5. Branch(x, y) = Reverse(part)
  <2>1. Branch(x, y) = Reverse(SubSeq(Chain[x], (IF shared = {} THEN 0 ELSE top) + 1, Num[x]))
    BY DEF Branch
  <2> HIDE DEF shared, top
  <2> QED
    BY <1>2, <1>4, <2>1
<1> HIDE DEF shared, top
<1>6. /\ part \in Seq(Block) /\ Len(part) = Num[x] - k
      /\ \A i \in 1 .. Num[x] - k : part[i] = Chain[x][k + i]
  BY <1>1, SubSeqProperties
<1> HIDE DEF part
<1>7. Reverse(part) = [i \in 1 .. Num[x] - k |-> part[(Num[x] - k) - i + 1]]
  BY <1>6 DEF Reverse
<1>8. ASSUME NEW i \in 1 .. Num[x] - k
      PROVE  /\ part[(Num[x] - k) - i + 1] = Chain[x][Num[x] + 1 - i]
             /\ Chain[x][Num[x] + 1 - i] \in Block
  <2>1. (Num[x] - k) - i + 1 \in 1 .. Num[x] - k
    BY <1>1
  <2>2. k + ((Num[x] - k) - i + 1) = Num[x] + 1 - i /\ Num[x] + 1 - i \in 1 .. Num[x]
    BY <1>1
  <2> QED
    BY <1>6, <2>1, <2>2, ChainType
<1>9. /\ Reverse(part) \in Seq(Block) /\ Len(Reverse(part)) = Num[x] - k
      /\ \A i \in 1 .. Num[x] - k : Reverse(part)[i] = Chain[x][Num[x] + 1 - i]
  <2> DEFINE m == Num[x] - k
             q == Reverse(part)
  <2>1. m \in Nat /\ q = [i \in 1 .. m |-> part[m - i + 1]]
    BY <1>1, <1>7
  <2>2. \A i \in 1 .. m : q[i] = Chain[x][Num[x] + 1 - i] /\ q[i] \in Block
    BY <1>8, <2>1
  <2> HIDE DEF q, m
  <2>3. q \in [1 .. m -> Block]
    BY <2>1, <2>2
  <2>4. q \in Seq(Block) /\ Len(q) = m
    BY <2>1, <2>3, SeqDef
  <2> QED
    BY <2>2, <2>4 DEF q, m
<1> QED
  BY <1>5, <1>9 DEF Above

\* The blocks of a branch lead from the fork to its end.
LEMMA AboveLinks ==
    ASSUME NEW x \in Block, NEW k \in Nat \ {0}, k < Num[x], NEW b, Above(b, x, k),
           NEW i \in 1 .. Len(b)
    PROVE  /\ Len(b) \in Nat \ {0} /\ b[1] = x
           /\ b[i] \in Block \ {Genesis} /\ Num[b[i]] = Num[x] + 1 - i /\ Num[b[i]] > k
           /\ Agree(b[i], x, Num[b[i]])
           /\ Parent[b[i]] = IF i = Len(b) THEN Chain[x][k] ELSE b[i + 1]
           /\ Num[Parent[b[i]]] >= k
<1>1. Num[x] \in Nat /\ Len(b) = Num[x] - k
  BY ChainType DEF Above
<1> DEFINE n == Num[x] - i
<1>2. n \in 1 .. Num[x] - 1 /\ n + 1 \in 1 .. Num[x] /\ n + 1 = Num[x] + 1 - i /\ n >= k
  BY <1>1
<1>3. b[i] = Chain[x][n + 1]
  BY <1>2 DEF Above
<1>4. b[1] = x
  <2>1. 1 \in 1 .. Len(b) /\ Num[x] + 1 - 1 = Num[x]
    BY <1>1
  <2> QED
    BY <2>1, ChainType DEF Above
<1>5. b[i] \in Block \ {Genesis} /\ Num[b[i]] = n + 1 /\ Agree(b[i], x, n + 1)
      /\ Parent[b[i]] = Chain[x][n]
  BY <1>2, <1>3, ChainUp, AncestorAgrees
<1>6. i # Len(b) => i + 1 \in 1 .. Len(b) /\ Num[x] + 1 - (i + 1) = n
  BY <1>1
<1>7. i # Len(b) => b[i + 1] = Chain[x][n]
  BY <1>6 DEF Above
<1>8. i = Len(b) => n = k
  BY <1>1
<1>9. n \in 1 .. Num[x] /\ Num[Chain[x][n]] = n
  BY <1>1, <1>2, ChainPrefix
<1> HIDE DEF n
<1> QED
  BY <1>1, <1>2, <1>4, <1>5, <1>7, <1>8, <1>9
\* No block of the index outranks the best one, those left aside excepted.
LEMMA RankedTop ==
    ASSUME NEW o, NEW X, NEW h, Ranked(o, X, h), NEW c \in ToSet(o), c \notin X
    PROVE  ~Better(c, h)
BY DEF Ranked, ToSet

\* The greater and the smaller of two numbers.
LEMMA MaxMinOfTwo ==
    ASSUME NEW a \in Int, NEW b \in Int
    PROVE  /\ Max({a, b}) = IF a >= b THEN a ELSE b
           /\ Min({a, b}) = IF a <= b THEN a ELSE b
<1>1. Max({a, b}) = CHOOSE x \in {a, b} : \A y \in {a, b} : x >= y
  BY DEF Max
<1>2. Min({a, b}) = CHOOSE x \in {a, b} : \A y \in {a, b} : x <= y
  BY DEF Min
<1>3. \E x \in {a, b} : \A y \in {a, b} : x >= y
  OBVIOUS
<1>4. \E x \in {a, b} : \A y \in {a, b} : x <= y
  OBVIOUS
<1> QED
  BY <1>1, <1>2, <1>3, <1>4

-----------------------------------------------------------------------------
(* The inductive invariant. *)

Switching == pc \in {"pop", "apply", "unwind", "reapply"}
Adding    == pc \in {"log", "trim", "switch", "commit"}
Resting   == pc \in {"idle", "replay", "check"}

\* The head, or where the switch under way started.
Anchor == IF Switching THEN oldb[1] ELSE head

\* State and marks follow the head.
Basic ==
    /\ TypeOK /\ failed = {} /\ pc # "load" /\ call # "close"
    /\ db = Chain[head] /\ base <= Len(blog)
    /\ inChain = (Ancestors(head) \ {Genesis})
                    \cup (IF Adding /\ call = "produce" THEN {cur} ELSE {})

\* The durable stores hold the valid chain of t, which is the head unless the
\* node is on its way there.
Disk(t) ==
    /\ Stored(blog, rev, t) /\ Sound(t)
    /\ call # "replay" => t = head
    /\ call = "replay" => ~Switching /\ Len(blog) > 1 /\ Agree(head, t, Num[head])

\* The blocks up to number r have left the index; no block at which it
\* could still fork would have to be popped from below the log.
Tree(r, t) ==
    /\ r <= Len(blog) /\ head \in Index /\ Rooted(Index, Anchor, r)
    /\ (Len(blog) <= 1 /\ r = 0) \/ Settled(IF Switching THEN oldb[1] ELSE t, Len(blog))

AtRest(t) ==
    Resting =>
        /\ fhead = head /\ Ranked(order, {}, head)
        /\ (pc = "idle") <=> (call # "replay")
        /\ pc = "check" => head = t

InAdd(r, t) ==
    Adding =>
        /\ cur # Genesis /\ ~Better(Parent[cur], head)
        /\ Ranked(order, {cur}, head) /\ Ranked(order, {}, fhead)
        /\ fhead = IF Better(cur, head) THEN cur ELSE head
        /\ call = "produce" => Parent[cur] = head /\ cur \notin Bad /\ pc # "switch"
        /\ call = "replay" => Parent[cur] = head /\ Agree(cur, t, Num[cur])
        /\ pc = "commit" => call = "produce"
        /\ pc \in {"log", "trim"} => victim = Chain[head][r + 1] /\ r + 1 < Lib[fhead]
        /\ pc = "trim" => r + 1 <= Len(blog) /\ Settled(t, Len(blog))

\* The chains of the old head a and the new one x fork at k, above the log and
\* above the root of the index.
Branches(a, x, k, r) ==
    /\ ForkAt(a, x, k) /\ Above(oldb, a, k) /\ Above(newb, x, k)
    /\ k > r /\ (k > Len(blog) \/ Len(blog) <= 1)
    /\ Better(x, a) /\ Sound(a) /\ Ranked(order, {x}, a)

\* Where the head is between the two branches.
OnBranch(a, x) ==
    /\ pc \in {"pop", "apply"} => fhead = x /\ Ranked(order, {}, x)
    /\ pc \in {"unwind", "reapply"} => fhead = a /\ Ranked(order, {}, a)
    /\ pc = "pop" => pos \in 1 .. Len(oldb) /\ head = oldb[pos]
    /\ pc = "apply" => pos \in 1 .. Len(newb) /\ head = Parent[newb[pos]]
    /\ pc = "unwind" => pos \in 2 .. Len(newb) /\ head = newb[pos]
    /\ pc = "reapply" => pos \in 1 .. Len(oldb) /\ head = Parent[oldb[pos]]

InSwitch(r) ==
    Switching =>
        /\ call = "push" /\ oldb[1] \in Block /\ OnBranch(oldb[1], cur)
        /\ \E k \in Nat : Branches(oldb[1], cur, k, r)

Core(r, t) == Disk(t) /\ Tree(r, t) /\ AtRest(t) /\ InAdd(r, t) /\ InSwitch(r)

IInv == Basic /\ \E r \in Nat, t \in Block : Core(r, t)

-----------------------------------------------------------------------------
\* The head is on the stored chain, which is valid up to it.
LEMMA HeadOnTip ==
    ASSUME Basic, NEW r \in Nat, NEW t \in Block, Core(r, t)
    PROVE  Agree(head, t, Num[head]) /\ ~Better(head, t) /\ Sound(head)
<1>1. head \in Block
  BY DEF Basic, TypeOK
<1>2. Agree(head, t, Num[head])
  BY <1>1, ChainType DEF Core, Disk, Agree
<1>3. Sound(t)
  BY DEF Core, Disk
<1> QED
  BY <1>1, <1>2, <1>3, BetterThanAncestor, SoundBelow

\* fork_database::add, for a block that links to the index.
LEMMA AddBlock ==
    ASSUME Basic, NEW r \in Nat, NEW t \in Block, Core(r, t), Resting,
           NEW b \in Block, b # Genesis, Parent[b] \in Index,
           NEW caller \in {"push", "produce", "replay"}, add(b, caller),
           caller \in {"push", "produce"} => pc = "idle",
           caller = "produce" => Parent[b] = head /\ b \notin Bad,
           caller = "replay" => pc = "replay" /\ Parent[b] = head /\ Agree(b, t, Num[b]),
           inChain' = inChain \cup (IF caller = "produce" THEN {b} ELSE {}),
           UNCHANGED <<state, durable, switch, failed, restarts>>
    PROVE  Basic' /\ Core(r, t)'
<1> USE DEF Switching, Adding, Resting
<1>1. /\ head \in Block /\ order \in Seq(Block) /\ Index \subseteq Block /\ blog \in Seq(Block)
      /\ order' = Append(order, b) /\ cur' = b /\ call' = caller /\ fhead' = Best(order')
      /\ Rooted(Index, head, r) /\ Ranked(order, {}, head)
      /\ UNCHANGED <<head, db, base, rev, blog, oldb, newb, pos, failed, restarts>>
  BY DEF Basic, TypeOK, Core, Tree, Anchor, AtRest, Index, Rooted, add, state, durable, switch
<1>2. order' \in Seq(Block) /\ Index' = Index \cup {b}
  BY <1>1, ToSetAppend DEF Index
<1>3. Rooted(Index', head, r)
  BY <1>1, <1>2, RootedAppend
<1>4. /\ Ranked(order', {b}, head)
      /\ Ranked(order', {}, IF Better(b, head) THEN b ELSE head)
  BY <1>1, RankedAppend
<1>5. fhead' = IF Better(b, head) THEN b ELSE head
  BY <1>1, <1>2, <1>4, BestIs
<1>6. ~Better(Parent[b], head)
  BY <1>1, RankedTop DEF Index
<1>7. /\ Oldest(order', inChain') = {Chain[head][r + 1]}
      /\ Chain[head][r + 1] \in Block
  <2>1. inChain = Ancestors(head) \ {Genesis}
    BY DEF Basic
  <2>2. r + 1 \in 1 .. Num[head] /\ Num[Parent[b]] > r
    BY <1>1, ChainType DEF Rooted
  <2>3. ASSUME NEW x \in inChain', Num[x] = r + 1 PROVE x = Chain[head][r + 1]
    <3>1. x # b
      BY <1>1, <2>2, <2>3, ChainParent, ChainType
    <3>2. x \in Ancestors(head)
      BY <2>1, <3>1
    <3>3. x \in Block /\ Agree(x, head, Num[x])
      BY <1>1, <3>2, AncestorIff
    <3> QED
      BY <2>3, <3>3, ChainType DEF Agree
  <2>4. ASSUME r > 0 PROVE Chain[head][r + 1] \in inChain'
    <3>1. Chain[head][r + 1] \in Ancestors(head)
      BY <2>2 DEF Ancestors
    <3>2. Num[Chain[head][r + 1]] = r + 1
      BY <1>1, <2>2, ChainPrefix
    <3> QED
      BY <2>1, <2>4, <3>1, <3>2, TreeAssumption
  <2>5. Rooted(ToSet(order'), head, r)
    BY <1>3 DEF Index
  <2>6. Marking(inChain', head, r)
    BY <2>3, <2>4 DEF Marking
  <2> QED
    BY <1>2, <2>5, <2>6, OldestIs
<1>8. \/ /\ pc' = "log" /\ victim' = Chain[head][r + 1]
         /\ Num[Chain[head][r + 1]] < Lib[fhead']
      \/ pc' = AfterAdd(caller) /\ UNCHANGED victim
  BY <1>7 DEF add
<1>9. pc' \in {"log", "switch", "commit"} /\ (pc' = "switch" => caller # "produce")
      /\ (pc' = "commit" => caller = "produce")
  BY <1>8 DEF AfterAdd
<1>10. Num[Chain[head][r + 1]] = r + 1
  <2>1. r + 1 \in 1 .. Num[head]
    BY <1>1, ChainType DEF Rooted
  <2> QED
    BY <1>1, <2>1, ChainPrefix
<1>11. Basic'
  <2>1. TypeOK'
    BY <1>1, <1>2, <1>5, <1>7, <1>8, <1>9 DEF Basic, TypeOK, Phase
  <2>2. inChain' = (Ancestors(head) \ {Genesis}) \cup (IF caller = "produce" THEN {b} ELSE {})
    BY DEF Basic
  <2> QED
    BY <1>1, <1>9, <2>1, <2>2 DEF Basic
<1>12. Disk(t)'
  <2>1. (call = "replay") <=> (caller = "replay")
    BY DEF Core, AtRest
  <2> QED
    BY <1>1, <1>9, <2>1 DEF Core, Disk
<1>13. Tree(r, t)'
  BY <1>1, <1>2, <1>3, <1>9 DEF Core, Tree, Anchor
<1>14. AtRest(t)' /\ InSwitch(r)'
  BY <1>9 DEF AtRest, InSwitch
<1>15. InAdd(r, t)'
  <2>1. Ranked(order, {cur}, head)' /\ Ranked(order, {}, fhead)'
    BY <1>1, <1>4, <1>5
  <2>2. (fhead = IF Better(cur, head) THEN cur ELSE head)'
    BY <1>1, <1>5
  <2>3. pc' # "trim" /\ (pc' = "log" => victim' = Chain[head][r + 1] /\ r + 1 < Lib[fhead'])
    BY <1>8, <1>9, <1>10 DEF AfterAdd
  <2> QED
    BY <1>1, <1>6, <1>9, <2>1, <2>2, <2>3 DEF InAdd
<1> QED
  BY <1>11, <1>12, <1>13, <1>14, <1>15 DEF Core

\* A block from a peer is added.
LEMMA PushBlock ==
    ASSUME IInv, NEW b \in Block, push_block(b)
    PROVE  IInv'
<1>1. PICK r \in Nat, t \in Block : Core(r, t)
  BY DEF IInv
<1>2. Basic' /\ Core(r, t)'
  BY <1>1, AddBlock DEF IInv, push_block, Resting
<1> QED
  BY <1>2 DEF IInv

\* A block produced here is added.
LEMMA ProduceBlock ==
    ASSUME IInv, NEW b \in Block, produce_block(b)
    PROVE  IInv'
<1>1. PICK r \in Nat, t \in Block : Core(r, t)
  BY DEF IInv
<1>2. head \in Index /\ b \notin Bad
  BY <1>1, TreeAssumption DEF Core, Tree, produce_block
<1>3. Basic' /\ Core(r, t)'
  BY <1>1, <1>2, AddBlock DEF IInv, produce_block, Resting
<1> QED
  BY <1>3 DEF IInv
-----------------------------------------------------------------------------
(* Pruning. *)

\* The block being pruned is on the chain of the head and of the new best block,
\* and no branch that leaves it out outranks the head.
LEMMA Pruned ==
    ASSUME Basic, NEW r \in Nat, NEW t \in Block, Core(r, t), pc \in {"log", "trim"}
    PROVE  /\ victim = Chain[t][r + 1] /\ victim \in Block /\ Num[victim] = r + 1
           /\ r + 1 < Num[head] /\ r + 1 < Num[t]
           /\ Agree(fhead, head, (r + 1) + 1) /\ Settled(t, r + 1)
<1> USE DEF Switching, Adding, Resting
<1>1. /\ head \in Block /\ fhead \in Block /\ cur \in Block /\ cur # Genesis
      /\ ~Better(Parent[cur], head) /\ fhead \in {cur, head}
      /\ victim = Chain[head][r + 1] /\ r + 1 < Lib[fhead]
  BY DEF Basic, TypeOK, Core, InAdd
<1>2. fhead # Genesis => ~Better(Parent[fhead], head)
  <2>1. CASE fhead = cur
    BY <1>1, <2>1
  <2>2. CASE fhead = head
    BY <1>1, <2>2, ParentAgrees, ChainParent, BetterThanAncestor
  <2> QED
    BY <1>1, <2>1, <2>2
<1>3. Agree(fhead, head, (r + 1) + 1) /\ Settled(head, r + 1)
  BY <1>1, <1>2, IrreversibleIsSettled
<1>4. Agree(head, t, Num[head]) /\ ~Better(head, t)
  BY HeadOnTip
<1>5. Num[head] \in Nat /\ Num[t] \in Nat /\ r + 1 < Num[head] /\ r + 1 < Num[t]
  BY <1>1, <1>3, <1>4, ChainType DEF Agree
<1>6. Agree(head, t, r + 1) /\ Agree(head, t, (r + 1) + 1)
  BY <1>1, <1>4, <1>5, AgreeBelow
<1>7. Settled(t, r + 1)
  BY <1>1, <1>3, <1>4, <1>6, SettledUp, AgreeSym
<1>8. victim \in Block /\ Num[victim] = r + 1
  <2>1. r + 1 \in 1 .. Num[head]
    BY <1>5
  <2> QED
    BY <1>1, <2>1, ChainPrefix
<1> QED
  BY <1>1, <1>3, <1>5, <1>6, <1>7, <1>8 DEF Agree

\* on_irreversible logs a block of the stored chain, the next one or one the
\* log has already.
LEMMA StepLogBlock ==
    ASSUME IInv, LogBlock
    PROVE  /\ IInv' /\ Tip' = Tip
           /\ \/ UNCHANGED blog
              \/ Len(blog) < Len(Chain[Tip]) /\ blog' = Append(blog, Chain[Tip][Len(blog) + 1])
<1> USE DEF Switching, Adding, Resting
<1>1. PICK r \in Nat, t \in Block : Core(r, t)
  BY DEF IInv
<1> DEFINE L == Len(blog)
<1>2. pc = "log" /\ Basic /\ blog \in Seq(Block) /\ L \in Nat /\ base \in Nat
      /\ Stored(blog, rev, t) /\ r <= L /\ L >= 1 /\ head \in Block /\ db = Chain[head]
  BY <1>1, LenProperties DEF LogBlock, IInv, Basic, TypeOK, Core, Disk, Tree, Stored
<1>3. /\ victim = Chain[t][r + 1] /\ victim \in Block /\ Num[victim] = r + 1
      /\ r + 1 < Num[t] /\ Settled(t, r + 1)
  BY <1>1, <1>2, Pruned
<1>4. r + 1 > L => r = L /\ Parent[victim] = Last(blog)
  <2> SUFFICES ASSUME r = L PROVE Parent[victim] = Last(blog)
    BY <1>2
  <2>1. L \in 1 .. Num[t] - 1
    BY <1>2, <1>3, ChainType
  <2>2. Parent[Chain[t][L + 1]] = Chain[t][L]
    BY <2>1, ChainUp
  <2>3. Last(blog) = Chain[t][L]
    BY <1>2 DEF Last, Stored
  <2> QED
    BY <1>3, <2>2, <2>3
<1>5. /\ base' = Max({base, Min({Num[victim], Len(db)})})
      /\ blog' = IF Num[victim] > L THEN Append(blog, victim) ELSE blog
      /\ pc' = "trim"
      /\ UNCHANGED <<forkdb, head, db, rev, call, cur, victim, switch, failed, restarts>>
  BY <1>2, <1>3, <1>4 DEF LogBlock
<1>6. /\ blog' \in Seq(Block) /\ Len(blog') \in Nat /\ Len(blog') >= L /\ Len(blog') >= r + 1
      /\ Stored(blog', rev, t) /\ Settled(t, Len(blog'))
  <2>1. CASE r + 1 > L
    <3>1. r = L /\ blog' = Append(blog, victim)
      BY <1>2, <1>3, <1>4, <1>5, <2>1
    <3>2. blog' \in Seq(Block) /\ Len(blog') = L + 1 /\ Stored(blog', rev, t)
      BY <1>2, <1>3, <3>1, StoredLog
    <3> QED
      BY <1>2, <1>3, <3>1, <3>2
  <2>2. CASE ~(r + 1 > L)
    <3>1. blog' = blog
      BY <1>2, <1>3, <1>5, <2>2
    <3>2. Settled(t, L)
      <4>1. CASE r + 1 = L
        BY <1>3, <4>1
      <4>2. CASE r + 1 < L
        <5>1. t = IF Switching THEN oldb[1] ELSE t
          BY <1>2
        <5>3. L > 1
          BY <1>1, <1>2, <4>2
        <5>2. Settled(IF Switching THEN oldb[1] ELSE t, L)
          BY <1>1, <5>3 DEF Core, Tree
        <5> QED
          BY <5>1, <5>2
      <4> QED
        BY <1>2, <2>2, <4>1, <4>2
    <3> QED
      BY <1>2, <2>2, <3>1, <3>2
  <2> QED
    BY <2>1, <2>2
<1>7. base' \in Nat /\ base' <= Len(blog')
  <2>1. Len(db) \in Nat /\ base <= L
    BY <1>2, ChainType DEF Basic
  <2> DEFINE m == Min({r + 1, Len(db)})
  <2>2. m \in Nat /\ m <= r + 1
    <3>1. r + 1 \in Int /\ Len(db) \in Int
      BY <2>1
    <3>2. m = IF r + 1 <= Len(db) THEN r + 1 ELSE Len(db)
      BY <3>1, MaxMinOfTwo
    <3> QED
      BY <2>1, <3>2
  <2>3. base' = Max({base, m})
    BY <1>3, <1>5
  <2> HIDE DEF m
  <2>4. base \in Int /\ m \in Int
    BY <1>2, <2>2
  <2>5. Max({base, m}) = IF base >= m THEN base ELSE m
    BY <2>4, MaxMinOfTwo
  <2> QED
    BY <1>2, <1>6, <2>1, <2>2, <2>3, <2>5
<1> HIDE DEF L
<1>8. /\ UNCHANGED <<order, inChain, fhead, head, db, rev, call, cur, victim,
                     oldb, newb, pos, failed, restarts>>
      /\ pc' = "trim" /\ pc = "log"
  BY <1>2, <1>5 DEF forkdb, switch
<1>9. Basic'
  BY <1>2, <1>6, <1>7, <1>8 DEF Basic, TypeOK, Phase
<1>10. Disk(t)'
  BY <1>1, <1>2, <1>6, <1>8 DEF Core, Disk, L
<1>11. Tree(r, t)'
  BY <1>1, <1>2, <1>6, <1>8 DEF Core, Tree, Anchor, Index
<1>12. AtRest(t)' /\ InSwitch(r)'
  BY <1>8 DEF AtRest, InSwitch
<1>13. InAdd(r, t)'
  BY <1>1, <1>6, <1>8 DEF Core, InAdd
<1>14. Tip = t /\ Tip' = t
  BY <1>1, <1>2, <1>6, <1>8, TipIs DEF Tip, TipOf
<1>15. \/ UNCHANGED blog
       \/ Len(blog) < Len(Chain[t]) /\ blog' = Append(blog, Chain[t][Len(blog) + 1])
  BY <1>1, <1>2, <1>3, <1>4, <1>5, ChainType DEF L
<1> QED
  BY <1>1, <1>9, <1>10, <1>11, <1>12, <1>13, <1>14, <1>15 DEF IInv, Core

\* on_irreversible drops the row of a logged block.
LEMMA StepTrimRow ==
    ASSUME IInv, TrimRow
    PROVE  IInv' /\ Tip' = Tip /\ UNCHANGED blog
<1> USE DEF Switching, Adding, Resting
<1>1. PICK r \in Nat, t \in Block : Core(r, t)
  BY DEF IInv
<1>2. pc = "trim" /\ Basic /\ blog \in Seq(Block) /\ Stored(blog, rev, t) /\ r + 1 <= Len(blog)
  BY <1>1 DEF TrimRow, IInv, Basic, TypeOK, Core, Disk, InAdd
<1>3. Num[LowestRow] <= r + 1 /\ rev' = rev \ {LowestRow}
  BY <1>1, <1>2, Pruned DEF TrimRow, Trimmable
<1>4. Num[LowestRow] <= Len(blog)
  <2>1. rev # {} /\ rev \subseteq Block
    BY <1>2 DEF TrimRow, Trimmable, Basic, TypeOK
  <2>2. \E x \in rev : \A s \in rev : Num[x] <= Num[s]
    <3> DEFINE T == {Num[x] : x \in rev}
    <3>1. T \in SUBSET Nat /\ T # {}
      BY <2>1, ChainType
    <3>2. PICK n \in T : \A m \in T : n <= m
      BY <3>1, LeastNat
    <3> QED
      BY <3>2
  <2>3. LowestRow \in rev
    BY <2>2 DEF LowestRow
  <2>4. Num[LowestRow] \in Nat /\ Len(blog) \in Nat
    BY <1>2, <2>1, <2>3, ChainType, LenProperties
  <2> QED
    BY <1>2, <1>3, <2>4
<1>5. Stored(blog, rev', t)
  BY <1>2, <1>3, <1>4, StoredTrim
<1>6. UNCHANGED <<order, inChain, fhead, head, db, base, blog, pc, call, cur, victim,
                  oldb, newb, pos, failed, restarts>>
  BY DEF TrimRow, forkdb, state, switch
<1>7. Basic'
  BY <1>2, <1>3, <1>6 DEF Basic, TypeOK, Phase
<1>8. Core(r, t)'
  BY <1>1, <1>5, <1>6 DEF Core, Disk, Tree, AtRest, InAdd, InSwitch, Anchor, Index, OnBranch, Branches
<1>9. Tip' = Tip
  <2>1. Tip = TipOf(blog, rev) /\ Tip' = TipOf(blog, rev')
    BY <1>6 DEF Tip, TipOf
  <2> QED
    BY <1>1, <1>2, <1>5, <2>1, TipIs
<1> QED
  BY <1>1, <1>6, <1>7, <1>8, <1>9 DEF IInv

\* prune removes the block and its rivals, never the head or the best block.
LEMMA StepEndPrune ==
    ASSUME IInv, EndPrune
    PROVE  IInv'
<1> USE DEF Switching, Adding, Resting
<1>1. PICK r \in Nat, t \in Block : Core(r, t)
  BY DEF IInv
<1> DEFINE rivals == {b \in Index \ {victim} : Num[b] = Num[victim]}
           G == {victim} \cup UNION {Subtree(b) : b \in rivals}
<1>2. /\ pc = "trim" /\ Basic /\ order \in Seq(Block) /\ head \in Block /\ fhead \in Block
      /\ Rooted(Index, head, r) /\ Ranked(order, {cur}, head) /\ Ranked(order, {}, fhead)
      /\ call \in {"push", "produce", "replay"} /\ r + 1 <= Len(blog) /\ Settled(t, Len(blog))
      /\ victim = Chain[head][r + 1]
  BY <1>1 DEF EndPrune, IInv, Basic, TypeOK, Core, Tree, Anchor, InAdd
<1>3. /\ Num[victim] = r + 1 /\ r + 1 < Num[head] /\ Agree(fhead, head, (r + 1) + 1)
  BY <1>1, <1>2, Pruned
<1>4. /\ order' = Without(order, G)
      /\ fhead' = IF rivals = {} THEN fhead ELSE Best(order')
      /\ pc' = AfterAdd(call)
      /\ UNCHANGED <<inChain, state, durable, call, cur, victim, switch, failed, restarts>>
  BY <1>2 DEF EndPrune
<1>5. order' \in Seq(Block) /\ Index' = Index \ G
  BY <1>2, <1>4, WithoutIs DEF Index
<1>6. Rooted(Index', head, r + 1)
  <2>1. Rooted(Index, head, r) /\ r + 1 < Num[head] /\ victim = Chain[head][r + 1]
    BY <1>2, <1>3
  <2>2. rivals = {b \in Index \ {victim} : Num[b] = Num[victim]}
    OBVIOUS
  <2> HIDE DEF rivals
  <2>3. Rooted(Index \ G, head, r + 1)
    BY <2>1, <2>2, RootedPrune
  <2> QED
    BY <1>5, <2>3
<1>7. fhead \in Index'
  <2>1. fhead \in Index
    BY <1>2, RankedIn DEF Index
  <2>2. Rooted(Index, fhead, r)
    BY <1>2, <2>1, RootedMove
  <2>3. Agree(fhead, head, r + 1) /\ r + 1 < Num[fhead]
    BY <1>2, <1>3, AgreeBelow, ChainType DEF Agree
  <2>4. victim = Chain[fhead][r + 1]
    BY <1>2, <2>3 DEF Agree
  <2>5. Rooted(Index', fhead, r + 1)
    <3>1. r + 1 < Num[fhead]
      BY <2>3
    <3>2. rivals = {b \in Index \ {victim} : Num[b] = Num[victim]}
      OBVIOUS
    <3> HIDE DEF rivals
    <3>3. Rooted(Index \ G, fhead, r + 1)
      BY <2>2, <2>4, <3>1, <3>2, RootedPrune
    <3> QED
      BY <1>5, <3>3
  <2> QED
    BY <2>5 DEF Rooted
<1>8. head \in Index' /\ head \notin G /\ fhead \notin G
  BY <1>5, <1>6, <1>7 DEF Rooted
<1> HIDE DEF G, rivals
<1>9. Ranked(order', {cur}, head) /\ Ranked(order', {}, fhead)
  BY <1>2, <1>4, <1>8, RankedWithout
<1>10. fhead' = fhead
  BY <1>4, <1>5, <1>9, BestIs
<1>11. /\ pc' \in {"switch", "commit"} /\ ((pc' = "commit") <=> (call = "produce"))
       /\ UNCHANGED <<inChain, fhead, head, db, base, rev, blog, call, cur, victim,
                      oldb, newb, pos, failed, restarts>>
  BY <1>2, <1>4, <1>10 DEF AfterAdd, state, durable, switch
<1>12. Basic'
  BY <1>2, <1>5, <1>11 DEF Basic, TypeOK, Phase
<1>13. Disk(t)'
  BY <1>1, <1>2, <1>11 DEF Core, Disk
<1>14. Tree(r + 1, t)'
  BY <1>2, <1>6, <1>8, <1>11 DEF Tree, Anchor
<1>15. AtRest(t)' /\ InSwitch(r + 1)'
  BY <1>11 DEF AtRest, InSwitch
<1>16. InAdd(r + 1, t)'
  BY <1>1, <1>2, <1>9, <1>11 DEF Core, InAdd
<1>17. r + 1 \in Nat
  OBVIOUS
<1> QED
  BY <1>12, <1>13, <1>14, <1>15, <1>16, <1>17 DEF IInv, Core


-----------------------------------------------------------------------------
(* Applying and popping one block. *)

\* A valid block on top of the head finds its row free and leads to its own chain.
LEMMA ApplyOne ==
    ASSUME Basic, NEW r \in Nat, NEW t \in Block, Core(r, t), ~(Adding /\ call = "produce"),
           NEW b \in Block, b # Genesis, Parent[b] = head, b \notin Bad,
           call = "replay" => Agree(b, t, Num[b]), NEW u, u = IF call = "replay" THEN t ELSE b
    PROVE  /\ RowFree(b)
           /\ /\ apply_block(b) /\ pc' \in {"idle", "replay", "apply", "reapply"}
              /\ call = "replay" => pc' = "replay"
              /\ oldb' \in Seq(Block) /\ newb' \in Seq(Block) /\ pos' \in Nat
              => Basic' /\ Disk(u)'
<1>1. /\ blog \in Seq(Block) /\ rev \subseteq Block /\ head \in Block /\ base \in Nat
      /\ db = Chain[head] /\ inChain = Ancestors(head) \ {Genesis} /\ base <= Len(blog)
      /\ Stored(blog, rev, t) /\ Sound(t) /\ (call # "replay" => t = head)
      /\ (call = "replay" => Len(blog) > 1)
  BY DEF Basic, TypeOK, Core, Disk
<1>2. call # "replay" => Stored(blog, rev \cup {b}, b) /\ \A x \in rev : Num[x] # Num[b]
  BY <1>1, StoredExtend
<1>3. call # "replay" => Sound(b)
  BY <1>1, SoundExtend
<1>4. RowFree(b)
  BY <1>2 DEF RowFree
<1>5. ASSUME /\ apply_block(b) /\ pc' \in {"idle", "replay", "apply", "reapply"}
             /\ call = "replay" => pc' = "replay"
             /\ oldb' \in Seq(Block) /\ newb' \in Seq(Block) /\ pos' \in Nat
      PROVE  Basic' /\ Disk(u)'
  <2>1. /\ head' = b /\ db' = Append(db, b) /\ base' = IF SkipSession(b) THEN Num[b] ELSE base
        /\ rev' = IF call = "replay" THEN rev ELSE rev \cup {b}
        /\ inChain' = inChain \cup {b}
        /\ UNCHANGED <<order, fhead, blog, call, cur, victim, failed, restarts>>
    BY <1>5 DEF apply_block
  <2>2. db' = Chain[b]
    BY <1>1, <2>1, ChainParent
  <2>3. inChain' = Ancestors(b) \ {Genesis}
    BY <1>1, <2>1, AncestorsStep
  <2>4. base' \in Nat /\ base' <= Len(blog)
    BY <1>1, <2>1, ChainType DEF SkipSession
  <2>5. ~Adding'
    BY <1>5 DEF Adding
  <2>6. db' \in Seq(Block) /\ inChain' \subseteq Block /\ rev' \subseteq Block
    <3>1. inChain \subseteq Block
      BY DEF Basic, TypeOK
    <3> QED
      BY <1>1, <2>1, <2>2, <3>1, ChainType
  <2>7. TypeOK'
    BY <1>5, <2>1, <2>4, <2>6 DEF Basic, TypeOK, Phase
  <2>8. Basic'
    BY <1>5, <2>1, <2>2, <2>3, <2>4, <2>5, <2>7 DEF Basic
  <2>9. Disk(u)'
    <3>1. CASE call = "replay"
      BY <1>1, <1>5, <2>1, <3>1 DEF Disk, Switching
    <3>2. CASE call # "replay"
      BY <1>2, <1>3, <2>1, <3>2 DEF Disk
    <3> QED
      BY <3>1, <3>2
  <2> QED
    BY <2>8, <2>9
<1> QED
  BY <1>4, <1>5

\* Popping the head of a branch leads to the chain of its parent.
LEMMA PopHead ==
    ASSUME Basic, NEW r \in Nat, NEW t \in Block, Core(r, t), Switching, call = "push",
           head # Genesis, NEW k \in Nat, k >= 1, k < Num[head], k > Len(blog) \/ Len(blog) <= 1,
           k > r, NEW p, p = Parent[head]
    PROVE  /\ Poppable(head)
           /\ pop_block(head) /\ Switching' /\ pos' \in Nat => Basic' /\ Disk(p)'
<1>1. /\ blog \in Seq(Block) /\ rev \subseteq Block /\ head \in Block /\ base \in Nat
      /\ db = Chain[head] /\ inChain = Ancestors(head) \ {Genesis} /\ base <= Len(blog)
      /\ Stored(blog, rev, head) /\ Sound(head)
  BY DEF Basic, TypeOK, Core, Disk, Adding, Switching
<1>2. /\ Parent[head] \in Block /\ Num[Parent[head]] = Num[head] - 1 /\ Num[head] \in Nat
      /\ Chain[head] = Append(Chain[Parent[head]], head)
      /\ Chain[head][Num[head] - 1] = Parent[head] /\ Agree(Parent[head], head, Num[Parent[head]])
  BY <1>1, ChainParent, ChainType, ParentAgrees
<1>3. Poppable(head)
  <2>1. head \in Index /\ \A n \in r + 1 .. Num[head] : Chain[head][n] \in Index
    BY DEF Core, Tree, Rooted
  <2>2. Num[head] - 1 \in r + 1 .. Num[head]
    BY <1>2
  <2> QED
    BY <1>2, <2>1, <2>2 DEF Poppable
<1>4. ASSUME pop_block(head), Switching', pos' \in Nat
      PROVE  Basic' /\ Disk(p)'
  <2>1. /\ inChain' = inChain \ {head} /\ rev' = {x \in rev : Num[x] # Num[head]}
        /\ head' = Parent[head]
        /\ db' = IF Len(db) > base THEN SubSeq(db, 1, Len(db) - 1) ELSE db
        /\ UNCHANGED <<base, order, fhead, blog, call, cur, victim, oldb, newb, failed, restarts>>
    BY <1>4 DEF pop_block
  <2>2. Len(db) = Num[head] /\ Len(db) > base
    <3>1. Len(db) = Num[head] /\ Len(blog) \in Nat
      BY <1>1, ChainType, LenProperties
    <3> QED
      BY <1>1, <1>2, <3>1
  <2>3. db' = Chain[Parent[head]]
    <3>1. Chain[Parent[head]] \in Seq(Block) /\ Len(Chain[Parent[head]]) = Num[head] - 1
      BY <1>2, ChainType
    <3>2. db' = SubSeq(Append(Chain[Parent[head]], head), 1, Num[head] - 1)
      BY <1>1, <1>2, <2>1, <2>2
    <3> QED
      BY <1>1, <1>2, <3>1, <3>2
  <2>4. inChain' = Ancestors(Parent[head]) \ {Genesis}
    BY <1>1, <2>1, AncestorsStep
  <2>5. Stored(blog, rev', p) /\ Sound(p)
    BY <1>1, <1>2, <2>1, StoredPop, SoundBelow
  <2>6. ~Adding' /\ pc' \in Phase /\ pc' # "load"
    BY <1>4 DEF Adding, Switching, Phase
  <2>7. TypeOK'
    <3>1. db' \in Seq(Block) /\ inChain' \subseteq Block
      BY <1>2, <2>1, <2>3, ChainType DEF Basic, TypeOK
    <3> QED
      BY <1>1, <1>2, <1>4, <2>1, <2>6, <3>1 DEF Basic, TypeOK
  <2>8. Basic'
    BY <2>1, <2>3, <2>4, <2>6, <2>7 DEF Basic
  <2> QED
    BY <2>1, <2>5, <2>8 DEF Disk
<1> QED
  BY <1>3, <1>4
-----------------------------------------------------------------------------
(* maybe_switch_forks. *)

\* maybe_switch_forks finds the head it has.
LEMMA StepKeepHead ==
    ASSUME IInv, KeepHead
    PROVE  IInv'
<1> USE DEF Switching, Adding, Resting
<1>1. PICK r \in Nat, t \in Block : Core(r, t)
  BY DEF IInv
<1>2. /\ pc = "switch" /\ fhead = head /\ pc' = IF call = "replay" THEN "replay" ELSE "idle"
      /\ UNCHANGED <<order, inChain, fhead, head, db, base, rev, blog, call, cur, victim,
                     oldb, newb, pos, failed, restarts>>
  BY DEF KeepHead, Return, forkdb, state, durable, switch
<1>3. Basic'
  BY <1>1, <1>2 DEF IInv, Basic, TypeOK, Phase, Core, InAdd
<1>4. Disk(t)' /\ Tree(r, t)'
  BY <1>1, <1>2 DEF Core, Disk, Tree, Anchor, Index
<1>5. AtRest(t)' /\ InAdd(r, t)' /\ InSwitch(r)'
  BY <1>1, <1>2 DEF Core, InAdd, AtRest, InSwitch
<1> QED
  BY <1>3, <1>4, <1>5 DEF IInv, Core

\* A new head is the block just added; when it links to the old one, it is valid
\* unless apply_block rejects it for its content.
LEMMA NewHead ==
    ASSUME Basic, NEW r \in Nat, NEW t \in Block, Core(r, t), pc = "switch", fhead # head
    PROVE  /\ fhead = cur /\ Better(cur, head) /\ call \in {"push", "replay"} /\ cur \in Index
           /\ Parent[cur] = head => (Applies(cur) <=> cur \notin Bad)
<1>1. fhead = cur /\ Better(cur, head) /\ call \in {"push", "replay"} /\ Ranked(order, {}, cur)
  BY DEF Basic, TypeOK, Core, InAdd, Adding
<1>2. Len(db) = Num[head]
  BY ChainType DEF Basic, TypeOK
<1>3. cur \in Index
  BY <1>1, RankedIn DEF Index
<1> QED
  BY <1>1, <1>2, <1>3 DEF Applies

\* When the head moves up to x, no block below the log forks off x either.
LEMMA SettledAt ==
    ASSUME NEW h \in Block, NEW x \in Block, NEW n \in Nat, n >= 1, Better(x, h), Settled(h, n)
    PROVE  Settled(x, n) /\ Agree(x, h, n + 1)
<1>1. Agree(x, h, n + 1)
  BY DEF Settled
<1>2. ~Better(h, x)
  BY BetterOrder
<1> QED
  BY <1>1, <1>2, SettledUp

\* maybe_switch_forks applies a block on top of the head; its row is free.
LEMMA StepExtendHead ==
    ASSUME IInv, ExtendHead
    PROVE  IInv'
<1> USE DEF Switching, Adding, Resting
<1>1. PICK r \in Nat, t \in Block : Core(r, t)
  BY DEF IInv
<1>2. /\ Basic /\ pc = "switch" /\ Parent[fhead] = head /\ fhead # Genesis /\ head \in Block
      /\ fhead \in Block /\ blog \in Seq(Block) /\ oldb \in Seq(Block) /\ newb \in Seq(Block)
      /\ pos \in Nat /\ Rooted(Index, head, r) /\ Ranked(order, {}, fhead) /\ Applies(fhead)
  BY <1>1 DEF IInv, Basic, TypeOK, ExtendHead, Extends, Core, Tree, Anchor, InAdd
<1>3. fhead # head
  BY <1>2, ChainParent
<1>4. /\ fhead = cur /\ Better(cur, head) /\ call \in {"push", "replay"} /\ cur \in Index
      /\ cur \notin Bad
  BY <1>1, <1>2, <1>3, NewHead
<1>5. call = "replay" => Agree(cur, t, Num[cur])
  BY <1>1, <1>2 DEF Core, InAdd
<1>6. RowFree(cur)
  BY <1>1, <1>2, <1>4, <1>5, ApplyOne
<1>7. apply_block(cur) /\ pc' = Return /\ UNCHANGED switch
  BY <1>4, <1>6 DEF ExtendHead
<1>8. /\ pc' = IF call = "replay" THEN "replay" ELSE "idle"
      /\ head' = cur /\ UNCHANGED <<order, fhead, blog, call, cur, oldb, newb, pos>>
  BY <1>7 DEF Return, switch, apply_block
<1>14. PICK u \in Block : u = IF call = "replay" THEN t ELSE cur
  BY <1>1, <1>2, <1>4
<1>9. Basic' /\ Disk(u)'
  <2>1. /\ pc' \in {"idle", "replay", "apply", "reapply"} /\ (call = "replay" => pc' = "replay")
        /\ oldb' \in Seq(Block) /\ newb' \in Seq(Block) /\ pos' \in Nat
    BY <1>2, <1>8
  <2> QED
    BY <1>1, <1>2, <1>4, <1>5, <1>7, <1>14, <2>1, ApplyOne
<1>10. Rooted(Index', cur, r) /\ cur \in Index'
  BY <1>2, <1>4, <1>8, RootedMove DEF Index
<1>11. (Len(blog) <= 1 /\ r = 0) \/ Settled(u, Len(blog))
  <2>1. (Len(blog) <= 1 /\ r = 0) \/ Settled(t, Len(blog))
    BY <1>1, <1>2 DEF Core, Tree
  <2>2. Len(blog) \in Nat /\ Len(blog) >= 1 /\ (call # "replay" => t = head)
    BY <1>1, <1>2, LenProperties DEF Core, Disk, Stored
  <2> QED
    BY <1>2, <1>4, <1>14, <2>1, <2>2, SettledAt
<1>12. Tree(r, u)'
  BY <1>1, <1>8, <1>10, <1>11 DEF Core, Tree, Anchor
<1>13. AtRest(u)' /\ InAdd(r, u)' /\ InSwitch(r)'
  BY <1>2, <1>4, <1>8 DEF AtRest, InAdd, InSwitch
<1> QED
  BY <1>9, <1>12, <1>13, <1>14 DEF IInv, Core
\* set_validity(false) of a bad block gives the old head back.
LEMMA StepRejectHead ==
    ASSUME IInv, RejectHead
    PROVE  IInv'
<1> USE DEF Switching, Adding, Resting
<1>1. PICK r \in Nat, t \in Block : Core(r, t)
  BY DEF IInv
<1>2. /\ Basic /\ pc = "switch" /\ Parent[fhead] = head /\ fhead # Genesis /\ head \in Block
      /\ fhead \in Block /\ order \in Seq(Block) /\ Rooted(Index, head, r)
      /\ Ranked(order, {cur}, head) /\ ~Applies(fhead) /\ Sound(t)
  BY <1>1 DEF IInv, Basic, TypeOK, RejectHead, Extends, Core, Tree, Anchor, InAdd, Disk
<1>3. fhead # head
  BY <1>2, ChainParent
<1>4. fhead = cur /\ call \in {"push", "replay"} /\ cur \in Bad
  BY <1>1, <1>2, <1>3, NewHead
<1>5. call = "push"
  BY <1>1, <1>2, <1>4, SoundBelow DEF Core, InAdd
<1>6. /\ order' = Without(order, Subtree(cur)) /\ fhead' = Best(order') /\ pc' = "idle"
      /\ UNCHANGED <<inChain, head, db, base, rev, blog, call, cur, victim, oldb, newb, pos,
                     failed, restarts>>
  BY <1>4 DEF RejectHead, remove, state, durable, switch
<1>7. order' \in Seq(Block) /\ Index' = Index \ Subtree(cur)
  BY <1>2, <1>6, WithoutIs DEF Index
<1>8. head \notin Subtree(cur) /\ cur \in Subtree(cur)
  <2>1. Num[cur] = Num[head] + 1 /\ Num[head] \in Nat
    BY <1>2, <1>4, ParentNum
  <2>2. ~Agree(cur, head, Num[cur]) /\ Agree(cur, cur, Num[cur])
    BY <2>1 DEF Agree
  <2> QED
    BY <1>2, <1>4, <2>2, SubtreeIff
<1>9. Rooted(Index', head, r) /\ head \in Index'
  <2>1. Rooted(Index', head, r)
    BY <1>2, <1>4, <1>7, <1>8, RootedRemove
  <2> QED
    BY <2>1 DEF Rooted
<1>10. Ranked(order', {}, head) /\ fhead' = head
  <2>1. Ranked(order', {cur}, head)
    BY <1>2, <1>6, <1>8, RankedWithout
  <2>2. cur \notin ToSet(order')
    BY <1>7, <1>8 DEF Index
  <2>3. Ranked(order', {}, head)
    BY <2>1, <2>2, RankedGone
  <2> QED
    BY <1>6, <1>7, <2>3, BestIs
<1>11. Basic'
  BY <1>2, <1>5, <1>6, <1>7, <1>10 DEF Basic, TypeOK, Phase
<1>12. Disk(t)' /\ Tree(r, t)'
  BY <1>1, <1>2, <1>6, <1>9 DEF Core, Disk, Tree, Anchor
<1>13. AtRest(t)' /\ InAdd(r, t)' /\ InSwitch(r)'
  BY <1>5, <1>6, <1>10 DEF AtRest, InAdd, InSwitch
<1> QED
  BY <1>1, <1>11, <1>12, <1>13 DEF IInv, Core

\* A new head that does not extend the old one is on another branch, and the
\* two branches fork above the log and above the root of the index.
LEMMA SwitchForks ==
    ASSUME Basic, NEW r \in Nat, NEW t \in Block, Core(r, t), pc = "switch", fhead # head,
           ~Extends
    PROVE  /\ call = "push" /\ fhead = cur /\ Better(cur, head)
           /\ \E k \in Nat : ForkAt(head, cur, k) /\ k > r /\ (k > Len(blog) \/ Len(blog) <= 1)
<1> USE DEF Switching, Adding, Resting
<1>1. /\ head \in Block /\ cur \in Block /\ fhead = cur /\ Better(cur, head) /\ cur # Genesis
      /\ ~Better(Parent[cur], head) /\ Parent[cur] # head /\ blog \in Seq(Block)
  BY NewHead DEF Basic, TypeOK, Core, InAdd, Extends
<1>2. call = "push" /\ t = head
  BY <1>1, NewHead DEF Core, InAdd, Disk
<1>3. ~Agree(head, cur, Num[cur])
  BY <1>1, BetterThanAncestor, AgreeSym
<1>4. ASSUME Agree(head, cur, Num[head]) PROVE FALSE
  <2>1. /\ Num[head] \in Nat \ {0} /\ Num[cur] \in Nat /\ Chain[head][Num[head]] = head
        /\ Chain[cur][Num[cur]] = cur /\ Parent[cur] \in Block
        /\ Num[Parent[cur]] = Num[cur] - 1
        /\ \A n \in 1 .. Num[cur] - 1 : Chain[cur][n] = Chain[Parent[cur]][n]
    BY <1>1, ChainType, ChainParent
  <2>2. Num[head] <= Num[cur] /\ Chain[cur][Num[head]] = head
    BY <1>4, <2>1 DEF Agree
  <2>3. Num[head] # Num[cur]
    BY <1>1, <1>3, <1>4
  <2>4. Num[head] \in 1 .. Num[cur] - 1
    BY <2>1, <2>2, <2>3
  <2>5. Agree(head, Parent[cur], Num[head])
    BY <2>1, <2>2, <2>4 DEF Agree
  <2> QED
    BY <1>1, <2>1, <2>5, BetterThanAncestor
<1>5. PICK k \in Nat : ForkAt(head, cur, k)
  BY <1>1, <1>3, <1>4, ForkExists
<1>6. k > r /\ (k > Len(blog) \/ Len(blog) <= 1)
  <2>1. Len(blog) \in Nat /\ Len(blog) >= 1 /\ r <= Len(blog)
        /\ ((Len(blog) <= 1 /\ r = 0) \/ Settled(head, Len(blog)))
    BY <1>1, <1>2, LenProperties DEF Core, Tree, Disk, Stored
  <2>2. CASE Settled(head, Len(blog))
    <3>1. Agree(head, cur, Len(blog) + 1)
      BY <1>1, <2>1, <2>2, SettledAt, AgreeSym
    <3>2. ~Agree(head, cur, k + 1)
      BY <1>5 DEF ForkAt
    <3>3. k + 1 \notin 1 .. Len(blog) + 1
      BY <1>1, <2>1, <3>1, <3>2, AgreeBelow
    <3> QED
      BY <1>5, <2>1, <3>3
  <2>3. CASE Len(blog) <= 1 /\ r = 0
    BY <1>5, <2>3 DEF ForkAt
  <2> QED
    BY <2>1, <2>2, <2>3
<1> QED
  BY <1>1, <1>2, <1>5, <1>6

\* Above the root the index holds all of a branch.
LEMMA BranchStored ==
    ASSUME NEW I, NEW h, NEW r, Rooted(I, h, r), NEW x \in I, NEW k \in Nat, k > r,
           NEW b, Above(b, x, k)
    PROVE  ToSet(b) \subseteq I
<1>1. x \in Block /\ r \in Nat /\ \A n \in r + 1 .. Num[x] : Chain[x][n] \in I
  BY DEF Rooted
<1>2. Num[x] \in Nat
  BY <1>1, ChainType
<1>3. ASSUME NEW i \in 1 .. Len(b) PROVE b[i] \in I
  <2>1. Len(b) = Num[x] - k /\ b[i] = Chain[x][Num[x] + 1 - i]
    BY DEF Above
  <2>2. Num[x] + 1 - i \in r + 1 .. Num[x]
    BY <1>1, <1>2, <2>1
  <2> QED
    BY <1>1, <2>1, <2>2
<1> QED
  BY <1>3 DEF ToSet, Above

\* fetch_branch_from finds both branches in the index.
LEMMA StepBeginSwitch ==
    ASSUME IInv, BeginSwitch
    PROVE  IInv'
<1> USE DEF Switching, Adding, Resting
<1>1. PICK r \in Nat, t \in Block : Core(r, t)
  BY DEF IInv
<1>2. /\ Basic /\ pc = "switch" /\ fhead # head /\ ~Extends /\ head \in Block /\ cur \in Block
      /\ Rooted(Index, head, r) /\ Ranked(order, {cur}, head) /\ Ranked(order, {}, fhead)
      /\ Sound(t)
  BY <1>1 DEF IInv, Basic, TypeOK, BeginSwitch, Core, Tree, Anchor, InAdd, Disk
<1>3. /\ call = "push" /\ fhead = cur /\ Better(cur, head) /\ cur \in Index
  BY <1>1, <1>2, SwitchForks, NewHead
<1>4. PICK k \in Nat : ForkAt(head, cur, k) /\ k > r /\ (k > Len(blog) \/ Len(blog) <= 1)
  BY <1>1, <1>2, SwitchForks
<1>5. Above(Branch(cur, head), cur, k) /\ Above(Branch(head, cur), head, k)
  BY <1>2, <1>4, BranchIsAbove, ForkAtSym
<1>6. ToSet(Branch(cur, head)) \cup ToSet(Branch(head, cur)) \subseteq Index
  BY <1>1, <1>2, <1>3, <1>4, <1>5, BranchStored DEF Rooted
<1>7. /\ newb' = Branch(cur, head) /\ oldb' = Branch(head, cur) /\ pos' = 1 /\ pc' = "pop"
      /\ UNCHANGED <<order, inChain, fhead, head, db, base, rev, blog, call, cur, victim,
                     failed, restarts>>
  BY <1>2, <1>3, <1>6 DEF BeginSwitch, forkdb, state, durable
<1>8. /\ oldb' \in Seq(Block) /\ newb' \in Seq(Block) /\ 1 \in 1 .. Len(oldb') /\ oldb'[1] = head
  <2>1. k \in Nat \ {0} /\ k < Num[head] /\ Num[head] \in Nat
    BY <1>2, <1>4, ChainType DEF ForkAt
  <2>2. oldb' \in Seq(Block) /\ newb' \in Seq(Block) /\ 1 \in 1 .. Len(oldb')
    BY <1>5, <1>7, <2>1 DEF Above
  <2> QED
    BY <1>2, <1>5, <1>7, <2>1, <2>2, AboveLinks
<1>9. t = head
  BY <1>1, <1>3 DEF Core, Disk
<1>10. Basic'
  BY <1>2, <1>3, <1>7, <1>8 DEF Basic, TypeOK, Phase
<1>11. Disk(t)'
  BY <1>1, <1>3, <1>7 DEF Core, Disk
<1>12. Tree(r, t)'
  BY <1>1, <1>2, <1>7, <1>8, <1>9 DEF Core, Tree, Anchor, Index
<1>13. AtRest(t)' /\ InAdd(r, t)'
  BY <1>7 DEF AtRest, InAdd
<1>14. InSwitch(r)'
  <2>1. OnBranch(head, cur)'
    BY <1>2, <1>3, <1>7, <1>8 DEF OnBranch
  <2>2. Branches(head, cur, k, r)'
    BY <1>2, <1>3, <1>4, <1>5, <1>7, <1>9 DEF Branches
  <2> QED
    BY <1>2, <1>3, <1>7, <1>8, <2>1, <2>2 DEF InSwitch
<1> QED
  BY <1>1, <1>10, <1>11, <1>12, <1>13, <1>14 DEF IInv, Core
-----------------------------------------------------------------------------
(* The steps of a switch. *)

\* What the steps of a switch from a to cur, which fork at k, know.
SwitchAt(a, k, r, t) ==
    /\ a = oldb[1] /\ cur \in Block /\ call = "push" /\ t = head /\ head \in Block
    /\ OnBranch(a, cur) /\ Branches(a, cur, k, r)
    /\ k < Num[a] /\ k < Num[cur] /\ Above(oldb, a, k) /\ Above(newb, cur, k)
    /\ Chain[a][k] = Chain[cur][k]
    /\ Rooted(Index, a, r) /\ head \in Index /\ r <= Len(blog)
    /\ (Len(blog) <= 1 /\ r = 0) \/ Settled(a, Len(blog))

\* Within a switch the branches are the ones fetched at its start.
LEMMA SwitchFacts ==
    ASSUME Basic, NEW r \in Nat, NEW t \in Block, Core(r, t), Switching
    PROVE  \E a \in Block, k \in Nat \ {0} : SwitchAt(a, k, r, t)
<1>1. PICK k \in Nat : Branches(oldb[1], cur, k, r)
  BY DEF Core, InSwitch
<1>2. /\ k \in Nat \ {0} /\ k < Num[oldb[1]] /\ k < Num[cur] /\ Chain[oldb[1]][k] = Chain[cur][k]
      /\ Above(oldb, oldb[1], k) /\ Above(newb, cur, k)
  BY <1>1 DEF Branches, ForkAt, Agree
<1>3. /\ oldb[1] \in Block /\ call = "push" /\ OnBranch(oldb[1], cur)
      /\ cur \in Block /\ head \in Block /\ t = head
  BY DEF Basic, TypeOK, Core, InSwitch, Disk
<1>4. /\ Rooted(Index, oldb[1], r) /\ head \in Index /\ r <= Len(blog)
      /\ (Len(blog) <= 1 /\ r = 0) \/ Settled(oldb[1], Len(blog))
  BY DEF Core, Tree, Anchor
<1> QED
  BY <1>1, <1>2, <1>3, <1>4 DEF SwitchAt

\* A block of the old branch is popped: its parent is in the index.
LEMMA StepPopOld ==
    ASSUME IInv, PopOld
    PROVE  IInv'
<1> USE DEF Switching, Adding, Resting
<1>1. PICK r \in Nat, t \in Block : Core(r, t)
  BY DEF IInv
<1>2. Basic /\ pc = "pop"
  BY DEF IInv, PopOld
<1>3. PICK a \in Block, k \in Nat \ {0} : SwitchAt(a, k, r, t)
  BY <1>1, <1>2, SwitchFacts
<1>4. pos \in 1 .. Len(oldb) /\ head = oldb[pos] /\ k > r /\ (k > Len(blog) \/ Len(blog) <= 1)
  BY <1>2, <1>3 DEF OnBranch, Branches, SwitchAt
<1>5. /\ head # Genesis /\ Num[head] > k
      /\ Parent[head] = IF pos = Len(oldb) THEN Chain[a][k] ELSE oldb[pos + 1]
  BY <1>3, <1>4, AboveLinks DEF SwitchAt
<1>6. PICK p \in Block : p = Parent[head]
  BY <1>3, <1>5, ParentNum DEF SwitchAt
<1>7. Poppable(head)
  BY <1>1, <1>2, <1>3, <1>4, <1>5, PopHead DEF SwitchAt
<1>8. /\ pop_block(head)
      /\ IF pos < Len(oldb) THEN pos' = pos + 1 /\ pc' = "pop"
                            ELSE pos' = Len(newb) /\ pc' = "apply"
  BY <1>4, <1>7 DEF PopOld
<1>9. Basic' /\ Disk(p)'
  <2>1. pos' \in Nat /\ Switching'
    BY <1>3, <1>4, <1>8, LenProperties DEF Above, SwitchAt
  <2> QED
    BY <1>1, <1>2, <1>3, <1>4, <1>5, <1>6, <1>8, <2>1, PopHead DEF SwitchAt
<1>10. head' = p /\ UNCHANGED <<order, fhead, blog, call, cur, oldb, newb>>
  BY <1>6, <1>8 DEF pop_block
<1>11. p \in Index'
  BY <1>6, <1>7, <1>10 DEF Poppable, Index
<1>12. Switching'
  BY <1>8
<1>13. Tree(r, p)'
  BY <1>3, <1>10, <1>11, <1>12 DEF Tree, Anchor, Index, SwitchAt
<1>14. AtRest(p)' /\ InAdd(r, p)'
  BY <1>8 DEF AtRest, InAdd
<1>15. Branches(a, cur, k, r)'
  BY <1>3, <1>10 DEF Branches, SwitchAt
<1>16. OnBranch(a, cur)'
  <2>1. CASE pos < Len(oldb)
    <3>1. pc' = "pop" /\ pos' = pos + 1 /\ pos' \in 1 .. Len(oldb) /\ p = oldb[pos + 1]
      BY <1>4, <1>5, <1>6, <1>8, <2>1
    <3> QED
      BY <1>2, <1>3, <1>10, <3>1 DEF OnBranch, SwitchAt
  <2>2. CASE ~(pos < Len(oldb))
    <3>1. pos = Len(oldb) /\ pc' = "apply" /\ pos' = Len(newb) /\ p = Chain[cur][k]
      BY <1>3, <1>4, <1>5, <1>6, <1>8, <2>2, LenProperties DEF Above, SwitchAt
    <3>2. Len(newb) \in 1 .. Len(newb)
      BY <1>3, ChainType DEF Above, SwitchAt
    <3>3. Parent[newb[Len(newb)]] = Chain[cur][k]
      BY <1>3, <3>2, AboveLinks DEF SwitchAt
    <3> QED
      BY <1>2, <1>3, <1>10, <3>1, <3>2, <3>3 DEF OnBranch, SwitchAt
  <2> QED
    BY <2>1, <2>2
<1>17. InSwitch(r)'
  BY <1>3, <1>10, <1>15, <1>16 DEF InSwitch, SwitchAt
<1> QED
  BY <1>1, <1>9, <1>13, <1>14, <1>17 DEF IInv, Core

\* A valid block of the new branch is applied.
LEMMA StepApplyNew ==
    ASSUME IInv, ApplyNew
    PROVE  IInv'
<1> USE DEF Switching, Adding, Resting
<1>1. PICK r \in Nat, t \in Block : Core(r, t)
  BY DEF IInv
<1>2. Basic /\ pc = "apply" /\ Applies(newb[pos]) /\ oldb \in Seq(Block) /\ newb \in Seq(Block)
      /\ pos \in Nat
  BY DEF IInv, Basic, TypeOK, ApplyNew
<1>3. PICK a \in Block, k \in Nat \ {0} : SwitchAt(a, k, r, t)
  BY <1>1, <1>2, SwitchFacts
<1>4. /\ pos \in 1 .. Len(newb) /\ head = Parent[newb[pos]] /\ k > r
      /\ fhead = cur /\ Ranked(order, {}, cur) /\ Better(cur, a)
  BY <1>2, <1>3 DEF OnBranch, Branches, SwitchAt
<1>5. PICK b \in Block : b = newb[pos] /\ b # Genesis /\ b \notin Bad
  BY <1>2, <1>3, <1>4, AboveLinks DEF Applies, SwitchAt
<1>6. RowFree(b)
  BY <1>1, <1>2, <1>3, <1>4, <1>5, ApplyOne DEF SwitchAt
<1>7. apply_block(b) /\ Advance("apply", Return)
  BY <1>5, <1>6 DEF ApplyNew
<1>8. head' = b /\ UNCHANGED <<order, fhead, blog, call, cur>>
  BY <1>7 DEF apply_block
<1>9. /\ pos = 1 => pc' = "idle" /\ pos' = 0 /\ newb' = <<>> /\ oldb' = <<>>
      /\ pos # 1 => pc' = "apply" /\ pos' = pos - 1 /\ UNCHANGED <<newb, oldb>>
  BY <1>3, <1>7 DEF Advance, Return, SwitchAt
<1>10. Basic' /\ Disk(b)'
  <2>1. /\ pc' \in {"idle", "replay", "apply", "reapply"}
        /\ oldb' \in Seq(Block) /\ newb' \in Seq(Block) /\ pos' \in Nat
    <3>1. CASE pos = 1
      BY <1>9, <3>1
    <3>2. CASE pos # 1
      <4>1. pos - 1 \in Nat
        BY <1>2, <1>4
      <4> QED
        BY <1>2, <1>9, <3>2, <4>1
    <3> QED
      BY <3>1, <3>2
  <2>2. call = "push" /\ Parent[b] = head /\ b = IF call = "replay" THEN t ELSE b
    BY <1>3, <1>4, <1>5 DEF SwitchAt
  <2> QED
    BY <1>1, <1>2, <1>5, <1>7, <2>1, <2>2, ApplyOne
<1>11. cur \in Index
  BY <1>4, RankedIn DEF Index
<1>12. CASE pos = 1
  <2>1. b = cur /\ pc' = "idle"
    BY <1>3, <1>4, <1>5, <1>9, <1>12, AboveLinks DEF SwitchAt
  <2>2. Rooted(Index, cur, r)
    BY <1>3, <1>11, RootedMove DEF SwitchAt
  <2>3. (Len(blog) <= 1 /\ r = 0) \/ Settled(cur, Len(blog))
    <3>1. Len(blog) \in Nat /\ Len(blog) >= 1
      BY <1>1, <1>2, LenProperties DEF Basic, TypeOK, Core, Disk, Stored
    <3> QED
      BY <1>3, <1>4, <3>1, SettledAt DEF SwitchAt
  <2>4. Tree(r, b)'
    BY <1>3, <1>8, <1>11, <2>1, <2>2, <2>3 DEF Tree, Anchor, Index, SwitchAt
  <2>5. AtRest(b)' /\ InAdd(r, b)' /\ InSwitch(r)'
    BY <1>3, <1>4, <1>8, <2>1 DEF AtRest, InAdd, InSwitch, SwitchAt
  <2> QED
    BY <1>1, <1>10, <2>4, <2>5 DEF IInv, Core
<1>13. CASE pos # 1
  <2>1. pc' = "apply" /\ pos' = pos - 1 /\ UNCHANGED <<newb, oldb>>
    BY <1>9, <1>13
  <2>2. pos - 1 \in 1 .. Len(newb) /\ pos - 1 # Len(newb)
    BY <1>3, <1>4, <1>13 DEF SwitchAt
  <2>3. Parent[newb[pos - 1]] = b
    <3>1. (pos - 1) + 1 = pos
      BY <1>4
    <3> QED
      BY <1>3, <1>5, <2>2, <3>1, AboveLinks DEF SwitchAt
  <2>4. b \in Index
    <3>1. ToSet(newb) \subseteq Index
      BY <1>1, <1>3, <1>4, <1>11, BranchStored DEF SwitchAt
    <3>2. newb[pos] \in ToSet(newb)
      BY <1>2, <1>4 DEF ToSet
    <3> QED
      BY <1>5, <3>1, <3>2
  <2>5. Tree(r, b)'
    BY <1>3, <1>8, <2>1, <2>4 DEF Tree, Anchor, Index, SwitchAt
  <2>6. AtRest(b)' /\ InAdd(r, b)'
    BY <2>1 DEF AtRest, InAdd
  <2>7. OnBranch(a, cur)' /\ Branches(a, cur, k, r)'
    BY <1>3, <1>4, <1>8, <2>1, <2>2, <2>3 DEF OnBranch, Branches, SwitchAt
  <2>8. InSwitch(r)'
    BY <1>3, <1>8, <2>1, <2>7 DEF InSwitch, SwitchAt
  <2> QED
    BY <1>1, <1>10, <2>5, <2>6, <2>8 DEF IInv, Core
<1> QED
  BY <1>12, <1>13

\* A block of the new branch is popped again.
LEMMA StepUnwindNew ==
    ASSUME IInv, UnwindNew
    PROVE  IInv'
<1> USE DEF Switching, Adding, Resting
<1>1. PICK r \in Nat, t \in Block : Core(r, t)
  BY DEF IInv
<1>2. Basic /\ pc = "unwind"
  BY DEF IInv, UnwindNew
<1>3. PICK a \in Block, k \in Nat \ {0} : SwitchAt(a, k, r, t)
  BY <1>1, <1>2, SwitchFacts
<1>4. /\ pos \in 2 .. Len(newb) /\ pos \in 1 .. Len(newb) /\ head = newb[pos] /\ k > r
      /\ (k > Len(blog) \/ Len(blog) <= 1) /\ fhead = a /\ Ranked(order, {}, a)
  BY <1>2, <1>3 DEF OnBranch, Branches, SwitchAt
<1>5. /\ head # Genesis /\ Num[head] > k
      /\ Parent[head] = IF pos = Len(newb) THEN Chain[cur][k] ELSE newb[pos + 1]
  BY <1>3, <1>4, AboveLinks DEF SwitchAt
<1>6. PICK p \in Block : p = Parent[head]
  BY <1>3, <1>5, ParentNum DEF SwitchAt
<1>7. Poppable(head)
  BY <1>1, <1>2, <1>3, <1>4, <1>5, PopHead DEF SwitchAt
<1>8. /\ pop_block(head)
      /\ IF pos < Len(newb) THEN pos' = pos + 1 /\ pc' = "unwind"
                            ELSE pos' = Len(oldb) /\ pc' = "reapply"
  BY <1>4, <1>7 DEF UnwindNew
<1>9. Basic' /\ Disk(p)'
  <2>1. pos' \in Nat /\ Switching'
    BY <1>3, <1>4, <1>8, LenProperties DEF Above, SwitchAt
  <2> QED
    BY <1>1, <1>2, <1>3, <1>4, <1>5, <1>6, <1>8, <2>1, PopHead DEF SwitchAt
<1>10. head' = p /\ UNCHANGED <<order, fhead, blog, call, cur, oldb, newb>>
  BY <1>6, <1>8 DEF pop_block
<1>11. p \in Index'
  BY <1>6, <1>7, <1>10 DEF Poppable, Index
<1>12. Switching'
  BY <1>8
<1>13. Tree(r, p)'
  BY <1>3, <1>10, <1>11, <1>12 DEF Tree, Anchor, Index, SwitchAt
<1>14. AtRest(p)' /\ InAdd(r, p)'
  BY <1>8 DEF AtRest, InAdd
<1>15. Branches(a, cur, k, r)'
  BY <1>3, <1>10 DEF Branches, SwitchAt
<1>16. OnBranch(a, cur)'
  <2>1. CASE pos < Len(newb)
    <3>1. pc' = "unwind" /\ pos' = pos + 1 /\ pos' \in 2 .. Len(newb) /\ p = newb[pos + 1]
      BY <1>4, <1>5, <1>6, <1>8, <2>1
    <3> QED
      BY <1>4, <1>10, <3>1 DEF OnBranch
  <2>2. CASE ~(pos < Len(newb))
    <3>1. pos = Len(newb) /\ pc' = "reapply" /\ pos' = Len(oldb) /\ p = Chain[a][k]
      BY <1>3, <1>4, <1>5, <1>6, <1>8, <2>2, LenProperties DEF Above, SwitchAt
    <3>2. Len(oldb) \in 1 .. Len(oldb)
      BY <1>3, ChainType DEF Above, SwitchAt
    <3>3. Parent[oldb[Len(oldb)]] = Chain[a][k]
      BY <1>3, <3>2, AboveLinks DEF SwitchAt
    <3> QED
      BY <1>4, <1>10, <3>1, <3>2, <3>3 DEF OnBranch
  <2> QED
    BY <2>1, <2>2
<1>17. InSwitch(r)'
  BY <1>3, <1>10, <1>15, <1>16 DEF InSwitch, SwitchAt
<1> QED
  BY <1>1, <1>9, <1>13, <1>14, <1>17 DEF IInv, Core

\* A bad block of the new branch is removed with all above it, and the old
\* head is the best block again.
LEMMA StepRejectNew ==
    ASSUME IInv, RejectNew
    PROVE  IInv'
<1> USE DEF Switching, Adding, Resting
<1>1. PICK r \in Nat, t \in Block : Core(r, t)
  BY DEF IInv
<1>2. Basic /\ pc = "apply" /\ order \in Seq(Block) /\ oldb \in Seq(Block) /\ newb \in Seq(Block)
  BY DEF IInv, Basic, TypeOK, RejectNew
<1>3. PICK a \in Block, k \in Nat \ {0} : SwitchAt(a, k, r, t)
  BY <1>1, <1>2, SwitchFacts
<1>4. /\ pos \in 1 .. Len(newb) /\ head = Parent[newb[pos]]
      /\ ~Agree(a, cur, k + 1) /\ Ranked(order, {cur}, a)
  BY <1>2, <1>3 DEF OnBranch, Branches, ForkAt, SwitchAt
<1>5. PICK b \in Block :
         /\ b = newb[pos] /\ b # Genesis /\ Num[b] > k /\ Agree(b, cur, Num[b])
         /\ Parent[b] = IF pos = Len(newb) THEN Chain[cur][k] ELSE newb[pos + 1]
  BY <1>3, <1>4, AboveLinks DEF SwitchAt
<1>6. /\ order' = Without(order, Subtree(b)) /\ fhead' = Best(order')
      /\ IF pos < Len(newb) THEN pos' = pos + 1 /\ pc' = "unwind"
                            ELSE pos' = Len(oldb) /\ pc' = "reapply"
      /\ UNCHANGED <<inChain, head, db, base, rev, blog, call, cur, victim, oldb, newb,
                     failed, restarts>>
  BY <1>5 DEF RejectNew, remove, state, durable
<1>7. order' \in Seq(Block) /\ Index' = Index \ Subtree(b)
  BY <1>2, <1>6, WithoutIs DEF Index
<1>8. a \notin Subtree(b) /\ cur \in Subtree(b) /\ head \notin Subtree(b)
  <2>1. Num[b] \in Nat /\ k + 1 \in 1 .. Num[b] /\ Num[b] = Num[head] + 1 /\ Num[head] \in Nat
    BY <1>4, <1>5, ParentNum
  <2>2. ~Agree(b, a, Num[b])
    <3>1. SUFFICES ASSUME Agree(b, a, Num[b]) PROVE FALSE
      OBVIOUS
    <3>2. Agree(b, a, k + 1) /\ Agree(b, cur, k + 1)
      BY <1>3, <1>5, <2>1, <3>1, AgreeBelow DEF SwitchAt
    <3> QED
      BY <1>3, <1>4, <1>5, <3>2, AgreeTrans, AgreeSym DEF SwitchAt
  <2>3. ~Agree(b, head, Num[b])
    BY <2>1 DEF Agree
  <2> QED
    BY <1>3, <1>5, <2>2, <2>3, SubtreeIff DEF SwitchAt
<1>9. Rooted(Index', a, r) /\ head \in Index'
  BY <1>3, <1>7, <1>8, RootedRemove DEF SwitchAt
<1>10. Ranked(order', {cur}, a) /\ Ranked(order', {}, a) /\ fhead' = a
  <2>1. Ranked(order', {cur}, a)
    BY <1>2, <1>4, <1>6, <1>8, RankedWithout
  <2>2. cur \notin ToSet(order')
    BY <1>7, <1>8 DEF Index
  <2>3. Ranked(order', {}, a)
    BY <2>1, <2>2, RankedGone
  <2> QED
    BY <1>6, <1>7, <2>1, <2>3, BestIs
<1>11. Switching' /\ pos' \in Nat
  BY <1>2, <1>4, <1>6, LenProperties
<1>12. Basic'
  BY <1>2, <1>6, <1>7, <1>10, <1>11 DEF Basic, TypeOK, Phase
<1>13. Disk(t)' /\ Tree(r, t)'
  BY <1>1, <1>3, <1>6, <1>9, <1>11 DEF Core, Disk, Tree, Anchor, SwitchAt
<1>14. AtRest(t)' /\ InAdd(r, t)'
  BY <1>11 DEF AtRest, InAdd
<1>15. Branches(a, cur, k, r)'
  BY <1>3, <1>6, <1>10 DEF Branches, SwitchAt
<1>16. OnBranch(a, cur)'
  <2>1. CASE pos < Len(newb)
    <3>1. pc' = "unwind" /\ pos' = pos + 1 /\ pos' \in 2 .. Len(newb) /\ head = newb[pos + 1]
      BY <1>4, <1>5, <1>6, <2>1
    <3> QED
      BY <1>6, <1>10, <3>1 DEF OnBranch
  <2>2. CASE ~(pos < Len(newb))
    <3>1. pos = Len(newb) /\ pc' = "reapply" /\ pos' = Len(oldb) /\ head = Chain[a][k]
      BY <1>3, <1>4, <1>5, <1>6, <2>2, LenProperties DEF Above, SwitchAt
    <3>2. Len(oldb) \in 1 .. Len(oldb)
      BY <1>3, ChainType DEF Above, SwitchAt
    <3>3. Parent[oldb[Len(oldb)]] = Chain[a][k]
      BY <1>3, <3>2, AboveLinks DEF SwitchAt
    <3> QED
      BY <1>6, <1>10, <3>1, <3>2, <3>3 DEF OnBranch
  <2> QED
    BY <2>1, <2>2
<1>17. InSwitch(r)'
  BY <1>3, <1>6, <1>15, <1>16 DEF InSwitch, SwitchAt
<1> QED
  BY <1>1, <1>12, <1>13, <1>14, <1>17 DEF IInv, Core

\* A block of the old branch is applied again, which cannot fail.
LEMMA StepReapplyOld ==
    ASSUME IInv, ReapplyOld
    PROVE  IInv'
<1> USE DEF Switching, Adding, Resting
<1>1. PICK r \in Nat, t \in Block : Core(r, t)
  BY DEF IInv
<1>2. Basic /\ pc = "reapply" /\ oldb \in Seq(Block) /\ newb \in Seq(Block) /\ pos \in Nat
  BY DEF IInv, Basic, TypeOK, ReapplyOld
<1>3. PICK a \in Block, k \in Nat \ {0} : SwitchAt(a, k, r, t)
  BY <1>1, <1>2, SwitchFacts
<1>4. /\ pos \in 1 .. Len(oldb) /\ head = Parent[oldb[pos]] /\ k > r
      /\ fhead = a /\ Ranked(order, {}, a) /\ Sound(a) /\ a \in Index
  BY <1>2, <1>3 DEF OnBranch, Branches, SwitchAt, Rooted
<1>5. PICK b \in Block : b = oldb[pos] /\ b # Genesis /\ b \notin Bad
  <2>1. oldb[pos] \in Block \ {Genesis} /\ Agree(oldb[pos], a, Num[oldb[pos]])
    BY <1>3, <1>4, AboveLinks DEF SwitchAt
  <2> QED
    BY <1>4, <2>1, SoundBelow
<1>6. call = "push" /\ Parent[b] = head /\ b = IF call = "replay" THEN t ELSE b
  BY <1>3, <1>4, <1>5 DEF SwitchAt
<1>7. RowFree(b) /\ Applies(b)
  <2>1. Len(db) = Num[head]
    BY <1>2, ChainType DEF Basic, TypeOK
  <2>2. RowFree(b)
    BY <1>1, <1>2, <1>5, <1>6, ApplyOne
  <2> QED
    BY <1>5, <1>6, <2>1, <2>2 DEF Applies
<1>8. apply_block(b) /\ Advance("reapply", "idle")
  BY <1>5, <1>7 DEF ReapplyOld
<1>9. /\ head' = b /\ UNCHANGED <<order, fhead, blog, call, cur>>
      /\ pos = 1 => pc' = "idle" /\ pos' = 0 /\ newb' = <<>> /\ oldb' = <<>>
      /\ pos # 1 => pc' = "reapply" /\ pos' = pos - 1 /\ UNCHANGED <<newb, oldb>>
  BY <1>8 DEF apply_block, Advance
<1>10. Basic' /\ Disk(b)'
  <2>1. /\ pc' \in {"idle", "replay", "apply", "reapply"}
        /\ oldb' \in Seq(Block) /\ newb' \in Seq(Block) /\ pos' \in Nat
    <3>1. CASE pos = 1
      BY <1>9, <3>1
    <3>2. CASE pos # 1
      <4>1. pos - 1 \in Nat
        BY <1>2, <1>4
      <4> QED
        BY <1>2, <1>9, <3>2, <4>1
    <3> QED
      BY <3>1, <3>2
  <2> QED
    BY <1>1, <1>2, <1>5, <1>6, <1>8, <2>1, ApplyOne
<1>11. CASE pos = 1
  <2>1. b = a /\ pc' = "idle"
    BY <1>3, <1>5, <1>9, <1>11 DEF SwitchAt
  <2>2. Tree(r, b)'
    BY <1>3, <1>4, <1>9, <2>1 DEF Tree, Anchor, Index, SwitchAt
  <2>3. AtRest(b)' /\ InAdd(r, b)' /\ InSwitch(r)'
    BY <1>4, <1>6, <1>9, <2>1 DEF AtRest, InAdd, InSwitch
  <2> QED
    BY <1>1, <1>10, <2>2, <2>3 DEF IInv, Core
<1>12. CASE pos # 1
  <2>1. pc' = "reapply" /\ pos' = pos - 1 /\ UNCHANGED <<newb, oldb>>
    BY <1>9, <1>12
  <2>2. pos - 1 \in 1 .. Len(oldb) /\ pos - 1 # Len(oldb) /\ (pos - 1) + 1 = pos
    BY <1>4, <1>12
  <2>3. Parent[oldb[pos - 1]] = b
    BY <1>3, <1>5, <2>2, AboveLinks DEF SwitchAt
  <2>4. b \in Index
    <3>1. ToSet(oldb) \subseteq Index
      BY <1>1, <1>3, <1>4, BranchStored DEF SwitchAt
    <3>2. oldb[pos] \in ToSet(oldb)
      BY <1>2, <1>4 DEF ToSet
    <3> QED
      BY <1>5, <3>1, <3>2
  <2>5. Tree(r, b)'
    BY <1>3, <1>9, <2>1, <2>4 DEF Tree, Anchor, Index, SwitchAt
  <2>6. AtRest(b)' /\ InAdd(r, b)'
    BY <2>1 DEF AtRest, InAdd
  <2>7. OnBranch(a, cur)' /\ Branches(a, cur, k, r)'
    BY <1>3, <1>4, <1>9, <2>1, <2>2, <2>3 DEF OnBranch, Branches, SwitchAt
  <2>8. InSwitch(r)'
    BY <1>3, <1>9, <2>1, <2>7 DEF InSwitch, SwitchAt
  <2> QED
    BY <1>1, <1>10, <2>5, <2>6, <2>8 DEF IInv, Core
<1> QED
  BY <1>11, <1>12

\* The block produced is the best block, so the assertion of commit_block
\* holds.
LEMMA StepCommitProduced ==
    ASSUME IInv, CommitProduced
    PROVE  IInv'
<1> USE DEF Switching, Adding, Resting
<1>1. PICK r \in Nat, t \in Block : Core(r, t)
  BY DEF IInv
<1>2. /\ Basic /\ pc = "commit" /\ call = "produce" /\ head \in Block /\ Parent[cur] = head
      /\ cur # Genesis /\ cur \notin Bad /\ blog \in Seq(Block) /\ rev \subseteq Block
      /\ Rooted(Index, head, r) /\ Ranked(order, {}, fhead) /\ db = Chain[head]
      /\ fhead = IF Better(cur, head) THEN cur ELSE head
      /\ inChain = (Ancestors(head) \ {Genesis}) \cup {cur}
  BY <1>1 DEF IInv, Basic, TypeOK, CommitProduced, Core, Tree, Anchor, InAdd
<1>3. PICK b \in Block : b = cur
  BY <1>2 DEF Basic, TypeOK
<1>4. Better(b, head) /\ fhead = b
  <2>1. Agree(head, b, Num[head]) /\ b # head
    BY <1>2, <1>3, ParentAgrees, ChainParent
  <2> QED
    BY <1>2, <1>3, <2>1, BetterThanAncestor
<1>5. t = head /\ Stored(blog, rev, head) /\ Sound(head)
  BY <1>1, <1>2 DEF Core, Disk
<1>6. Stored(blog, rev \cup {b}, b) /\ Sound(b) /\ \A x \in rev : Num[x] # Num[b]
  BY <1>2, <1>3, <1>5, StoredExtend, SoundExtend
<1>7. /\ head' = b /\ db' = Append(db, b) /\ rev' = rev \cup {b} /\ pc' = "idle"
      /\ UNCHANGED <<order, inChain, fhead, base, blog, call, cur, victim, oldb, newb, pos,
                     failed, restarts>>
  BY <1>3, <1>4, <1>6 DEF CommitProduced, forkdb, switch
<1>8. db' = Chain[b] /\ inChain' = Ancestors(b) \ {Genesis} /\ db' \in Seq(Block)
  BY <1>2, <1>3, <1>7, ChainParent, AncestorsStep, ChainType
<1>9. Basic'
  BY <1>2, <1>3, <1>7, <1>8 DEF Basic, TypeOK, Phase
<1>10. Disk(b)'
  BY <1>2, <1>6, <1>7 DEF Disk
<1>11. b \in Index
  BY <1>2, <1>4, RankedIn DEF Index
<1>12. Rooted(Index, b, r)
  BY <1>2, <1>11, RootedMove
<1>13. (Len(blog) <= 1 /\ r = 0) \/ Settled(b, Len(blog))
  <2>1. (Len(blog) <= 1 /\ r = 0) \/ Settled(head, Len(blog))
    BY <1>1, <1>2, <1>5 DEF Core, Tree
  <2>2. Len(blog) \in Nat /\ Len(blog) >= 1
    BY <1>2, <1>5, LenProperties DEF Stored
  <2> QED
    BY <1>2, <1>4, <2>1, <2>2, SettledAt
<1>14. Tree(r, b)'
  BY <1>1, <1>7, <1>11, <1>12, <1>13 DEF Core, Tree, Anchor, Index
<1>15. AtRest(b)' /\ InAdd(r, b)' /\ InSwitch(r)'
  BY <1>2, <1>4, <1>7 DEF AtRest, InAdd, InSwitch
<1> QED
  BY <1>1, <1>9, <1>10, <1>14, <1>15 DEF IInv, Core

-----------------------------------------------------------------------------
(* Crash, replay and start. *)

\* A replay meets the blocks of the stored chain one after the other.
LEMMA ReplayNext ==
    ASSUME Basic, NEW r \in Nat, NEW t \in Block, Core(r, t), pc = "replay"
    PROVE  /\ \A b \in Replayable : b \in Block /\ b # Genesis /\ Parent[b] = head
                                       /\ Agree(b, t, Num[b])
           /\ Replayable = {} => head = t
<1> DEFINE n == Num[head]
<1>1. /\ head \in Block /\ call = "replay" /\ Agree(head, t, n) /\ Stored(blog, rev, t)
      /\ blog \in Seq(Block)
  BY DEF Basic, TypeOK, Core, Disk, AtRest, Resting
<1>2. /\ n \in Nat \ {0} /\ Num[t] \in Nat /\ n <= Num[t] /\ Chain[t][n] = head
      /\ Len(blog) \in Nat /\ Len(blog) <= Num[t] /\ Chain[t][Num[t]] = t
  BY <1>1, ChainType, LenProperties DEF Agree, Stored
<1> HIDE DEF n
<1>3. ASSUME NEW b \in Replayable
      PROVE  n + 1 <= Num[t] /\ b = Chain[t][n + 1]
  <2>1. CASE n < Len(blog)
    <3>1. b = blog[n + 1] /\ n + 1 \in 1 .. Len(blog)
      BY <1>2, <1>3, <2>1 DEF Replayable, n
    <3> QED
      BY <1>1, <1>2, <3>1 DEF Stored
  <2>2. CASE ~(n < Len(blog))
    <3>1. b \in rev /\ Num[b] = n + 1
      BY <1>3, <2>2 DEF Replayable, RowAbove, n
    <3>2. b \in Block /\ Agree(b, t, n + 1)
      BY <1>1, <3>1 DEF Stored
    <3> QED
      BY <3>1, <3>2, ChainType DEF Agree
  <2> QED
    BY <2>1, <2>2
<1>4. ASSUME NEW b \in Replayable
      PROVE  b \in Block /\ b # Genesis /\ Parent[b] = head /\ Agree(b, t, Num[b])
  <2>1. n \in 1 .. Num[t] - 1 /\ n + 1 \in 1 .. Num[t] /\ b = Chain[t][n + 1]
    BY <1>2, <1>3
  <2>2. b # Genesis /\ Parent[b] = head
    BY <1>2, <2>1, ChainUp
  <2> QED
    BY <2>1, <2>2, AncestorAgrees
<1>5. ASSUME Replayable = {} PROVE head = t
  <2>1. SUFFICES ASSUME n < Num[t] PROVE FALSE
    BY <1>2
  <2>2. ~(n < Len(blog))
    BY <1>5 DEF Replayable, n
  <2>3. n + 1 \in Len(blog) + 1 .. Num[t] /\ n + 1 \in 1 .. Num[t]
    BY <1>2, <2>1, <2>2
  <2>4. Chain[t][n + 1] \in rev /\ Num[Chain[t][n + 1]] = n + 1
    BY <1>1, <2>3, ChainPrefix DEF Stored
  <2> QED
    BY <1>5, <2>2, <2>4 DEF Replayable, RowAbove, n
<1> QED
  BY <1>4, <1>5

\* A replay adds the next block of the stored chain.
LEMMA StepReplayPush ==
    ASSUME IInv, replay_push_block
    PROVE  IInv'
<1>1. PICK r \in Nat, t \in Block : Core(r, t)
  BY DEF IInv
<1>2. Basic /\ pc = "replay"
  BY DEF IInv, replay_push_block
<1>3. PICK b \in Replayable : /\ b \notin Index /\ Parent[b] \in Index /\ UNCHANGED inChain
                              /\ add(b, "replay")
  BY DEF replay_push_block
<1>4. b \in Block /\ b # Genesis /\ Parent[b] = head /\ Agree(b, t, Num[b])
  BY <1>1, <1>2, <1>3, ReplayNext
<1>5. UNCHANGED <<state, durable, switch, failed, restarts>>
  BY DEF replay_push_block
<1>6. Basic' /\ Core(r, t)'
  BY <1>1, <1>2, <1>3, <1>4, <1>5, AddBlock DEF Resting
<1> QED
  BY <1>1, <1>6 DEF IInv

\* A replay ends at the last block stored.
LEMMA StepEndReplay ==
    ASSUME IInv, EndReplay
    PROVE  IInv'
<1> USE DEF Switching, Adding, Resting
<1>1. PICK r \in Nat, t \in Block : Core(r, t)
  BY DEF IInv
<1>2. /\ Basic /\ pc = "replay" /\ pc' = "check" /\ Replayable = {}
      /\ UNCHANGED <<order, inChain, fhead, head, db, base, rev, blog, call, cur, victim,
                     oldb, newb, pos, failed, restarts>>
  BY DEF IInv, EndReplay, forkdb, state, durable, switch
<1>3. head = t
  BY <1>1, <1>2, ReplayNext
<1>4. Basic'
  BY <1>2 DEF Basic, TypeOK, Phase
<1>5. Disk(t)' /\ Tree(r, t)'
  BY <1>1, <1>2 DEF Core, Disk, Tree, Anchor, Index
<1>6. AtRest(t)' /\ InAdd(r, t)' /\ InSwitch(r)'
  BY <1>1, <1>2, <1>3 DEF Core, AtRest, InAdd, InSwitch
<1> QED
  BY <1>1, <1>4, <1>5, <1>6 DEF IInv, Core

\* The assertions at the end of init hold after a replay.
LEMMA StepCheck ==
    ASSUME IInv, check
    PROVE  IInv'
<1> USE DEF Switching, Adding, Resting
<1>1. PICK r \in Nat, t \in Block : Core(r, t)
  BY DEF IInv
<1>2. /\ Basic /\ pc = "check" /\ call = "replay" /\ head = t /\ Stored(blog, rev, t)
      /\ Len(blog) > 1 /\ blog \in Seq(Block) /\ db = Chain[head] /\ base <= Len(blog)
      /\ base \in Nat
  BY <1>1 DEF IInv, Basic, TypeOK, check, Core, Disk, AtRest
<1>3. /\ Num[t] \in Nat /\ Len(blog) \in Nat /\ Len(blog) < Num[t] /\ Chain[t][Num[t]] = t
      /\ db \in Seq(Block) /\ Len(db) = Num[t]
  BY <1>1, <1>2, ChainType, LenProperties DEF Stored
<1>4. t \in rev /\ \A s \in rev : Num[s] <= Num[t]
  <2>1. Num[t] \in Len(blog) + 1 .. Num[t]
    BY <1>3
  <2> QED
    BY <1>2, <1>3, <2>1 DEF Stored, Agree
<1>5. StartupOK
  BY <1>2, <1>3, <1>4 DEF StartupOK
<1>6. /\ db' = SubSeq(db, 1, IF Num[head] > base THEN Num[head] ELSE base)
      /\ pc' = "idle" /\ call' = "push"
      /\ UNCHANGED <<order, inChain, fhead, head, base, rev, blog, cur, victim, oldb, newb, pos,
                     failed, restarts>>
  BY <1>5 DEF check, forkdb, durable, switch
<1>7. db' = db
  <2>1. db' = SubSeq(db, 1, Len(db))
    BY <1>2, <1>3, <1>6
  <2> QED
    BY <1>3, <2>1
<1>8. Basic'
  BY <1>2, <1>6, <1>7 DEF Basic, TypeOK, Phase
<1>9. Disk(t)' /\ Tree(r, t)'
  BY <1>1, <1>2, <1>6 DEF Core, Disk, Tree, Anchor, Index
<1>10. AtRest(t)' /\ InAdd(r, t)' /\ InSwitch(r)'
  BY <1>1, <1>2, <1>6 DEF Core, AtRest, InAdd, InSwitch
<1> QED
  BY <1>1, <1>8, <1>9, <1>10 DEF IInv, Core

\* A node with nothing but the genesis block.
LEMMA FreshNode ==
    /\ Rooted({Genesis}, Genesis, 0) /\ Ranked(<<Genesis>>, {}, Genesis)
    /\ ToSet(<<Genesis>>) = {Genesis} /\ Chain[Genesis] = <<Genesis>>
    /\ Ancestors(Genesis) \ {Genesis} = {} /\ Sound(Genesis) /\ Num[Genesis] = 1
    /\ Genesis \in Block
<1>1. Genesis \in Block /\ Num[Genesis] = 1 /\ Genesis \notin Bad
  BY TreeAssumption
<1>2. Chain[Genesis] = <<Genesis>>
  BY <1>1, ChainStep
<1>3. Rooted({Genesis}, Genesis, 0)
  BY <1>1, <1>2 DEF Rooted
<1>4. Ranked(<<Genesis>>, {}, Genesis)
  BY <1>1, BetterOrder DEF Ranked
<1>5. ToSet(<<Genesis>>) = {Genesis}
  BY DEF ToSet
<1>6. Sound(Genesis)
  BY <1>1, <1>2 DEF Sound
<1> QED
  BY <1>1, <1>2, <1>3, <1>4, <1>5, <1>6, AncestorsStep

\* A crash loses what is in memory; the stores still hold one valid chain.
LEMMA StepSteadyCrash ==
    ASSUME IInv, SteadyCrash
    PROVE  IInv'
<1> USE DEF Switching, Adding, Resting
<1>1. PICK r \in Nat, t \in Block : Core(r, t)
  BY DEF IInv
<1>2. /\ Basic /\ ~Switching /\ Len(blog) > 1 /\ restarts < MaxRestart /\ restarts' = restarts + 1
      /\ order' = <<Genesis>> /\ inChain' = {} /\ fhead' = Genesis
      /\ head' = Genesis /\ db' = <<Genesis>> /\ base' = 1 /\ pc' = "replay"
      /\ call' = "replay" /\ cur' = Genesis /\ victim' = Genesis
      /\ oldb' = <<>> /\ newb' = <<>> /\ pos' = 0 /\ UNCHANGED <<rev, blog, failed>>
  BY DEF IInv, SteadyCrash, Crash, durable
<1>3. Index' = {Genesis}
  BY <1>2, FreshNode DEF Index
<1>4. Basic'
  <2>1. TypeOK'
    BY <1>2, FreshNode, MaxRestartAssumption DEF Basic, TypeOK, Phase
  <2> QED
    BY <1>2, <2>1, FreshNode DEF Basic
<1>5. Disk(t)'
  <2>1. Agree(Genesis, t, Num[Genesis])
    BY FreshNode, ChainRoot, ChainType DEF Agree
  <2> QED
    BY <1>1, <1>2, <2>1 DEF Core, Disk
<1>6. Tree(0, t)'
  <2>1. Settled(t, Len(blog))
    BY <1>1, <1>2 DEF Core, Tree
  <2>2. 0 <= Len(blog)
    BY <1>2
  <2> QED
    BY <1>2, <1>3, <2>1, <2>2, FreshNode DEF Tree, Anchor
<1>7. AtRest(t)' /\ InAdd(0, t)' /\ InSwitch(0)'
  BY <1>2, FreshNode DEF AtRest, InAdd, InSwitch
<1> QED
  BY <1>4, <1>5, <1>6, <1>7 DEF IInv, Core

\* The node starts with the genesis block.
LEMMA InitIInv ==
    ASSUME Init
    PROVE  IInv
<1> USE DEF Switching, Adding, Resting
<1>1. Basic
  <2>1. TypeOK
    BY FreshNode, MaxRestartAssumption DEF Init, TypeOK, Phase
  <2> QED
    BY <2>1, FreshNode DEF Init, Basic
<1>2. Disk(Genesis)
  BY FreshNode DEF Init, Disk, Stored
<1>3. Tree(0, Genesis)
  BY FreshNode DEF Init, Tree, Anchor, Index
<1>4. AtRest(Genesis) /\ InAdd(0, Genesis) /\ InSwitch(0)
  BY FreshNode DEF Init, AtRest, InAdd, InSwitch
<1> QED
  BY <1>1, <1>2, <1>3, <1>4, FreshNode DEF IInv, Core
-----------------------------------------------------------------------------
(* The theorems. *)

\* Nothing but the steps above: a node crashes anywhere but within a switch.
SteadyNext == Input \/ Step \/ SteadyCrash

\* Every step keeps the invariant.
LEMMA StepIInv ==
    ASSUME IInv, [SteadyNext]_vars
    PROVE  IInv'
<1>1. CASE Input
  BY <1>1, PushBlock, ProduceBlock DEF Input
<1>2. CASE Step
  <2>1. ~load
    BY DEF IInv, Basic, load
  <2> QED
    BY <1>2, <2>1, StepLogBlock, StepTrimRow, StepEndPrune, StepKeepHead, StepExtendHead,
       StepRejectHead, StepBeginSwitch, StepPopOld, StepApplyNew, StepRejectNew, StepUnwindNew,
       StepReapplyOld, StepCommitProduced, StepReplayPush, StepEndReplay, StepCheck DEF Step
<1>3. CASE SteadyCrash
  BY <1>3, StepSteadyCrash
<1>4. CASE UNCHANGED vars
  <2>1. UNCHANGED <<order, inChain, fhead, head, db, base, rev, blog, pc, call, cur, victim,
                    oldb, newb, pos, failed, restarts>>
    BY <1>4 DEF vars, forkdb, state, durable, switch
  <2>2. PICK r \in Nat, t \in Block : Core(r, t)
    BY DEF IInv
  <2>3. Basic'
    BY <2>1 DEF IInv, Basic, TypeOK, Adding
  <2>4. Core(r, t)'
    BY <2>1, <2>2 DEF Core, Disk, Tree, AtRest, InAdd, InSwitch, Anchor, Index, OnBranch,
                      Branches, Switching, Adding, Resting
  <2> QED
    BY <2>2, <2>3, <2>4 DEF IInv
<1> QED
  BY <1>1, <1>2, <1>3, <1>4 DEF SteadyNext

\* The inductive invariant holds of a node that crashes anywhere but within a
\* switch, for every block tree, every order of arrival and any number of
\* crashes: the stores hold one valid chain, the index hangs together above its
\* root, and no branch that leaves the chain below the log can outrank it.
THEOREM Invariant == SteadySpec => []IInv
<1>1. Init => IInv
  BY InitIInv
<1>2. IInv /\ [SteadyNext]_vars => IInv'
  BY StepIInv
<1> QED
  BY <1>1, <1>2, PTL DEF SteadySpec, SteadyNext

\* A replay of the stores would end at the head, or is on its way there.
LEMMA TipIsStored ==
    ASSUME IInv
    PROVE  \E t \in Block : /\ Tip = t /\ Stored(blog, rev, t) /\ Sound(t)
                            /\ blog \in Seq(Block) /\ (call # "replay" => t = head)
<1>1. PICK r \in Nat, t \in Block : Core(r, t)
  BY DEF IInv
<1>2. Stored(blog, rev, t) /\ Sound(t) /\ blog \in Seq(Block) /\ (call # "replay" => t = head)
  BY <1>1 DEF IInv, Basic, TypeOK, Core, Disk
<1>3. Tip = t
  BY <1>1, <1>2, TipIs DEF Tip, TipOf
<1> QED
  BY <1>1, <1>2, <1>3

\* What Replays says of the stores.
LEMMA StoredReplays ==
    ASSUME NEW lg \in Seq(Block), NEW rv, NEW t \in Block, Stored(lg, rv, t), Sound(t)
    PROVE  /\ IsPrefix(lg, Chain[t])
           /\ {r \in rv : Num[r] > Len(lg)} = Ancestors(t) \ ToSet(lg)
           /\ Ancestors(t) \cap Bad = {}
<1> DEFINE L == Len(lg)
<1>1. /\ L \in Nat /\ L <= Num[t] /\ Num[t] \in Nat /\ \A n \in 1 .. L : lg[n] = Chain[t][n]
      /\ Chain[t] \in Seq(Block) /\ Len(Chain[t]) = Num[t] /\ DOMAIN lg = 1 .. L
  BY ChainType, LenProperties DEF Stored
<1>2. IsPrefix(lg, Chain[t])
  <2>1. lg = SubSeq(Chain[t], 1, L)
    BY <1>1
  <2> QED
    BY <1>1, <2>1 DEF IsPrefix
<1>3. Ancestors(t) \cap Bad = {}
  BY <1>1 DEF Ancestors, Sound
<1> HIDE DEF L
<1>4. ASSUME NEW x \in rv, Num[x] > L PROVE x \in Ancestors(t) \ ToSet(lg)
  <2>1. x \in Block /\ Agree(x, t, Num[x]) /\ Num[x] \in Nat
    BY ChainType DEF Stored
  <2>2. x \in Ancestors(t)
    BY <2>1, AncestorIff
  <2>3. ASSUME NEW n \in 1 .. L, lg[n] = x PROVE FALSE
    <3>1. n \in 1 .. Num[t] /\ x = Chain[t][n]
      BY <1>1, <2>3
    <3>2. Num[x] = n
      BY <3>1, ChainPrefix
    <3> QED
      BY <1>1, <1>4, <3>1, <3>2
  <2> QED
    BY <1>1, <2>2, <2>3 DEF ToSet
<1>5. ASSUME NEW x \in Ancestors(t), x \notin ToSet(lg) PROVE x \in rv /\ Num[x] > L
  <2>1. PICK n \in 1 .. Num[t] : x = Chain[t][n]
    BY <1>5 DEF Ancestors
  <2>2. Num[x] = n
    BY <2>1, ChainPrefix
  <2>3. n \notin 1 .. L
    BY <1>1, <1>5, <2>1 DEF ToSet
  <2>4. n \in L + 1 .. Num[t]
    BY <1>1, <2>1, <2>3
  <2> QED
    BY <1>1, <2>1, <2>2, <2>4 DEF Stored, L
<1>6. {r \in rv : Num[r] > L} = Ancestors(t) \ ToSet(lg)
  BY <1>4, <1>5
<1> QED
  BY <1>2, <1>3, <1>6 DEF L

\* The invariant implies what the runs check.
LEMMA InvariantImplies ==
    ASSUME IInv
    PROVE  StateSynced /\ Replays /\ AssertionsHold /\ OnBestFork /\ MarksFollowHead
<1>1. StateSynced /\ AssertionsHold
  BY DEF IInv, Basic, StateSynced, AssertionsHold
<1>2. PICK r \in Nat, t \in Block : Core(r, t)
  BY DEF IInv
<1>3. pc = "idle" => call # "replay" /\ fhead = head /\ Ranked(order, {}, head)
  BY <1>2 DEF Core, AtRest, Resting
<1>4. Replays
  <2>1. PICK u \in Block : /\ Tip = u /\ Stored(blog, rev, u) /\ Sound(u)
                           /\ blog \in Seq(Block) /\ (call # "replay" => u = head)
    BY TipIsStored
  <2> QED
    BY <1>3, <2>1, StoredReplays DEF Replays
<1>5. OnBestFork
  BY <1>3, RankedTop DEF OnBestFork, Index
<1>6. MarksFollowHead
  BY DEF IInv, Basic, Adding, MarksFollowHead
<1> QED
  BY <1>1, <1>4, <1>5, <1>6

\* Through switches, reversals, crashes and replays the chain state holds the
\* blocks of the chain of head, and only logged blocks are beyond undo
\* (pop_block never finds the undo stack empty).
THEOREM StateFollowsHead == SteadySpec => []StateSynced
BY InvariantImplies, Invariant, PTL

\* At every step the block log and reversible_blocks hold one chain of valid
\* blocks without gap or rival; between handlers it ends at head.
THEOREM StoresReplay == SteadySpec => []Replays
BY InvariantImplies, Invariant, PTL

\* Between handlers the head is the best block of the fork database.
THEOREM HeadIsBest == SteadySpec => []OnBestFork
BY InvariantImplies, Invariant, PTL

\* Between handlers in_current_chain marks the chain of head: a switch or a
\* reversal leaves no stale mark.
THEOREM MarksAreTheChain == SteadySpec => []MarksFollowHead
BY InvariantImplies, Invariant, PTL

-----------------------------------------------------------------------------
(* The node implements the ledger. *)

\* The steps that write neither store.
Silent ==
    \/ Input \/ EndPrune \/ KeepHead \/ RejectHead \/ BeginSwitch \/ RejectNew
    \/ replay_push_block \/ EndReplay \/ check \/ SteadyCrash

\* A step that writes neither store leaves the ledger alone.
LEMMA SilentTip ==
    ASSUME UNCHANGED durable
    PROVE  UNCHANGED <<blog, Tip>>
BY DEF durable, Tip

\* The ledger of a node that is not replaying ends at its head.
LEMMA TipMoves ==
    ASSUME IInv, IInv', call # "replay", UNCHANGED <<call, blog>>
    PROVE  Tip = head /\ Tip' = head' /\ blog[Len(blog)] = Chain[head][Len(blog)]
<1>1. Tip = head
  BY TipIsStored
<1>2. PICK r \in Nat, t \in Block : Core(r, t)'
  BY DEF IInv
<1>3. Stored(blog', rev', t) /\ blog' \in Seq(Block) /\ t = head'
  BY <1>2 DEF IInv, Basic, TypeOK, Core, Disk
<1>4. Tip' = TipOf(blog', rev')
  BY DEF Tip, TipOf
<1>5. Tip' = head'
  BY <1>2, <1>3, <1>4, TipIs
<1>6. blog[Len(blog)] = Chain[head][Len(blog)]
  <2>1. PICK u \in Block : u = head /\ Stored(blog, rev, u) /\ blog \in Seq(Block)
    BY TipIsStored
  <2>2. Len(blog) \in 1 .. Len(blog)
    BY <2>1, LenProperties DEF Stored
  <2> QED
    BY <2>1, <2>2 DEF Stored
<1> QED
  BY <1>1, <1>5, <1>6

\* A new head on top of the old one extends the ledger.
LEMMA ExtendsLedger ==
    ASSUME IInv, IInv', call # "replay", UNCHANGED <<call, blog>>,
           NEW b \in Block, b # Genesis, b \notin Bad, Parent[b] = head, head' = b
    PROVE  LedgerOnDisk!Next
<1>1. Tip = head /\ Tip' = b
  BY TipMoves
<1>2. LedgerOnDisk!Extend(b)
  BY <1>1 DEF LedgerOnDisk!Extend
<1> QED
  BY <1>2 DEF LedgerOnDisk!Next

\* A block is popped only from above the log.
LEMMA PopsAboveLog ==
    ASSUME Basic, NEW r \in Nat, NEW t \in Block, Core(r, t), pc \in {"pop", "unwind"}
    PROVE  /\ call = "push" /\ Len(blog) < Num[head] /\ Len(blog) \in 1 .. Num[head]
           /\ pc = "pop" => head = oldb[pos]
           /\ pc = "unwind" => head = newb[pos]
<1>1. PICK a \in Block, k \in Nat \ {0} : SwitchAt(a, k, r, t)
  BY SwitchFacts DEF Switching
<1>2. /\ k > Len(blog) \/ Len(blog) <= 1
      /\ pc = "pop" => pos \in 1 .. Len(oldb) /\ head = oldb[pos]
      /\ pc = "unwind" => pos \in 1 .. Len(newb) /\ head = newb[pos]
  BY <1>1 DEF SwitchAt, OnBranch, Branches
<1>3. Num[head] > k /\ Num[head] \in Nat
  <2>1. CASE pc = "pop"
    BY <1>1, <1>2, <2>1, AboveLinks, ChainType DEF SwitchAt
  <2>2. CASE pc = "unwind"
    BY <1>1, <1>2, <2>2, AboveLinks, ChainType DEF SwitchAt
  <2> QED
    BY <2>1, <2>2
<1>4. Len(blog) \in Nat /\ Len(blog) >= 1
  BY LenProperties DEF Basic, TypeOK, Core, Disk, Stored
<1>5. Len(blog) < Num[head] /\ Len(blog) \in 1 .. Num[head]
  BY <1>1, <1>2, <1>3, <1>4
<1> QED
  BY <1>1, <1>2, <1>5 DEF SwitchAt

\* Popping the head retracts the ledger by one block.
LEMMA RetractsLedger ==
    ASSUME IInv, IInv', pc \in {"pop", "unwind"}, pop_block(head)
    PROVE  LedgerOnDisk!Next
<1>1. PICK r \in Nat, t \in Block : Core(r, t)
  BY DEF IInv
<1>2. call = "push" /\ Len(blog) < Num[head] /\ Len(blog) \in 1 .. Num[head] /\ head \in Block
  BY <1>1, PopsAboveLog DEF IInv, Basic, TypeOK
<1>3. UNCHANGED <<call, blog>> /\ head' = Parent[head]
  BY DEF pop_block
<1>4. Tip = head /\ Tip' = head' /\ blog[Len(blog)] = Chain[head][Len(blog)]
  BY <1>2, <1>3, TipMoves
<1>5. Num[blog[Len(blog)]] = Len(blog)
  BY <1>2, <1>4, ChainPrefix
<1>6. head # blog[Len(blog)]
  BY <1>2, <1>5
<1>7. LedgerOnDisk!Retract
  BY <1>3, <1>4, <1>6 DEF LedgerOnDisk!Retract
<1> QED
  BY <1>7 DEF LedgerOnDisk!Next

\* Logging a block finalizes it in the ledger, or does nothing.
LEMMA FinalizesLedger ==
    ASSUME IInv, LogBlock
    PROVE  LedgerOnDisk!Next \/ UNCHANGED <<blog, Tip>>
<1>1. LedgerOnDisk!Chain = Chain
  BY DEF LedgerOnDisk!Chain, Chain
<1>2. /\ Tip' = Tip
      /\ \/ UNCHANGED blog
         \/ Len(blog) < Len(Chain[Tip]) /\ blog' = Append(blog, Chain[Tip][Len(blog) + 1])
  BY StepLogBlock
<1>3. CASE Len(blog) < Len(Chain[Tip]) /\ blog' = Append(blog, Chain[Tip][Len(blog) + 1])
  <2>1. LedgerOnDisk!Finalize
    BY <1>1, <1>2, <1>3 DEF LedgerOnDisk!Finalize
  <2> QED
    BY <2>1 DEF LedgerOnDisk!Next
<1> QED
  BY <1>2, <1>3

\* A block applied outside a replay extends the ledger, one applied in a replay
\* is there already.
LEMMA AppliesOnLedger ==
    ASSUME IInv, IInv', NEW b \in Block, b # Genesis, Applies(b), apply_block(b)
    PROVE  LedgerOnDisk!Next \/ UNCHANGED <<blog, Tip>>
<1>1. head' = b /\ UNCHANGED <<call, blog>> /\ b \notin Bad /\ Parent[b] = head
      /\ (call = "replay" => UNCHANGED rev)
  BY DEF apply_block, Applies
<1>2. CASE call = "replay"
  BY <1>1, <1>2, SilentTip DEF durable
<1>3. CASE call # "replay"
  BY <1>1, <1>3, ExtendsLedger
<1> QED
  BY <1>2, <1>3

\* Every step of the node is a step of the ledger or leaves it alone.
LEMMA StepLedger ==
    ASSUME IInv, IInv', [SteadyNext]_vars
    PROVE  LedgerOnDisk!Next \/ UNCHANGED <<blog, Tip>>
<1>1. PICK r \in Nat, t \in Block : Core(r, t)
  BY DEF IInv
<1>2. Basic /\ head \in Block /\ fhead \in Block /\ cur \in Block
  BY DEF IInv, Basic, TypeOK
<1>3. CASE Silent \/ UNCHANGED vars
  <2>1. UNCHANGED durable
    BY <1>3 DEF Silent, Input, push_block, produce_block, EndPrune, KeepHead, RejectHead,
                BeginSwitch, RejectNew, replay_push_block, EndReplay, check, SteadyCrash, Crash,
                vars, Throw
  <2> QED
    BY <2>1, SilentTip
<1>4. CASE LogBlock
  BY <1>4, FinalizesLedger
<1>5. CASE TrimRow
  BY <1>5, StepTrimRow
<1>6. CASE ExtendHead
  <2>1. CASE RowFree(fhead)
    <3>1. fhead # Genesis /\ Applies(fhead) /\ apply_block(fhead)
      BY <1>6, <2>1 DEF ExtendHead, Extends
    <3> QED
      BY <1>2, <3>1, AppliesOnLedger
  <2>2. CASE ~RowFree(fhead)
    <3>1. UNCHANGED durable
      BY <1>6, <2>2 DEF ExtendHead, Throw
    <3> QED
      BY <3>1, SilentTip
  <2> QED
    BY <2>1, <2>2
<1>7. CASE PopOld \/ UnwindNew
  <2>1. CASE pop_block(head)
    BY <1>7, <2>1, RetractsLedger DEF PopOld, UnwindNew
  <2>2. CASE ~pop_block(head)
    <3>1. UNCHANGED durable
      BY <1>1, <1>2, <1>7, <2>2, PopsAboveLog DEF PopOld, UnwindNew, Throw
    <3> QED
      BY <3>1, SilentTip
  <2> QED
    BY <2>1, <2>2
<1>8. CASE ApplyNew \/ ReapplyOld
  <2>1. PICK b \in Block :
          /\ b # Genesis
          /\ (Applies(b) /\ apply_block(b)) \/ UNCHANGED durable
    <3>1. PICK a \in Block, k \in Nat \ {0} : SwitchAt(a, k, r, t)
      BY <1>1, <1>2, <1>8, SwitchFacts DEF Switching, ApplyNew, ReapplyOld
    <3>2. CASE ApplyNew
      <4>1. pos \in 1 .. Len(newb)
        BY <3>1, <3>2 DEF SwitchAt, OnBranch, ApplyNew
      <4>2. newb[pos] \in Block \ {Genesis}
        BY <3>1, <4>1, AboveLinks DEF SwitchAt
      <4> QED
        BY <3>2, <4>2 DEF ApplyNew, Throw
    <3>3. CASE ReapplyOld
      <4>1. pos \in 1 .. Len(oldb)
        BY <3>1, <3>3 DEF SwitchAt, OnBranch, ReapplyOld
      <4>2. oldb[pos] \in Block \ {Genesis}
        BY <3>1, <4>1, AboveLinks DEF SwitchAt
      <4> QED
        BY <3>3, <4>2 DEF ReapplyOld, Throw
    <3> QED
      BY <1>8, <3>2, <3>3
  <2> QED
    BY <2>1, AppliesOnLedger, SilentTip
<1>9. CASE CommitProduced
  <2>1. /\ call = "produce" /\ cur # Genesis /\ Parent[cur] = head /\ cur \notin Bad
    BY <1>1, <1>9 DEF Core, InAdd, Adding, CommitProduced
  <2>2. CASE UNCHANGED durable
    BY <2>2, SilentTip
  <2>3. CASE ~UNCHANGED durable
    <3>1. head' = cur /\ UNCHANGED <<call, blog>>
      BY <1>9, <2>3 DEF CommitProduced, Throw
    <3> QED
      BY <1>2, <2>1, <3>1, ExtendsLedger
  <2> QED
    BY <2>2, <2>3
<1>10. ~load
  BY DEF IInv, Basic, load
<1> QED
  BY <1>3, <1>4, <1>5, <1>6, <1>7, <1>8, <1>9, <1>10 DEF SteadyNext, Step, Silent

\* Read from disk the node is the abstract ledger: the log only grows, the tip
\* moves by one valid block, never below the log, and neither a crash nor a
\* replay moves it.
THEOREM NodeImplementsLedger == SteadySpec => ImplementsLedger
<1>1. Init => LedgerOnDisk!Init
  BY DEF Init, LedgerOnDisk!Init, Tip, Last
<1>2. IInv /\ IInv' /\ [SteadyNext]_vars => [LedgerOnDisk!Next]_LedgerOnDisk!vars
  BY StepLedger DEF LedgerOnDisk!vars
<1> QED
  BY <1>1, <1>2, Invariant, PTL DEF SteadySpec, SteadyNext, ImplementsLedger, LedgerOnDisk!Spec

===============================================================================
