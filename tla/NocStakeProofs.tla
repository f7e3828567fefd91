--------------------------- MODULE NocStakeProofs ---------------------------
(***************************************************************************)
(* Proofs that the books of the system contract add up, for any number of  *)
(* voters and producers, any amounts and any number of actions.            *)
(*                                                                         *)
(* The properties are not inductive by themselves: power is kept in units  *)
(* by the rows and in tokens by the producer, so that the two can only     *)
(* agree when every division is exact.  RowsOK adds that: the power of a   *)
(* row, and of each static vote in it, is a whole number of tokens, a vote *)
(* is ten times its power, no age is settled in the future and a vote that *)
(* has ended has no power.  Then every row has so many tokens of power,    *)
(* ages by that many with every block, and each operation changes a row    *)
(* and its producer alike.                                                 *)
(***************************************************************************)
EXTENDS NocStake, Induction, SequenceTheorems, TLAPS

-----------------------------------------------------------------------------
(* Whole numbers of tokens. *)

\* A whole number of tokens.
Whole(p) == p % Unit = 0

\* A whole number of tokens is so many times the unit.
LEMMA WholeParts ==
    ASSUME NEW p \in Nat, Whole(p)
    PROVE  p \div Unit \in Nat /\ p = Unit * (p \div Unit)
BY AmountAssumption DEF Whole

\* So many times the unit is a whole number of tokens.
LEMMA TimesWhole ==
    ASSUME NEW k \in Nat
    PROVE  Unit * k \in Nat /\ Whole(Unit * k) /\ (Unit * k) \div Unit = k
BY AmountAssumption DEF Whole

\* Power over a number of blocks.
LEMMA WholeTimes ==
    ASSUME NEW p \in Nat, Whole(p), NEW d \in Nat
    PROVE  (p * d) \div Unit = (p \div Unit) * d /\ (p \div Unit) * d \in Nat /\ p * d \in Nat /\ Whole(p * d)
<1> DEFINE k == p \div Unit
<1>1. k \in Nat /\ p = Unit * k /\ k * d \in Nat /\ Unit \in Nat \ {0}
  BY WholeParts, AmountAssumption
<1> HIDE DEF k
<1>2. p * d = Unit * (k * d)
  BY <1>1
<1>3. (Unit * (k * d)) \div Unit = k * d /\ Whole(Unit * (k * d)) /\ Unit * (k * d) \in Nat
  BY <1>1, TimesWhole
<1> QED
  BY <1>1, <1>2, <1>3 DEF k

\* The sum of whole numbers of tokens is whole, and divides term by term.
LEMMA WholePlus ==
    ASSUME NEW p \in Nat, NEW q \in Nat, Whole(p), Whole(q)
    PROVE  p + q \in Nat /\ Whole(p + q) /\ (p + q) \div Unit = (p \div Unit) + (q \div Unit)
<1> DEFINE k == p \div Unit
           m == q \div Unit
<1>1. k \in Nat /\ p = Unit * k /\ m \in Nat /\ q = Unit * m /\ Unit \in Nat \ {0}
  BY WholeParts, AmountAssumption
<1> HIDE DEF k, m
<1>2. p + q = Unit * (k + m)
  BY <1>1
<1>3. (Unit * (k + m)) \div Unit = k + m /\ Whole(Unit * (k + m))
  BY <1>1, TimesWhole
<1> QED
  BY <1>1, <1>2, <1>3 DEF k, m

\* Ten tokens of votes are one of power.
LEMMA TenWhole ==
    ASSUME NEW p \in Nat, p % (10 * Unit) = 0
    PROVE  /\ p \div 10 \in Nat /\ p = 10 * (p \div 10) /\ Whole(p \div 10)
           /\ p \div (10 * Unit) = (p \div 10) \div Unit
<1> DEFINE k == p \div (10 * Unit)
<1>1. Unit \in Nat \ {0}
  BY AmountAssumption
<1>2. \A n \in Nat \ {0} : p % n = 0 => p \div n \in Nat /\ p = n * (p \div n)
  OBVIOUS
<1>3. k \in Nat /\ p = (10 * Unit) * k
  BY <1>1, <1>2
<1> HIDE DEF k
<1>4. p = 10 * (Unit * k) /\ Unit * k \in Nat
  BY <1>1, <1>3
<1>5. p \div 10 = Unit * k
  BY <1>4
<1> QED
  BY <1>3, <1>4, <1>5, TimesWhole DEF k

-----------------------------------------------------------------------------
(* Rows of votes. *)

\* A static vote at block at: its power is whole, a vote that has ended has none.
StaticOK(s, at) ==
    /\ s \in StaticVote /\ Whole(s.votepower) /\ s.height <= at
    /\ s.is_has_quited => s.votepower = 0 /\ s.vote = 0

\* All static votes of a row.
StaticsOK(ss, at) == ss \in Seq(StaticVote) /\ \A i \in DOMAIN ss : StaticOK(ss[i], at)

\* The part of a row that is not in static_votes.
PlainOK(row, at) ==
    row \in VoteInfo /\ row.vote = 10 * row.votepower /\ Whole(row.votepower) /\ row.height <= at

\* A row of votes at block at.
RowOK(row, at) == PlainOK(row, at) /\ StaticsOK(row.static_votes, at)

\* The age of the static votes at block at, and their power in tokens.
StaticsAge(ss, at) == SumFunction([i \in DOMAIN ss |-> StaticAge(ss[i], at)])
Tokens(ss) == SumFunction([i \in DOMAIN ss |-> ss[i].votepower \div Unit])

\* The lists of static votes have finitely many.
LEMMA DomainFinite ==
    ASSUME NEW ss \in Seq(StaticVote)
    PROVE  /\ DOMAIN ss = 1 .. Len(ss) /\ Len(ss) \in Nat /\ IsFiniteSet(DOMAIN ss)
           /\ \A i \in DOMAIN ss : ss[i] \in StaticVote
BY FS_Interval

\* Sums over the same list: power, tokens, age.
LEMMA StaticSums ==
    ASSUME NEW at \in Nat, NEW ss, StaticsOK(ss, at)
    PROVE  /\ Tokens(ss) \in Nat /\ StaticPower(ss) = Unit * Tokens(ss)
           /\ StaticVotes(ss) \in Nat /\ StaticsAge(ss, at) \in Nat
           /\ StaticsAge(ss, at + 1) = StaticsAge(ss, at) + Tokens(ss)
<1> DEFINE D == DOMAIN ss
           tok == [i \in D |-> ss[i].votepower \div Unit]
           pow == [i \in D |-> ss[i].votepower]
           vot == [i \in D |-> ss[i].vote]
           age == [i \in D |-> StaticAge(ss[i], at)]
           nxt == [i \in D |-> StaticAge(ss[i], at + 1)]
<1>0. IsFiniteSet(D) /\ Unit \in Nat \ {0}
  BY DomainFinite, AmountAssumption DEF StaticsOK
<1>1. ASSUME NEW i \in D
      PROVE  /\ tok[i] \in Nat /\ pow[i] = Unit * tok[i] /\ vot[i] \in Nat
             /\ age[i] \in Nat /\ nxt[i] = age[i] + tok[i]
  <2> DEFINE s == ss[i]
  <2>1. StaticOK(s, at)
    BY DEF StaticsOK
  <2> HIDE DEF s
  <2>2. /\ s.vote \in Nat /\ s.votepower \in Nat /\ s.age \in Nat /\ s.height \in Nat
        /\ s.is_has_quited \in BOOLEAN /\ Whole(s.votepower)
        /\ s.height <= at /\ (s.is_has_quited => s.votepower = 0)
    BY <2>1 DEF StaticOK, StaticVote
  <2>3. s.votepower \div Unit \in Nat /\ s.votepower = Unit * (s.votepower \div Unit)
    BY <2>2, WholeParts
  <2>4. at - s.height \in Nat /\ at + 1 - s.height \in Nat
    BY <2>2
  <2>5. /\ (s.votepower * (at - s.height)) \div Unit = (s.votepower \div Unit) * (at - s.height)
        /\ (s.votepower * (at + 1 - s.height)) \div Unit = (s.votepower \div Unit) * (at + 1 - s.height)
        /\ (s.votepower \div Unit) * (at - s.height) \in Nat
    BY <2>2, <2>4, WholeTimes
  <2>6. StaticAge(s, at) \in Nat /\ StaticAge(s, at + 1) = StaticAge(s, at) + (s.votepower \div Unit)
    <3> DEFINE k == s.votepower \div Unit
               d == at - s.height
    <3>1. k \in Nat /\ d \in Nat /\ k * d \in Nat /\ at + 1 - s.height = d + 1 /\ k * (d + 1) = k * d + k
      BY <2>2, <2>3, <2>4
    <3>2. CASE s.is_has_quited
      <4>1. k = 0
        BY <1>0, <2>2, <3>2
      <4> HIDE DEF k
      <4> QED
        BY <2>2, <3>2, <4>1 DEF StaticAge, k
    <3>3. CASE ~s.is_has_quited
      <4>0. StaticAge(s, at) = s.age + k * d /\ StaticAge(s, at + 1) = s.age + k * (at + 1 - s.height)
        BY <2>2, <2>3, <2>4, <2>5, <3>3 DEF StaticAge
      <4>1. StaticAge(s, at) = s.age + k * d /\ StaticAge(s, at + 1) = s.age + k * (d + 1)
        BY <3>1, <4>0
      <4> HIDE DEF k, d
      <4>2. StaticAge(s, at) \in Nat /\ StaticAge(s, at + 1) = StaticAge(s, at) + k
        BY <2>2, <3>1, <4>1
      <4> QED
        BY <4>2 DEF k
    <3> QED
      BY <3>2, <3>3, <2>2
  <2> QED
    BY <2>2, <2>3, <2>6 DEF s
<1> HIDE DEF tok, pow, vot, age, nxt
<1>2. \A i \in D : tok[i] \in Int /\ age[i] \in Int
  BY <1>1
<1>3. SumFunctionOnSet(tok, D) \in Nat /\ SumFunctionOnSet(vot, D) \in Nat /\ SumFunctionOnSet(age, D) \in Nat
  BY <1>0, <1>1, SumNat
<1>4. SumFunctionOnSet(pow, D) = Unit * SumFunctionOnSet(tok, D)
  BY <1>0, <1>1, <1>2, SumTimes
<1>5. SumFunctionOnSet(nxt, D) = SumFunctionOnSet(age, D) + SumFunctionOnSet(tok, D)
  BY <1>0, <1>1, <1>2, SumPlus
<1>6. DOMAIN tok = D /\ DOMAIN pow = D /\ DOMAIN vot = D /\ DOMAIN age = D /\ DOMAIN nxt = D
  BY DEF tok, pow, vot, age, nxt
<1>7. /\ Tokens(ss) = SumFunction(tok) /\ StaticPower(ss) = SumFunction(pow)
      /\ StaticVotes(ss) = SumFunction(vot) /\ StaticsAge(ss, at) = SumFunction(age)
      /\ StaticsAge(ss, at + 1) = SumFunction(nxt)
  BY DEF Tokens, StaticPower, StaticVotes, StaticsAge, tok, pow, vot, age, nxt
<1> QED
  BY <1>3, <1>4, <1>5, <1>6, <1>7 DEF SumFunction

\* The age of a row: settled, plain votes, static votes (newest_voteage).
LEMMA RowAgeParts ==
    ASSUME NEW row, NEW at
    PROVE  RowAge(row, at) = row.voteage + (row.votepower * (at - row.height)) \div Unit
                             + StaticsAge(row.static_votes, at)
BY DEF RowAge, StaticsAge

\* What a row has.
LEMMA RowSums ==
    ASSUME NEW at \in Nat, NEW row, RowOK(row, at)
    PROVE  /\ PowerOf(row) = (row.votepower \div Unit) + Tokens(row.static_votes)
           /\ PowerOf(row) \in Nat /\ VotesOf(row) \in Nat /\ RowAge(row, at) \in Nat
           /\ RowAge(row, at) = row.voteage + (row.votepower \div Unit) * (at - row.height)
                                + StaticsAge(row.static_votes, at)
           /\ RowAge(row, at + 1) = RowAge(row, at) + PowerOf(row)
<1> DEFINE ss == row.static_votes
           k  == row.votepower \div Unit
           d  == at - row.height
<1>1. /\ row.votepower \in Nat /\ row.vote \in Nat /\ row.voteage \in Nat /\ row.height \in Nat
      /\ Whole(row.votepower) /\ row.height <= at /\ StaticsOK(ss, at)
  BY DEF RowOK, PlainOK, VoteInfo
<1>2. /\ Tokens(ss) \in Nat /\ StaticPower(ss) = Unit * Tokens(ss) /\ StaticVotes(ss) \in Nat
      /\ StaticsAge(ss, at) \in Nat /\ StaticsAge(ss, at + 1) = StaticsAge(ss, at) + Tokens(ss)
  BY <1>1, StaticSums
<1>3. d \in Nat /\ at + 1 - row.height = d + 1
  BY <1>1
<1>4. k \in Nat /\ k * d \in Nat /\ k * (d + 1) = k * d + k
  BY <1>1, <1>3, WholeParts
<1>5. PowerOf(row) = k + Tokens(ss)
  <2>1. StaticPower(ss) \in Nat /\ Whole(StaticPower(ss)) /\ StaticPower(ss) \div Unit = Tokens(ss)
    BY <1>2, TimesWhole
  <2> QED
    BY <1>1, <2>1, WholePlus DEF PowerOf
<1>7. \A n \in Nat : (row.votepower * n) \div Unit = k * n
  BY <1>1, WholeTimes
<1>8. VotesOf(row) \in Nat
  BY <1>1, <1>2 DEF VotesOf
<1>a. /\ RowAge(row, at) = row.voteage + k * d + StaticsAge(ss, at)
      /\ RowAge(row, at + 1) = row.voteage + k * (d + 1) + StaticsAge(ss, at + 1)
  <2>0. ASSUME NEW n PROVE RowAge(row, n) = row.voteage + (row.votepower * (n - row.height)) \div Unit
                                            + StaticsAge(ss, n)
    BY RowAgeParts
  <2>1. RowAge(row, at) = row.voteage + (row.votepower * d) \div Unit + StaticsAge(ss, at)
    BY <2>0
  <2>3. RowAge(row, at + 1) = row.voteage + (row.votepower * (at + 1 - row.height)) \div Unit
                              + StaticsAge(ss, at + 1)
    <3>1. PICK n : n = at + 1
      OBVIOUS
    <3>2. RowAge(row, n) = row.voteage + (row.votepower * (n - row.height)) \div Unit + StaticsAge(ss, n)
      BY <2>0
    <3> HIDE DEF ss
    <3> QED
      BY <1>1, <3>1, <3>2
  <2> HIDE DEF k, d, ss
  <2>2. (row.votepower * d) \div Unit = k * d /\ (row.votepower * (d + 1)) \div Unit = k * (d + 1)
    BY <1>3, <1>7
  <2> QED
    BY <1>3, <2>1, <2>2, <2>3
<1> HIDE DEF k, d, ss
<1>9. /\ PowerOf(row) \in Nat /\ RowAge(row, at) \in Nat
      /\ RowAge(row, at) = row.voteage + k * d + StaticsAge(ss, at)
      /\ RowAge(row, at + 1) = RowAge(row, at) + PowerOf(row)
  BY <1>1, <1>2, <1>3, <1>4, <1>5, <1>a
<1> QED
  BY <1>5, <1>8, <1>9 DEF k, d, ss

\* One static vote more.
LEMMA StaticAppend ==
    ASSUME NEW at \in Nat, NEW ss, StaticsOK(ss, at), NEW s, StaticOK(s, at)
    PROVE  /\ StaticsOK(Append(ss, s), at)
           /\ Tokens(Append(ss, s)) = Tokens(ss) + (s.votepower \div Unit)
           /\ StaticVotes(Append(ss, s)) = StaticVotes(ss) + s.vote
           /\ StaticsAge(Append(ss, s), at) = StaticsAge(ss, at) + StaticAge(s, at)
<1> DEFINE n == Len(ss)
           tt == Append(ss, s)
<1>1. ss \in Seq(StaticVote) /\ n \in Nat /\ DOMAIN ss = 1 .. n /\ s \in StaticVote
  BY DomainFinite DEF StaticsOK, StaticOK
<1>2. /\ tt \in Seq(StaticVote) /\ DOMAIN tt = 1 .. n + 1
      /\ tt[n + 1] = s /\ \A i \in 1 .. n : tt[i] = ss[i]
  BY <1>1, AppendProperties
<1>3. \A i \in 1 .. n + 1 : i = n + 1 \/ i \in 1 .. n
  BY <1>1
<1> HIDE DEF n, tt
<1>4. StaticsOK(tt, at)
  BY <1>1, <1>2, <1>3 DEF StaticsOK
<1>5. ASSUME NEW i \in 1 .. n + 1
      PROVE  tt[i].votepower \div Unit \in Int /\ tt[i].vote \in Int /\ StaticAge(tt[i], at) \in Int
  <2> DEFINE x == tt[i]
  <2>1. StaticOK(x, at)
    BY <1>2, <1>4 DEF StaticsOK
  <2> HIDE DEF x
  <2>2. /\ x.votepower \in Nat /\ x.vote \in Nat /\ x.age \in Nat /\ x.height \in Nat /\ x.height <= at
        /\ Whole(x.votepower) /\ x.is_has_quited \in BOOLEAN
    BY <2>1 DEF StaticOK, StaticVote
  <2>3. x.votepower \div Unit \in Nat /\ at - x.height \in Nat
    BY <2>2, WholeParts
  <2>4. (x.votepower * (at - x.height)) \div Unit \in Nat
    BY <2>2, <2>3, WholeTimes
  <2>5. StaticAge(x, at) \in Int
    BY <2>2, <2>4 DEF StaticAge
  <2> QED
    BY <2>2, <2>3, <2>5 DEF x
<1>6. Tokens(tt) = Tokens(ss) + (s.votepower \div Unit)
  <2> DEFINE f == [i \in DOMAIN ss |-> ss[i].votepower \div Unit]
             h == [i \in DOMAIN tt |-> tt[i].votepower \div Unit]
  <2>1. /\ DOMAIN f = 1 .. n /\ DOMAIN h = 1 .. n + 1 /\ h[n + 1] = s.votepower \div Unit /\ h[n + 1] \in Int
        /\ \A i \in 1 .. n : f[i] \in Int /\ h[i] = f[i]
    BY <1>1, <1>2, <1>3, <1>5
  <2> HIDE DEF f, h
  <2>2. SumFunction(h) = SumFunction(f) + h[n + 1]
    BY <1>1, <2>1, SumAppend
  <2> QED
    BY <2>1, <2>2 DEF Tokens, f, h
<1>7. StaticVotes(tt) = StaticVotes(ss) + s.vote
  <2> DEFINE f == [i \in DOMAIN ss |-> ss[i].vote]
             h == [i \in DOMAIN tt |-> tt[i].vote]
  <2>1. /\ DOMAIN f = 1 .. n /\ DOMAIN h = 1 .. n + 1 /\ h[n + 1] = s.vote /\ h[n + 1] \in Int
        /\ \A i \in 1 .. n : f[i] \in Int /\ h[i] = f[i]
    BY <1>1, <1>2, <1>3, <1>5
  <2> HIDE DEF f, h
  <2>2. SumFunction(h) = SumFunction(f) + h[n + 1]
    BY <1>1, <2>1, SumAppend
  <2> QED
    BY <2>1, <2>2 DEF StaticVotes, f, h
<1>8. StaticsAge(tt, at) = StaticsAge(ss, at) + StaticAge(s, at)
  <2> DEFINE f == [i \in DOMAIN ss |-> StaticAge(ss[i], at)]
             h == [i \in DOMAIN tt |-> StaticAge(tt[i], at)]
  <2>1. /\ DOMAIN f = 1 .. n /\ DOMAIN h = 1 .. n + 1 /\ h[n + 1] = StaticAge(s, at) /\ h[n + 1] \in Int
        /\ \A i \in 1 .. n : f[i] \in Int /\ h[i] = f[i]
    BY <1>1, <1>2, <1>3, <1>5
  <2> HIDE DEF f, h
  <2>2. SumFunction(h) = SumFunction(f) + h[n + 1]
    BY <1>1, <2>1, SumAppend
  <2> QED
    BY <2>1, <2>2 DEF StaticsAge, f, h
<1> QED
  BY <1>4, <1>6, <1>7, <1>8 DEF tt

\* An empty list.
LEMMA StaticEmpty ==
    ASSUME NEW at \in Nat
    PROVE  StaticsOK(<<>>, at) /\ Tokens(<<>>) = 0 /\ StaticVotes(<<>>) = 0 /\ StaticsAge(<<>>, at) = 0
<1>1. StaticsOK(<<>>, at)
  BY DEF StaticsOK
<1>2. DOMAIN <<>> = {}
  OBVIOUS
<1>3. ASSUME NEW f, DOMAIN f = {} PROVE SumFunction(f) = 0
  BY <1>3, SumEmpty DEF SumFunction
<1> QED
  BY <1>1, <1>2, <1>3 DEF Tokens, StaticVotes, StaticsAge

-----------------------------------------------------------------------------
(* Kept. *)

\* The recursion of Kept, as one step and as what its function is.
KeptStep(g, s, i) ==
    CASE i = 0 -> <<>>
      [] i > 0 /\ s[i].is_has_quited -> g[i - 1]
      [] OTHER -> Append(g[i - 1], s[i])
IsKept(g, s) == g = [i \in 0 .. Len(s) |-> KeptStep(g, s, i)]
KeptOf(s) == CHOOSE g : IsKept(g, s)

\* Kept is the last element of the list claim builds.
LEMMA KeptUnfolds ==
    ASSUME NEW s
    PROVE  Kept(s) = KeptOf(s)[Len(s)]
BY Zenon DEF Kept, KeptOf, IsKept, KeptStep

\* That list exists: the recursion of Kept has a solution.
LEMMA KeptExists ==
    ASSUME NEW ss \in Seq(StaticVote)
    PROVE  /\ KeptOf(ss)[0] = <<>>
           /\ \A i \in 0 .. Len(ss) - 1 :
                 KeptOf(ss)[i + 1] = IF ss[i + 1].is_has_quited THEN KeptOf(ss)[i]
                                     ELSE Append(KeptOf(ss)[i], ss[i + 1])
<1> DEFINE N == Len(ss)
           Upto(g, n) == \A i \in 0 .. N : i <= n => g[i] = KeptStep(g, ss, i)
           D == {n \in Nat : \E g : Upto(g, n)}
<1>0. N \in Nat
  OBVIOUS
<1>1. 0 \in D
  <2> DEFINE g == [i \in 0 .. N |-> <<>>]
  <2>1. Upto(g, 0)
    BY <1>0 DEF KeptStep
  <2> HIDE DEF g, Upto
  <2> QED
    BY <2>1
<1>2. ASSUME NEW n \in Nat, n \in D PROVE n + 1 \in D
  <2>1. PICK g : Upto(g, n)
    BY <1>2
  <2> DEFINE h == [i \in 0 .. N |-> IF i <= n THEN g[i] ELSE KeptStep(g, ss, i)]
  <2>2. ASSUME NEW i \in 0 .. N, i <= n + 1 PROVE h[i] = KeptStep(h, ss, i)
    <3>1. CASE i = 0
      BY <2>1, <3>1 DEF KeptStep
    <3>2. CASE i > 0
      <4>1. i - 1 \in 0 .. N /\ i - 1 <= n
        BY <1>0, <2>2, <3>2
      <4>2. h[i - 1] = g[i - 1]
        BY <4>1
      <4>3. h[i] = KeptStep(g, ss, i)
        BY <2>1
      <4> QED
        BY <3>2, <4>2, <4>3 DEF KeptStep
    <3> QED
      BY <3>1, <3>2
  <2>3. Upto(h, n + 1)
    BY <2>2
  <2> HIDE DEF h, Upto
  <2> QED
    BY <2>3
<1>3. Nat \subseteq D
  <2> HIDE DEF D
  <2> QED
    BY <1>1, <1>2, SetInduction
<1>4. PICK g : Upto(g, N)
  BY <1>0, <1>3
<1> DEFINE h == [i \in 0 .. N |-> g[i]]
<1>5. ASSUME NEW i \in 0 .. N PROVE h[i] = KeptStep(h, ss, i)
  <2>1. g[i] = KeptStep(g, ss, i)
    BY <1>0, <1>4
  <2>2. CASE i = 0
    BY <2>1, <2>2 DEF KeptStep
  <2>3. CASE i > 0
    <3>1. i - 1 \in 0 .. N
      BY <1>0, <2>3
    <3> QED
      BY <2>1, <2>3, <3>1 DEF KeptStep
  <2> QED
    BY <2>2, <2>3
<1>6. IsKept(h, ss)
  BY <1>5 DEF IsKept
<1>7. IsKept(KeptOf(ss), ss)
  BY <1>6, Zenon DEF KeptOf
<1>8. \A i \in 0 .. N : KeptOf(ss)[i] = KeptStep(KeptOf(ss), ss, i)
  BY <1>7, Zenon DEF IsKept
<1>9. ASSUME NEW i \in 0 .. N - 1 PROVE i + 1 \in 0 .. N /\ i + 1 > 0 /\ i + 1 # 0 /\ i + 1 - 1 = i
  BY <1>0
<1> HIDE DEF N
<1>10. KeptOf(ss)[0] = <<>>
  BY <1>0, <1>8 DEF KeptStep
<1>11. ASSUME NEW i \in 0 .. N - 1
      PROVE KeptOf(ss)[i + 1] = IF ss[i + 1].is_has_quited THEN KeptOf(ss)[i]
                                ELSE Append(KeptOf(ss)[i], ss[i + 1])
  <2>1. PICK j \in 0 .. N : j = i + 1
    BY <1>9
  <2>2. KeptOf(ss)[j] = KeptStep(KeptOf(ss), ss, j) /\ j > 0 /\ j # 0 /\ j - 1 = i
    BY <1>8, <1>9, <2>1
  <2>3. KeptOf(ss)[j] = IF ss[j].is_has_quited THEN KeptOf(ss)[i] ELSE Append(KeptOf(ss)[i], ss[j])
    BY <2>2 DEF KeptStep
  <2> QED
    BY <2>1, <2>3
<1> QED
  BY <1>10, <1>11 DEF N

\* Kept drops static votes that weigh nothing.
LEMMA KeptSums ==
    ASSUME NEW at \in Nat, NEW ss, StaticsOK(ss, at)
    PROVE  /\ StaticsOK(Kept(ss), at)
           /\ Tokens(Kept(ss)) = Tokens(ss) /\ StaticVotes(Kept(ss)) = StaticVotes(ss)
<1> DEFINE N == Len(ss)
           pre(i) == SubSeq(ss, 1, i)
           g == KeptOf(ss)
           Same(t, u) == /\ StaticsOK(t, at) /\ StaticsOK(u, at)
                         /\ Tokens(t) = Tokens(u) /\ StaticVotes(t) = StaticVotes(u)
           D == {i \in Nat : i <= N => Same(g[i], pre(i))}
<1>0. ss \in Seq(StaticVote) /\ N \in Nat /\ DOMAIN ss = 1 .. N
  BY DomainFinite DEF StaticsOK
<1>1. /\ g[0] = <<>>
      /\ \A i \in 0 .. N - 1 : g[i + 1] = IF ss[i + 1].is_has_quited THEN g[i] ELSE Append(g[i], ss[i + 1])
  BY <1>0, KeptExists
<1>2. pre(0) = <<>> /\ pre(N) = ss
  BY <1>0
<1>3. ASSUME NEW i \in Nat, i + 1 <= N PROVE pre(i + 1) = Append(pre(i), ss[i + 1])
  <2>1. /\ pre(i) \in Seq(StaticVote) /\ Len(pre(i)) = i /\ \A j \in 1 .. i : pre(i)[j] = ss[j]
        /\ pre(i + 1) \in Seq(StaticVote) /\ Len(pre(i + 1)) = i + 1
        /\ \A j \in 1 .. i + 1 : pre(i + 1)[j] = ss[j]
    BY <1>0, <1>3, SubSeqProperties
  <2>2. ss[i + 1] \in StaticVote
    BY <1>0, <1>3
  <2> HIDE DEF pre
  <2> DEFINE a == Append(pre(i), ss[i + 1])
  <2>3. a \in Seq(StaticVote) /\ Len(a) = i + 1 /\ a[i + 1] = ss[i + 1] /\ \A j \in 1 .. i : a[j] = pre(i)[j]
    BY <2>1, <2>2, AppendProperties
  <2> HIDE DEF a
  <2>4. \A j \in 1 .. i + 1 : a[j] = pre(i + 1)[j]
    <3> TAKE j \in 1 .. i + 1
    <3>1. CASE j = i + 1
      BY <2>1, <2>3, <3>1
    <3>2. CASE j # i + 1
      <4>1. j \in 1 .. i
        BY <3>2
      <4> QED
        BY <2>1, <2>3, <4>1
    <3> QED
      BY <3>1, <3>2
  <2>5. a = pre(i + 1)
    BY <2>1, <2>3, <2>4, SeqEqual
  <2> QED
    BY <2>5 DEF a
<1> HIDE DEF pre, g, N
<1>4. 0 \in D
  BY <1>1, <1>2, StaticEmpty
<1>5. ASSUME NEW i \in Nat, i \in D PROVE i + 1 \in D
  <2> SUFFICES ASSUME i + 1 <= N PROVE Same(g[i + 1], pre(i + 1))
    OBVIOUS
  <2> DEFINE s == ss[i + 1]
  <2>1. Same(g[i], pre(i)) /\ i \in 0 .. N - 1 /\ i + 1 \in 1 .. N
    BY <1>0, <1>5
  <2>2. StaticOK(s, at)
    BY <1>0, <2>1 DEF StaticsOK
  <2>3. pre(i + 1) = Append(pre(i), s) /\ g[i + 1] = IF s.is_has_quited THEN g[i] ELSE Append(g[i], s)
    BY <1>1, <1>3, <2>1
  <2> HIDE DEF s
  <2>4. /\ StaticsOK(Append(pre(i), s), at)
        /\ Tokens(Append(pre(i), s)) = Tokens(pre(i)) + (s.votepower \div Unit)
        /\ StaticVotes(Append(pre(i), s)) = StaticVotes(pre(i)) + s.vote
    BY <2>1, <2>2, StaticAppend
  <2>5. /\ StaticsOK(Append(g[i], s), at)
        /\ Tokens(Append(g[i], s)) = Tokens(g[i]) + (s.votepower \div Unit)
        /\ StaticVotes(Append(g[i], s)) = StaticVotes(g[i]) + s.vote
    BY <2>1, <2>2, StaticAppend
  <2>6. CASE s.is_has_quited
    <3>1. s.votepower \div Unit = 0 /\ s.vote = 0
      BY <2>2, <2>6, AmountAssumption DEF StaticOK
    <3>2. Tokens(pre(i)) \in Nat /\ StaticVotes(pre(i)) \in Nat
      BY <2>1, StaticSums
    <3>3. /\ Tokens(Append(pre(i), s)) = Tokens(pre(i))
          /\ StaticVotes(Append(pre(i), s)) = StaticVotes(pre(i))
      BY <2>4, <3>1, <3>2
    <3>4. g[i + 1] = g[i]
      BY <2>3, <2>6
    <3> QED
      BY <2>1, <2>3, <2>4, <3>3, <3>4
  <2>7. CASE ~s.is_has_quited
    BY <2>1, <2>3, <2>4, <2>5, <2>7
  <2> QED
    BY <2>6, <2>7
<1>6. N \in D
  <2> HIDE DEF D
  <2> QED
    BY <1>0, <1>4, <1>5, SetInduction
<1>7. Same(g[N], ss)
  BY <1>0, <1>2, <1>6
<1> QED
  BY <1>7, KeptUnfolds DEF g, N

\* Ages start again, powers stay.
LEMMA RenewedSums ==
    ASSUME now \in Nat, NEW ss, StaticsOK(ss, now)
    PROVE  /\ StaticsOK(Renewed(ss), now) /\ StaticsAge(Renewed(ss), now) = 0
           /\ Tokens(Renewed(ss)) = Tokens(ss) /\ StaticVotes(Renewed(ss)) = StaticVotes(ss)
<1> DEFINE tt == Renewed(ss)
<1>0. /\ ss \in Seq(StaticVote) /\ Len(ss) \in Nat /\ DOMAIN ss = 1 .. Len(ss) /\ IsFiniteSet(DOMAIN ss)
      /\ Unit \in Nat \ {0}
  BY DomainFinite, AmountAssumption DEF StaticsOK
<1>1. DOMAIN tt = DOMAIN ss /\ \A i \in DOMAIN ss : tt[i] = [ss[i] EXCEPT !.age = 0, !.height = now]
  BY DEF Renewed
<1>2. ASSUME NEW i \in DOMAIN ss
      PROVE  /\ tt[i] \in StaticVote /\ tt[i].age = 0 /\ tt[i].height = now
             /\ tt[i].votepower = ss[i].votepower /\ tt[i].vote = ss[i].vote
             /\ tt[i].is_has_quited = ss[i].is_has_quited
             /\ StaticOK(tt[i], now) /\ StaticAge(tt[i], now) = 0
  <2> DEFINE s == ss[i]
             t == tt[i]
  <2>1. StaticOK(s, now) /\ t = [s EXCEPT !.age = 0, !.height = now]
    BY <1>1 DEF StaticsOK
  <2> HIDE DEF s, t
  <2>2. /\ t \in StaticVote /\ t.age = 0 /\ t.height = now /\ t.votepower = s.votepower /\ t.vote = s.vote
        /\ t.is_has_quited = s.is_has_quited /\ s.votepower \in Nat
    BY <2>1 DEF StaticOK, StaticVote
  <2>3. StaticOK(t, now)
    BY <2>1, <2>2 DEF StaticOK
  <2>4. StaticAge(t, now) = 0
    <3>1. (t.votepower * (now - t.height)) \div Unit = 0
      BY <1>0, <2>2
    <3> QED
      BY <2>2, <3>1 DEF StaticAge
  <2> QED
    BY <2>2, <2>3, <2>4 DEF s, t
<1>3. tt \in Seq(StaticVote)
  <2>1. tt = [i \in 1 .. Len(ss) |-> tt[i]]
    BY <1>0 DEF Renewed
  <2> QED
    BY <1>0, <1>2, <2>1
<1> HIDE DEF tt
<1>4. StaticsOK(tt, now)
  BY <1>1, <1>2, <1>3 DEF StaticsOK
<1>5. StaticsAge(tt, now) = 0
  <2> DEFINE f == [i \in DOMAIN tt |-> StaticAge(tt[i], now)]
  <2>1. DOMAIN f = DOMAIN ss /\ \A i \in DOMAIN ss : f[i] = 0
    BY <1>1, <1>2
  <2> HIDE DEF f
  <2>2. SumFunctionOnSet(f, DOMAIN ss) = 0
    BY <1>0, <2>1, SumZero
  <2> QED
    BY <2>1, <2>2 DEF StaticsAge, SumFunction, f
<1>6. Tokens(tt) = Tokens(ss)
  <2>1. [i \in DOMAIN tt |-> tt[i].votepower \div Unit] = [i \in DOMAIN ss |-> ss[i].votepower \div Unit]
    BY <1>1, <1>2
  <2> QED
    BY <2>1 DEF Tokens
<1>7. StaticVotes(tt) = StaticVotes(ss)
  <2>1. [i \in DOMAIN tt |-> tt[i].vote] = [i \in DOMAIN ss |-> ss[i].vote]
    BY <1>1, <1>2
  <2> QED
    BY <2>1 DEF StaticVotes
<1> QED
  BY <1>4, <1>5, <1>6, <1>7 DEF tt

-----------------------------------------------------------------------------
(* What the operations do to a row. *)

\* claim: the age is gone, nothing else.
LEMMA RestartRow ==
    ASSUME now \in Nat, NEW row, RowOK(row, now)
    PROVE  /\ RowOK(Restart(row), now) /\ RowAge(Restart(row), now) = 0
           /\ PowerOf(Restart(row)) = PowerOf(row) /\ VotesOf(Restart(row)) = VotesOf(row)
           /\ Restart(row).vote = row.vote /\ Restart(row).votepower = row.votepower
           /\ Restart(row).voteage = 0 /\ Restart(row).height = now
<1> DEFINE r == Restart(row)
           ss == row.static_votes
           tt == Renewed(Kept(ss))
<1>1. /\ StaticsOK(Kept(ss), now) /\ Tokens(Kept(ss)) = Tokens(ss) /\ StaticVotes(Kept(ss)) = StaticVotes(ss)
  BY KeptSums DEF RowOK
<1>2. /\ StaticsOK(tt, now) /\ StaticsAge(tt, now) = 0 /\ Tokens(tt) = Tokens(ss)
      /\ StaticVotes(tt) = StaticVotes(ss)
  BY <1>1, RenewedSums
<1>3. row \in VoteInfo
  BY DEF RowOK, PlainOK
<1> HIDE DEF tt
<1>4. r = [row EXCEPT !.voteage = 0, !.height = now, !.static_votes = tt]
  BY DEF Restart, tt
<1> HIDE DEF r
<1>5. /\ r.vote = row.vote /\ r.votepower = row.votepower /\ r.voteage = 0 /\ r.height = now
      /\ r.static_votes = tt /\ r \in VoteInfo
  BY <1>2, <1>3, <1>4 DEF VoteInfo, StaticsOK
<1>6. RowOK(r, now)
  BY <1>2, <1>5 DEF RowOK, PlainOK
<1>7. /\ PowerOf(r) = (r.votepower \div Unit) + Tokens(tt)
      /\ RowAge(r, now) = r.voteage + (r.votepower \div Unit) * (now - r.height) + StaticsAge(tt, now)
      /\ PowerOf(row) = (row.votepower \div Unit) + Tokens(ss)
  BY <1>5, <1>6, RowSums
<1>8. row.votepower \div Unit \in Nat
  BY WholeParts DEF RowOK, PlainOK, VoteInfo
<1>9. RowAge(r, now) = 0
  BY <1>2, <1>5, <1>7, <1>8
<1>10. PowerOf(r) = PowerOf(row) /\ VotesOf(r) = VotesOf(row)
  BY <1>2, <1>5, <1>7 DEF VotesOf
<1> QED
  BY <1>5, <1>6, <1>9, <1>10 DEF r

\* votebyreward: and votes are added.
LEMMA ReinvestedRow ==
    ASSUME now \in Nat, NEW row, RowOK(row, now), NEW whole \in Nat, whole % (10 * Unit) = 0
    PROVE  /\ RowOK(Reinvested(row, whole), now) /\ RowAge(Reinvested(row, whole), now) = 0
           /\ PowerOf(Reinvested(row, whole)) = PowerOf(row) + (vote_power(whole) \div Unit)
           /\ vote_power(whole) \div Unit \in Nat
           /\ VotesOf(Reinvested(row, whole)) = VotesOf(row) + whole
<1> DEFINE q == Restart(row)
           r == Reinvested(row, whole)
           p == whole \div 10
<1>1. /\ RowOK(q, now) /\ RowAge(q, now) = 0 /\ PowerOf(q) = PowerOf(row) /\ q.voteage = 0 /\ q.height = now
      /\ VotesOf(q) = VotesOf(row)
  BY RestartRow
<1>2. p \in Nat /\ whole = 10 * p /\ Whole(p) /\ p \div Unit \in Nat
  BY TenWhole, WholeParts
<1> HIDE DEF q, p
<1>3. r = [q EXCEPT !.vote = @ + whole, !.votepower = @ + p]
  BY DEF Reinvested, q, vote_power, p
<1> HIDE DEF r
<1>4. q \in VoteInfo /\ q.vote = 10 * q.votepower /\ Whole(q.votepower) /\ q.votepower \in Nat /\ q.vote \in Nat
  BY <1>1 DEF RowOK, PlainOK, VoteInfo
<1>5. /\ r \in VoteInfo /\ r.vote = q.vote + whole /\ r.votepower = q.votepower + p /\ r.voteage = 0
      /\ r.height = now /\ r.static_votes = q.static_votes
  <2>1. PICK m, k : m = q.vote + whole /\ k = q.votepower + p
    OBVIOUS
  <2>2. m \in Nat /\ k \in Nat
    BY <1>2, <1>4, <2>1
  <2>3. r = [q EXCEPT !.vote = m, !.votepower = k]
    BY <1>3, <2>1
  <2>4. /\ r \in VoteInfo /\ r.vote = m /\ r.votepower = k /\ r.voteage = q.voteage
        /\ r.height = q.height /\ r.static_votes = q.static_votes
    BY <1>4, <2>2, <2>3 DEF VoteInfo
  <2> QED
    BY <1>1, <2>1, <2>4
<1>6. Whole(r.votepower) /\ r.votepower \div Unit = (q.votepower \div Unit) + (p \div Unit)
  BY <1>2, <1>4, <1>5, WholePlus
<1>7. r.vote = 10 * r.votepower
  BY <1>2, <1>4, <1>5
<1>8. RowOK(r, now)
  BY <1>1, <1>5, <1>6, <1>7 DEF RowOK, PlainOK
<1> DEFINE ss == q.static_votes
<1>9. /\ PowerOf(r) = (r.votepower \div Unit) + Tokens(ss)
      /\ RowAge(r, now) = r.voteage + (r.votepower \div Unit) * (now - r.height) + StaticsAge(ss, now)
      /\ PowerOf(q) = (q.votepower \div Unit) + Tokens(ss)
      /\ RowAge(q, now) = q.voteage + (q.votepower \div Unit) * (now - q.height) + StaticsAge(ss, now)
  BY <1>1, <1>5, <1>8, RowSums
<1>10. Tokens(ss) \in Nat /\ StaticsAge(ss, now) \in Nat /\ StaticVotes(ss) \in Nat
  BY <1>1, StaticSums DEF RowOK
<1>14. VotesOf(r) = VotesOf(q) + whole
  BY <1>4, <1>5, <1>10 DEF VotesOf
<1>11. q.votepower \div Unit \in Nat /\ r.votepower \div Unit \in Nat
  BY <1>2, <1>4, <1>6, WholeParts
<1> HIDE DEF ss
<1>12. PowerOf(r) = PowerOf(q) + (p \div Unit)
  BY <1>2, <1>6, <1>9, <1>10, <1>11
<1>13. RowAge(r, now) = 0
  BY <1>1, <1>5, <1>9, <1>10, <1>11
<1> QED
  BY <1>1, <1>2, <1>8, <1>12, <1>13, <1>14 DEF r, p, vote_power

\* vote: the row has the age it had and the excess.
LEMMA VotedRow ==
    ASSUME now \in Nat, NEW row, RowOK(row, now), NEW stake \in Nat, stake % (10 * Unit) = 0
    PROVE  /\ RowOK(Voted(row, stake), now) /\ Overcounted(row) \in Nat
           /\ RowAge(Voted(row, stake), now) = RowAge(row, now) + Overcounted(row)
           /\ (stake - row.vote) \div (10 * Unit) \in Int
           /\ stake - row.vote <= 0 => (stake - row.vote) \div (10 * Unit) <= 0
           /\ PowerOf(Voted(row, stake)) = PowerOf(row) + ((stake - row.vote) \div (10 * Unit))
           /\ VotesOf(Voted(row, stake)) = VotesOf(row) + (stake - row.vote)
<1> DEFINE r == Voted(row, stake)
           p == stake \div 10
           k == p \div Unit
           m == row.votepower \div Unit
           d == now - row.height
           ss == row.static_votes
<1>0. Unit \in Nat \ {0}
  BY AmountAssumption
<1>1. /\ row \in VoteInfo /\ row.vote = 10 * row.votepower /\ Whole(row.votepower) /\ row.height <= now
      /\ row.votepower \in Nat /\ row.vote \in Nat /\ row.height \in Nat /\ row.voteage \in Nat
      /\ StaticsOK(ss, now)
  BY DEF RowOK, PlainOK, VoteInfo
<1>2. p \in Nat /\ stake = 10 * p /\ Whole(p) /\ k \in Nat /\ p = Unit * k
  BY TenWhole, WholeParts
<1>3. m \in Nat /\ row.votepower = Unit * m /\ d \in Nat
  BY <1>1, WholeParts
<1> HIDE DEF p, k, m, d, ss
<1>4. row.vote \div Unit = 10 * m
  <2>1. row.vote = Unit * (10 * m) /\ 10 * m \in Nat
    BY <1>0, <1>1, <1>3
  <2> QED
    BY <2>1, TimesWhole
<1>18. Overcounted(row) = (9 * m) * d
  <2>1. row.vote - row.votepower = Unit * (9 * m) /\ 9 * m \in Nat
    BY <1>0, <1>1, <1>3
  <2>2. (row.vote - row.votepower) \div Unit = 9 * m
    BY <2>1, TimesWhole
  <2> QED
    BY <2>2 DEF Overcounted, d
<1>5. (stake - row.vote) \div (10 * Unit) = k - m
  <2>1. stake - row.vote = (10 * Unit) * (k - m) /\ k - m \in Int
    BY <1>0, <1>1, <1>2, <1>3
  <2>2. \A n \in Nat \ {0}, x \in Int : (n * x) \div n = x
    OBVIOUS
  <2>3. 10 * Unit \in Nat \ {0}
    BY <1>0
  <2> QED
    BY <2>1, <2>2, <2>3
<1>6. stake - row.vote <= 0 => k - m <= 0
  <2>1. stake - row.vote = (10 * Unit) * (k - m) /\ k - m \in Int
    BY <1>0, <1>1, <1>2, <1>3
  <2>2. \A n \in Nat \ {0}, x \in Int : n * x <= 0 => x <= 0
    OBVIOUS
  <2>3. 10 * Unit \in Nat \ {0}
    BY <1>0
  <2> QED
    BY <2>1, <2>2, <2>3
<1>7. PICK a : a = row.voteage + (10 * m) * d
  OBVIOUS
<1>8. a \in Nat /\ (10 * m) * d \in Nat /\ m * d \in Nat /\ (9 * m) * d \in Nat /\ (10 * m) * d = m * d + (9 * m) * d
  BY <1>1, <1>3, <1>7
<1>9. r = [row EXCEPT !.voteage = a, !.height = now, !.vote = stake, !.votepower = p]
  BY <1>4, <1>7 DEF Voted, vote_power, p, d
<1> HIDE DEF r
<1>10. /\ r \in VoteInfo /\ r.voteage = a /\ r.height = now /\ r.vote = stake /\ r.votepower = p
       /\ r.static_votes = ss
  BY <1>1, <1>2, <1>8, <1>9 DEF VoteInfo, ss
<1>11. RowOK(r, now)
  BY <1>1, <1>2, <1>10 DEF RowOK, PlainOK
<1>12. /\ PowerOf(r) = k + Tokens(ss) /\ RowAge(r, now) = a + k * (now - r.height) + StaticsAge(ss, now)
  BY <1>10, <1>11, RowSums DEF k
<1>13. /\ PowerOf(row) = m + Tokens(ss) /\ RowAge(row, now) = row.voteage + m * d + StaticsAge(ss, now)
  BY RowSums DEF ss, m, d
<1>14. Tokens(ss) \in Nat /\ StaticsAge(ss, now) \in Nat /\ StaticVotes(ss) \in Nat
  BY <1>1, StaticSums
<1>15. RowAge(r, now) = RowAge(row, now) + (9 * m) * d /\ Overcounted(row) \in Nat
  <2>1. k * (now - r.height) = 0
    BY <1>2, <1>10
  <2> QED
    BY <1>1, <1>7, <1>8, <1>12, <1>13, <1>14, <1>18, <2>1
<1>16. PowerOf(r) = PowerOf(row) + (k - m)
  BY <1>2, <1>3, <1>12, <1>13, <1>14
<1>17. VotesOf(r) = VotesOf(row) + (stake - row.vote)
  BY <1>1, <1>10, <1>14 DEF VotesOf, ss
<1> QED
  BY <1>2, <1>3, <1>5, <1>6, <1>11, <1>15, <1>16, <1>17, <1>18 DEF r

\* votestatic: one static vote more, of no age.
LEMMA AppendedRow ==
    ASSUME now \in Nat, NEW row, RowOK(row, now), NEW stake \in Nat, Whole(stake),
           NEW tier \in [lock : Nat, power : Nat]
    PROVE  /\ RowOK(append_static_vote(row, stake, tier), now)
           /\ RowAge(append_static_vote(row, stake, tier), now) = RowAge(row, now)
           /\ (stake * tier.power) \div Unit \in Nat
           /\ PowerOf(append_static_vote(row, stake, tier)) = PowerOf(row) + ((stake * tier.power) \div Unit)
           /\ VotesOf(append_static_vote(row, stake, tier)) = VotesOf(row) + stake
<1> DEFINE r == append_static_vote(row, stake, tier)
           ss == row.static_votes
           p == stake * tier.power
           s == [vote |-> stake, votepower |-> p, age |-> 0, height |-> now,
                 unfreeze_block_num |-> now + tier.lock, is_has_quited |-> FALSE]
<1>1. /\ row \in VoteInfo /\ Whole(row.votepower) /\ row.votepower \in Nat /\ row.vote \in Nat
      /\ row.height <= now /\ row.height \in Nat /\ row.voteage \in Nat /\ StaticsOK(ss, now)
      /\ row.vote = 10 * row.votepower /\ Unit \in Nat \ {0}
  BY AmountAssumption DEF RowOK, PlainOK, VoteInfo
<1>2. p \in Nat /\ Whole(p) /\ p \div Unit \in Nat
  <2>1. p \in Nat /\ Whole(p)
    BY WholeTimes
  <2> QED
    BY <2>1, WholeParts
<1> HIDE DEF p
<1>3. StaticOK(s, now) /\ StaticAge(s, now) = 0 /\ s.vote = stake /\ s.votepower = p
  <2>1. now + tier.lock \in Nat
    OBVIOUS
  <2>2. /\ s \in StaticVote /\ s.vote = stake /\ s.votepower = p /\ s.age = 0 /\ s.height = now
        /\ s.is_has_quited = FALSE
    BY <1>2, <2>1 DEF StaticVote
  <2> HIDE DEF s
  <2>3. (s.votepower * (now - s.height)) \div Unit = 0
    BY <1>1, <1>2, <2>2
  <2> QED
    BY <1>2, <2>2, <2>3 DEF StaticOK, StaticAge
<1>4. r = [row EXCEPT !.static_votes = Append(ss, s)]
  BY DEF append_static_vote, p
<1> HIDE DEF s, r, ss
<1> DEFINE tt == Append(ss, s)
<1>5. /\ StaticsOK(tt, now) /\ Tokens(tt) = Tokens(ss) + (s.votepower \div Unit)
      /\ StaticVotes(tt) = StaticVotes(ss) + s.vote
      /\ StaticsAge(tt, now) = StaticsAge(ss, now) + StaticAge(s, now)
  BY <1>1, <1>3, StaticAppend
<1> HIDE DEF tt
<1>6. /\ r \in VoteInfo /\ r.voteage = row.voteage /\ r.height = row.height /\ r.vote = row.vote
      /\ r.votepower = row.votepower /\ r.static_votes = tt
  <2>1. tt \in Seq(StaticVote)
    BY <1>5 DEF StaticsOK
  <2> QED
    BY <1>1, <1>4, <2>1 DEF VoteInfo, tt
<1>7. RowOK(r, now)
  BY <1>1, <1>5, <1>6 DEF RowOK, PlainOK
<1> DEFINE m == row.votepower \div Unit
           q == m * (now - row.height)
<1>8. PowerOf(r) = m + Tokens(tt) /\ RowAge(r, now) = row.voteage + q + StaticsAge(tt, now)
  BY <1>6, <1>7, RowSums
<1>9. PowerOf(row) = m + Tokens(ss) /\ RowAge(row, now) = row.voteage + q + StaticsAge(ss, now)
  BY RowSums DEF ss
<1>10. Tokens(ss) \in Nat /\ StaticsAge(ss, now) \in Nat /\ StaticVotes(ss) \in Nat
  BY <1>1, StaticSums
<1>11. m \in Nat /\ now - row.height \in Nat /\ q \in Nat
  BY <1>1, WholeParts
<1> HIDE DEF m, q
<1>12. PowerOf(r) = PowerOf(row) + (p \div Unit)
  BY <1>2, <1>3, <1>5, <1>8, <1>9, <1>10, <1>11
<1>13. RowAge(r, now) = RowAge(row, now)
  BY <1>1, <1>3, <1>5, <1>8, <1>9, <1>10, <1>11
<1>14. VotesOf(r) = VotesOf(row) + stake
  BY <1>1, <1>3, <1>5, <1>6, <1>10 DEF VotesOf, ss
<1> QED
  BY <1>2, <1>7, <1>12, <1>13, <1>14 DEF r, p

\* quitsvote: the power of a static vote is gone, its age stays.
LEMMA QuittedRow ==
    ASSUME now \in Nat, NEW row, RowOK(row, now), NEW idx \in DOMAIN row.static_votes,
           ~row.static_votes[idx].is_has_quited
    PROVE  /\ RowOK(Quitted(row, idx), now)
           /\ RowAge(Quitted(row, idx), now) = RowAge(row, now)
           /\ row.static_votes[idx].votepower \div Unit \in Nat
           /\ PowerOf(Quitted(row, idx)) = PowerOf(row) + (-(row.static_votes[idx].votepower \div Unit))
           /\ Quitted(row, idx).static_votes[idx].vote = 0
           /\ row.static_votes[idx].vote \in Nat
           /\ VotesOf(Quitted(row, idx)) = VotesOf(row) + (-row.static_votes[idx].vote)
<1> DEFINE r == Quitted(row, idx)
           ss == row.static_votes
           s == ss[idx]
           t == Quit(s)
           tt == [ss EXCEPT ![idx] = t]
<1>1. /\ row \in VoteInfo /\ Whole(row.votepower) /\ row.votepower \in Nat /\ row.vote \in Nat
      /\ row.height <= now /\ row.height \in Nat /\ row.voteage \in Nat /\ StaticsOK(ss, now)
      /\ row.vote = 10 * row.votepower /\ Unit \in Nat \ {0}
  BY AmountAssumption DEF RowOK, PlainOK, VoteInfo
<1>2. /\ StaticOK(s, now) /\ s \in StaticVote /\ s.votepower \in Nat /\ s.age \in Nat /\ s.height \in Nat
      /\ s.height <= now /\ Whole(s.votepower) /\ s.vote \in Nat
  BY <1>1 DEF StaticsOK, StaticOK, StaticVote
<1>3. s.votepower \div Unit \in Nat /\ (s.votepower * (now - s.height)) \div Unit \in Nat
  <2>1. s.votepower \div Unit \in Nat /\ now - s.height \in Nat
    BY <1>2, WholeParts
  <2> HIDE DEF s
  <2> QED
    BY <1>2, <2>1, WholeTimes
<1>4. PICK a : a = s.age + (s.votepower * (now - s.height)) \div Unit
  OBVIOUS
<1>5. a \in Nat
  BY <1>2, <1>3, <1>4
<1>6. ~s.is_has_quited /\ idx \in DOMAIN ss
  OBVIOUS
<1> HIDE DEF s
<1>7. t = [s EXCEPT !.is_has_quited = TRUE, !.age = a, !.height = now, !.votepower = 0, !.vote = 0]
  BY <1>4 DEF Quit
<1> HIDE DEF t
<1>8. /\ t \in StaticVote /\ t.is_has_quited = TRUE /\ t.age = a /\ t.height = now /\ t.votepower = 0
      /\ t.vote = 0
  BY <1>2, <1>5, <1>7 DEF StaticVote
<1>9. StaticOK(t, now) /\ t.votepower \div Unit = 0
  <2>1. Whole(0) /\ 0 \div Unit = 0
    BY <1>1 DEF Whole
  <2> QED
    BY <1>8, <2>1 DEF StaticOK
<1>10. StaticAge(t, now) = StaticAge(s, now) /\ StaticAge(t, now) \in Int
  BY <1>4, <1>5, <1>6, <1>8 DEF StaticAge
<1>11. r = [row EXCEPT !.static_votes = tt]
  BY <1>1 DEF Quitted, t, s, VoteInfo
<1> HIDE DEF ss, r
<1>12. /\ ss \in Seq(StaticVote) /\ DOMAIN ss = 1 .. Len(ss) /\ Len(ss) \in Nat /\ IsFiniteSet(DOMAIN ss)
  BY <1>1, DomainFinite DEF StaticsOK
<1>13. tt \in Seq(StaticVote) /\ DOMAIN tt = DOMAIN ss /\ tt[idx] = t /\ \A i \in DOMAIN ss \ {idx} : tt[i] = ss[i]
  BY <1>6, <1>8, <1>12
<1> HIDE DEF tt
<1>14. StaticsOK(tt, now)
  <2> SUFFICES ASSUME NEW i \in DOMAIN ss PROVE StaticOK(tt[i], now)
    BY <1>13 DEF StaticsOK
  <2>1. CASE i = idx
    BY <1>9, <1>13, <2>1
  <2>2. CASE i # idx
    BY <1>1, <1>13, <2>2 DEF StaticsOK
  <2> QED
    BY <2>1, <2>2
<1>15. Tokens(tt) = Tokens(ss) + (0 - (s.votepower \div Unit)) /\ StaticsAge(tt, now) = StaticsAge(ss, now)
  <2> DEFINE f == [i \in DOMAIN ss |-> ss[i].votepower \div Unit]
             h == [i \in DOMAIN tt |-> tt[i].votepower \div Unit]
             g == [i \in DOMAIN ss |-> StaticAge(ss[i], now)]
             k == [i \in DOMAIN tt |-> StaticAge(tt[i], now)]
  <2>1. ASSUME NEW i \in DOMAIN ss PROVE f[i] \in Int /\ g[i] \in Int
    <3> DEFINE x == ss[i]
    <3>1. StaticOK(x, now)
      BY <1>1 DEF StaticsOK
    <3> HIDE DEF x
    <3>2. /\ x.votepower \in Nat /\ x.age \in Nat /\ x.height \in Nat /\ x.height <= now
          /\ Whole(x.votepower) /\ x.is_has_quited \in BOOLEAN
      BY <3>1 DEF StaticOK, StaticVote
    <3>3. x.votepower \div Unit \in Nat /\ now - x.height \in Nat
      BY <3>2, WholeParts
    <3>4. (x.votepower * (now - x.height)) \div Unit \in Nat
      BY <3>2, <3>3, WholeTimes
    <3>5. StaticAge(x, now) \in Int
      BY <3>2, <3>4 DEF StaticAge
    <3> QED
      BY <3>3, <3>5 DEF x
  <2>2. /\ DOMAIN f = DOMAIN ss /\ DOMAIN h = DOMAIN ss /\ DOMAIN g = DOMAIN ss /\ DOMAIN k = DOMAIN ss
        /\ h[idx] = 0 /\ f[idx] = s.votepower \div Unit /\ k[idx] = g[idx] /\ k[idx] \in Int
        /\ \A i \in DOMAIN ss \ {idx} : h[i] = f[i] /\ k[i] = g[i]
    BY <1>6, <1>9, <1>10, <1>13 DEF s
  <2> HIDE DEF f, g, h, k
  <2>3. /\ SumFunctionOnSet(h, DOMAIN ss) = SumFunctionOnSet(f, DOMAIN ss) + (h[idx] - f[idx])
        /\ SumFunctionOnSet(k, DOMAIN ss) = SumFunctionOnSet(g, DOMAIN ss) + (k[idx] - g[idx])
        /\ SumFunctionOnSet(g, DOMAIN ss) \in Int
    <3> DEFINE D == DOMAIN ss
    <3>0. IsFiniteSet(D) /\ idx \in D
      BY <1>6, <1>12
    <3>1. (\A i \in D : f[i] \in Int) /\ \A i \in D : g[i] \in Int
      BY <2>1
    <3>2. h[idx] \in Int /\ (\A i \in D \ {idx} : h[i] = f[i])
      BY <2>2
    <3>6. k[idx] \in Int /\ (\A i \in D \ {idx} : k[i] = g[i])
      BY <2>2
    <3> HIDE DEF D
    <3>3. SumFunctionOnSet(h, D) = SumFunctionOnSet(f, D) + (h[idx] - f[idx])
      BY <3>0, <3>1, <3>2, SumUpdate
    <3>4. SumFunctionOnSet(k, D) = SumFunctionOnSet(g, D) + (k[idx] - g[idx])
      BY <3>0, <3>1, <3>6, SumUpdate
    <3>5. SumFunctionOnSet(g, D) \in Int
      BY <3>0, <3>1, SumInt
    <3> QED
      BY <3>3, <3>4, <3>5 DEF D
  <2>4. /\ SumFunctionOnSet(h, DOMAIN ss) = SumFunctionOnSet(f, DOMAIN ss) + (0 - (s.votepower \div Unit))
        /\ SumFunctionOnSet(k, DOMAIN ss) = SumFunctionOnSet(g, DOMAIN ss)
    BY <2>2, <2>3
  <2>5. /\ Tokens(tt) = SumFunctionOnSet(h, DOMAIN ss) /\ Tokens(ss) = SumFunctionOnSet(f, DOMAIN ss)
        /\ StaticsAge(tt, now) = SumFunctionOnSet(k, DOMAIN ss)
        /\ StaticsAge(ss, now) = SumFunctionOnSet(g, DOMAIN ss)
    BY <2>2 DEF Tokens, StaticsAge, SumFunction, f, g, h, k
  <2> QED
    BY <2>4, <2>5
<1>23. StaticVotes(tt) = StaticVotes(ss) + (0 - s.vote)
  <2> DEFINE f == [i \in DOMAIN ss |-> ss[i].vote]
             h == [i \in DOMAIN tt |-> tt[i].vote]
  <2>1. \A i \in DOMAIN ss : f[i] \in Int
    BY <1>1 DEF StaticsOK, StaticOK, StaticVote
  <2>2. /\ DOMAIN f = DOMAIN ss /\ DOMAIN h = DOMAIN ss /\ h[idx] = 0 /\ f[idx] = s.vote
        /\ \A i \in DOMAIN ss \ {idx} : h[i] = f[i]
    BY <1>6, <1>8, <1>13 DEF s
  <2> HIDE DEF f, h
  <2>3. SumFunctionOnSet(h, DOMAIN ss) = SumFunctionOnSet(f, DOMAIN ss) + (h[idx] - f[idx])
    <3> DEFINE D == DOMAIN ss
    <3>1. IsFiniteSet(D) /\ idx \in D /\ (\A i \in D : f[i] \in Int) /\ h[idx] \in Int /\ \A i \in D \ {idx} : h[i] = f[i]
      BY <1>6, <1>12, <2>1, <2>2
    <3> HIDE DEF D
    <3>2. SumFunctionOnSet(h, D) = SumFunctionOnSet(f, D) + (h[idx] - f[idx])
      BY <3>1, SumUpdate
    <3> QED
      BY <3>2 DEF D
  <2>4. StaticVotes(tt) = SumFunctionOnSet(h, DOMAIN ss) /\ StaticVotes(ss) = SumFunctionOnSet(f, DOMAIN ss)
    BY <2>2 DEF StaticVotes, SumFunction, f, h
  <2> QED
    BY <2>2, <2>3, <2>4
<1>16. /\ r \in VoteInfo /\ r.voteage = row.voteage /\ r.height = row.height /\ r.vote = row.vote
       /\ r.votepower = row.votepower /\ r.static_votes = tt
  BY <1>1, <1>11, <1>13 DEF VoteInfo
<1>17. RowOK(r, now)
  BY <1>1, <1>14, <1>16 DEF RowOK, PlainOK
<1> DEFINE m == row.votepower \div Unit
           q == m * (now - row.height)
<1>18. PowerOf(r) = m + Tokens(tt) /\ RowAge(r, now) = row.voteage + q + StaticsAge(tt, now)
  BY <1>16, <1>17, RowSums
<1>19. PowerOf(row) = m + Tokens(ss) /\ RowAge(row, now) = row.voteage + q + StaticsAge(ss, now)
  BY RowSums DEF ss
<1>20. Tokens(ss) \in Nat /\ m \in Nat
  BY <1>1, StaticSums, WholeParts
<1> HIDE DEF m, q
<1>21. PowerOf(r) = PowerOf(row) + (-(s.votepower \div Unit)) /\ RowAge(r, now) = RowAge(row, now)
  BY <1>3, <1>15, <1>18, <1>19, <1>20
<1>22. r.static_votes[idx].vote = 0
  BY <1>8, <1>13, <1>16
<1>24. VotesOf(r) = VotesOf(row) + (-s.vote)
  <2>1. StaticVotes(ss) \in Nat
    BY <1>1, StaticSums
  <2> QED
    BY <1>1, <1>2, <1>16, <1>23, <2>1 DEF VotesOf, ss
<1> QED
  BY <1>2, <1>3, <1>17, <1>21, <1>22, <1>24 DEF r, s, ss

-----------------------------------------------------------------------------
(* The invariant. *)

\* All rows are such.
RowsOK == \A v \in Voter, b \in BP : RowOK(votes[<<v, b>>], now)

\* Everything that is not about tokens.
VotesOK == PowersAdd /\ RowsOK /\ AgesAccounted

\* The inductive invariant.
IInv == VotesOK /\ VoteallAdds /\ LockedOwned /\ RewardsFunded

\* The power and the age of each voter's row with b.
Powers(b) == [v \in Voter |-> PowerOf(votes[<<v, b>>])]
Ages(b)   == [v \in Voter |-> RowAge(votes[<<v, b>>], now)]

\* The sums of the invariant, in terms of the fold.
LEMMA Sums ==
    /\ PowersAdd <=> TypeOK /\ \A b \in BP : bps[b].total_staked = SumFunctionOnSet(Powers(b), Voter)
    /\ AgesAccounted <=> \A b \in BP : SumFunctionOnSet(Ages(b), Voter) = newest_total_voteage(b) + excess[b]
BY DEF PowersAdd, AgesAccounted, AgeOf, newest_voteage, Powers, Ages, SumFunction

\* The same after a step.
LEMMA SumsPrime ==
    /\ PowersAdd' <=> TypeOK' /\ \A b \in BP : bps'[b].total_staked = SumFunctionOnSet(Powers(b)', Voter)
    /\ AgesAccounted' <=> \A b \in BP : SumFunctionOnSet(Ages(b)', Voter) = newest_total_voteage(b)' + excess'[b]
BY DEF PowersAdd, AgesAccounted, AgeOf, newest_voteage, Powers, Ages, SumFunction

\* Total of what the voters of a producer have.
LEMMA VoterSums ==
    ASSUME VotesOK, NEW b \in BP
    PROVE  /\ now \in Nat /\ IsFiniteSet(Voter)
           /\ \A v \in Voter : Powers(b)[v] \in Nat /\ Ages(b)[v] \in Nat
           /\ SumFunctionOnSet(Powers(b), Voter) \in Nat /\ SumFunctionOnSet(Ages(b), Voter) \in Nat
           /\ bps[b].total_staked = SumFunctionOnSet(Powers(b), Voter)
           /\ SumFunctionOnSet(Ages(b), Voter) = newest_total_voteage(b) + excess[b]
           /\ bps[b] \in BpInfo /\ newest_total_voteage(b) \in Int /\ excess[b] \in Nat
<1>1. now \in Nat /\ IsFiniteSet(Voter) /\ bps[b] \in BpInfo /\ excess[b] \in Nat
  BY AmountAssumption DEF VotesOK, PowersAdd, TypeOK
<1>2. ASSUME NEW v \in Voter PROVE Powers(b)[v] \in Nat /\ Ages(b)[v] \in Nat
  <2>1. RowOK(votes[<<v, b>>], now)
    BY DEF VotesOK, RowsOK
  <2>2. PowerOf(votes[<<v, b>>]) \in Nat /\ RowAge(votes[<<v, b>>], now) \in Nat
    BY <1>1, <2>1, RowSums
  <2> QED
    BY <2>2 DEF Powers, Ages
<1>3. SumFunctionOnSet(Powers(b), Voter) \in Nat /\ SumFunctionOnSet(Ages(b), Voter) \in Nat
  BY <1>1, <1>2, SumNat
<1>4. newest_total_voteage(b) \in Int
  BY <1>1 DEF newest_total_voteage, BpInfo
<1> QED
  BY <1>1, <1>2, <1>3, <1>4, Sums DEF VotesOK

\* The powers and ages of producers stay.
LEMMA SameVotes ==
    ASSUME VotesOK, TypeOK', now' = now, votes' = votes, excess' = excess,
           \A b \in BP : /\ bps'[b].total_staked = bps[b].total_staked
                         /\ bps'[b].total_voteage = bps[b].total_voteage
                         /\ bps'[b].height = bps[b].height
    PROVE  VotesOK'
<1>1. \A b \in BP : Powers(b)' = Powers(b) /\ Ages(b)' = Ages(b) /\ newest_total_voteage(b)' = newest_total_voteage(b)
  BY DEF Powers, Ages, newest_total_voteage
<1>2. \A b \in BP : /\ bps[b].total_staked = SumFunctionOnSet(Powers(b), Voter)
                    /\ SumFunctionOnSet(Ages(b), Voter) = newest_total_voteage(b) + excess[b]
  BY VoterSums
<1>3. PowersAdd' /\ AgesAccounted'
  BY <1>1, <1>2, SumsPrime
<1>4. RowsOK'
  BY DEF VotesOK, RowsOK
<1> QED
  BY <1>3, <1>4 DEF VotesOK

\* A block goes by: every producer ages by the power its voters have.
LEMMA NextBlock ==
    ASSUME VotesOK, TypeOK', now' = now + 1, votes' = votes, excess' = excess,
           \A b \in BP : /\ bps'[b].total_staked = bps[b].total_staked
                         /\ bps'[b].total_voteage = bps[b].total_voteage
                         /\ bps'[b].height = bps[b].height
    PROVE  VotesOK'
<1>0. now \in Nat
  BY DEF VotesOK, PowersAdd, TypeOK
<1>1. \A b \in BP : Powers(b)' = Powers(b)
  BY DEF Powers
<1>2. ASSUME NEW b \in BP PROVE SumFunctionOnSet(Ages(b)', Voter) = newest_total_voteage(b)' + excess'[b]
  <2> DEFINE P == SumFunctionOnSet(Powers(b), Voter)
             A == SumFunctionOnSet(Ages(b), Voter)
             f == Ages(b)'
  <2>1. /\ IsFiniteSet(Voter) /\ \A v \in Voter : Powers(b)[v] \in Int /\ Ages(b)[v] \in Int
        /\ P \in Nat /\ A \in Nat /\ bps[b].total_staked = P
        /\ A = newest_total_voteage(b) + excess[b] /\ bps[b] \in BpInfo /\ newest_total_voteage(b) \in Int
        /\ excess[b] \in Nat
    BY VoterSums
  <2>2. ASSUME NEW v \in Voter PROVE f[v] = Ages(b)[v] + Powers(b)[v]
    <3>1. RowOK(votes[<<v, b>>], now)
      BY DEF VotesOK, RowsOK
    <3>2. RowAge(votes[<<v, b>>], now + 1) = RowAge(votes[<<v, b>>], now) + PowerOf(votes[<<v, b>>])
      BY <1>0, <3>1, RowSums
    <3> QED
      BY <3>2 DEF Ages, Powers
  <2> HIDE DEF f
  <2>3. SumFunctionOnSet(f, Voter) = A + P
    BY <2>1, <2>2, SumPlus
  <2>4. newest_total_voteage(b)' = newest_total_voteage(b) + P
    <3>1. bps[b].total_voteage \in Int /\ bps[b].height \in Nat /\ bps[b].total_staked \in Int
      BY <2>1 DEF BpInfo
    <3>2. \A x, y, n, h \in Int : x + y * (n + 1 - h) = x + y * (n - h) + y
      OBVIOUS
    <3>3. newest_total_voteage(b)' = bps[b].total_voteage + bps[b].total_staked * (now + 1 - bps[b].height)
      <4>1. newest_total_voteage(b)' = bps'[b].total_voteage + bps'[b].total_staked * (now' - bps'[b].height)
        BY DEF newest_total_voteage
      <4>2. /\ bps'[b].total_staked = bps[b].total_staked /\ bps'[b].total_voteage = bps[b].total_voteage
            /\ bps'[b].height = bps[b].height
        OBVIOUS
      <4> QED
        BY <3>1, <1>0, <4>1, <4>2
    <3>4. newest_total_voteage(b) = bps[b].total_voteage + bps[b].total_staked * (now - bps[b].height)
      BY DEF newest_total_voteage
    <3> QED
      BY <1>0, <2>1, <3>1, <3>2, <3>3, <3>4
  <2> HIDE DEF P, A
  <2> QED
    BY <2>1, <2>3, <2>4 DEF f
<1>3. \A b \in BP : bps'[b].total_staked = SumFunctionOnSet(Powers(b)', Voter)
  BY <1>1, VoterSums
<1>4. PowersAdd' /\ AgesAccounted'
  BY <1>2, <1>3, SumsPrime
<1>5. RowsOK'
  <2> SUFFICES ASSUME NEW v \in Voter, NEW b \in BP PROVE RowOK(votes[<<v, b>>], now + 1)
    BY DEF RowsOK
  <2>1. RowOK(votes[<<v, b>>], now)
    BY DEF VotesOK, RowsOK
  <2> DEFINE row == votes[<<v, b>>]
  <2> HIDE DEF row
  <2>2. row.height \in Nat /\ row.height <= now /\ StaticsOK(row.static_votes, now)
    BY <2>1 DEF RowOK, PlainOK, VoteInfo, row
  <2>3. StaticsOK(row.static_votes, now + 1)
    <3> SUFFICES ASSUME NEW i \in DOMAIN row.static_votes PROVE StaticOK(row.static_votes[i], now + 1)
      BY <2>2 DEF StaticsOK
    <3>1. StaticOK(row.static_votes[i], now)
      BY <2>2 DEF StaticsOK
    <3>2. row.static_votes[i].height \in Nat
      BY <3>1 DEF StaticOK, StaticVote
    <3> QED
      BY <1>0, <3>1, <3>2 DEF StaticOK
  <2> QED
    BY <1>0, <2>1, <2>2, <2>3 DEF RowOK, PlainOK, row
<1> QED
  BY <1>4, <1>5 DEF VotesOK

\* A row changes, and its producer with it: by the power the row gains, and by
\* the age it gains but for the excess.
LEMMA RowChanges ==
    ASSUME VotesOK, TypeOK', now' = now, NEW v \in Voter, NEW b \in BP, NEW r, NEW p, NEW x \in Nat,
           votes' = [votes EXCEPT ![<<v, b>>] = r], bps' = [bps EXCEPT ![b] = p],
           excess'[b] = excess[b] + x, \A c \in BP \ {b} : excess'[c] = excess[c],
           RowOK(r, now), p \in BpInfo,
           p.total_staked = bps[b].total_staked + (PowerOf(r) - PowerOf(votes[<<v, b>>])),
           (p.total_voteage + p.total_staked * (now - p.height)) + x
               = newest_total_voteage(b) + (RowAge(r, now) - RowAge(votes[<<v, b>>], now))
    PROVE  VotesOK'
<1>1. votes \in [Voter \X BP -> VoteInfo] /\ bps \in [BP -> BpInfo] /\ now \in Nat
  BY DEF VotesOK, PowersAdd, TypeOK
<1>2. ASSUME NEW w \in Voter, NEW c \in BP
      PROVE  votes'[<<w, c>>] = IF w = v /\ c = b THEN r ELSE votes[<<w, c>>]
  BY <1>1
<1>3. RowsOK'
  <2> SUFFICES ASSUME NEW w \in Voter, NEW c \in BP PROVE RowOK(votes'[<<w, c>>], now)
    BY DEF RowsOK
  <2> QED
    BY <1>2 DEF VotesOK, RowsOK
<1>4. ASSUME NEW c \in BP
      PROVE  /\ bps'[c].total_staked = SumFunctionOnSet(Powers(c)', Voter)
             /\ SumFunctionOnSet(Ages(c)', Voter) = newest_total_voteage(c)' + excess'[c]
  <2>0. /\ IsFiniteSet(Voter) /\ \A w \in Voter : Powers(c)[w] \in Int /\ Ages(c)[w] \in Int
        /\ SumFunctionOnSet(Powers(c), Voter) \in Nat /\ SumFunctionOnSet(Ages(c), Voter) \in Nat
        /\ bps[c].total_staked = SumFunctionOnSet(Powers(c), Voter)
        /\ SumFunctionOnSet(Ages(c), Voter) = newest_total_voteage(c) + excess[c]
        /\ newest_total_voteage(c) \in Int /\ excess[c] \in Nat
    BY VoterSums
  <2>1. CASE c # b
    <3>1. Powers(c)' = Powers(c) /\ Ages(c)' = Ages(c)
      BY <1>2, <2>1 DEF Powers, Ages
    <3>2. bps'[c] = bps[c]
      BY <1>1, <2>1
    <3>3. newest_total_voteage(c)' = newest_total_voteage(c)
      BY <3>2 DEF newest_total_voteage
    <3>4. excess'[c] = excess[c]
      BY <2>1
    <3> QED
      BY <2>0, <3>1, <3>2, <3>3, <3>4
  <2>2. CASE c = b
    <3> DEFINE f == Powers(c)
               h == Powers(c)'
               g == Ages(c)
               k == Ages(c)'
    <3>1. PowerOf(r) \in Nat /\ RowAge(r, now) \in Nat
      BY <1>1, RowSums
    <3>2. /\ f[v] = PowerOf(votes[<<v, b>>]) /\ h[v] = PowerOf(r) /\ h[v] \in Int
          /\ g[v] = RowAge(votes[<<v, b>>], now) /\ k[v] = RowAge(r, now) /\ k[v] \in Int
          /\ \A w \in Voter \ {v} : h[w] = f[w] /\ k[w] = g[w]
      BY <1>2, <2>2, <3>1 DEF Powers, Ages
    <3> HIDE DEF f, g, h, k
    <3>3. SumFunctionOnSet(h, Voter) = SumFunctionOnSet(f, Voter) + (h[v] - f[v])
      BY <2>0, <3>2, SumUpdate DEF f
    <3>4. SumFunctionOnSet(k, Voter) = SumFunctionOnSet(g, Voter) + (k[v] - g[v])
      BY <2>0, <3>2, SumUpdate DEF g
    <3>5. bps'[c] = p
      BY <1>1, <2>2
    <3>6. bps'[c].total_staked = SumFunctionOnSet(h, Voter)
      BY <2>0, <2>2, <3>2, <3>3, <3>5 DEF f
    <3>7. newest_total_voteage(c)' = p.total_voteage + p.total_staked * (now - p.height)
      BY <3>5 DEF newest_total_voteage
    <3>8. p.total_voteage + p.total_staked * (now - p.height) \in Int
      BY <1>1 DEF BpInfo
    <3>9. f[v] \in Int /\ g[v] \in Int
      BY <2>0 DEF f, g
    <3>10. newest_total_voteage(c)' + x = newest_total_voteage(c) + (k[v] - g[v])
      BY <2>2, <3>2, <3>7
    <3>11. SumFunctionOnSet(k, Voter) = newest_total_voteage(c)' + excess'[c]
      BY <2>0, <2>2, <3>2, <3>4, <3>7, <3>8, <3>9, <3>10 DEF g
    <3> QED
      BY <3>6, <3>11 DEF h, k
  <2> QED
    BY <2>1, <2>2
<1>5. PowersAdd' /\ AgesAccounted'
  BY <1>4, SumsPrime
<1> QED
  BY <1>3, <1>5 DEF VotesOK

\* modify_bp_vote settles the age and adds the power.
LEMMA Modified ==
    ASSUME now \in Nat, NEW p \in BpInfo, NEW power \in Int
    PROVE  LET q == modify_bp_vote(p, power) IN
           /\ q \in BpInfo /\ q.total_staked = p.total_staked + power
           /\ q.total_voteage + q.total_staked * (now - q.height)
                  = p.total_voteage + p.total_staked * (now - p.height)
           /\ q.rewards_pool = p.rewards_pool /\ q.rewards_block = p.rewards_block /\ q.pawn = p.pawn
<1> DEFINE q == modify_bp_vote(p, power)
<1>1. /\ p.total_voteage \in Int /\ p.total_staked \in Int /\ p.height \in Nat
  BY DEF BpInfo
<1>2. PICK a, t : a = p.total_voteage + p.total_staked * (now - p.height) /\ t = p.total_staked + power
  OBVIOUS
<1>3. a \in Int /\ t \in Int
  BY <1>1, <1>2
<1>4. q = [p EXCEPT !.total_voteage = a, !.height = now, !.total_staked = t]
  BY <1>2 DEF modify_bp_vote
<1>5. /\ q \in BpInfo /\ q.total_staked = t /\ q.total_voteage = a /\ q.height = now
      /\ q.rewards_pool = p.rewards_pool /\ q.rewards_block = p.rewards_block /\ q.pawn = p.pawn
  BY <1>3, <1>4 DEF BpInfo
<1> HIDE DEF q
<1>6. q.total_voteage + q.total_staked * (now - q.height) = a
  BY <1>3, <1>5
<1>7. /\ q \in BpInfo /\ q.total_staked = p.total_staked + power
      /\ q.total_voteage + q.total_staked * (now - q.height)
             = p.total_voteage + p.total_staked * (now - p.height)
      /\ q.rewards_pool = p.rewards_pool /\ q.rewards_block = p.rewards_block /\ q.pawn = p.pawn
  BY <1>2, <1>5, <1>6
<1> QED
  BY <1>7 DEF q

-----------------------------------------------------------------------------
(* voteall. *)

\* What a voter has in votes, by producer.
VotesWith(v) == [b \in BP |-> VotesOf(votes[<<v, b>>])]

\* The votes of a voter change by what voteall changes, but for votes that end.
LEMMA VoteallChanges ==
    ASSUME VotesOK, VoteallAdds, NEW v \in Voter, NEW b \in BP, NEW r, NEW e \in Int, NEW n \in Nat,
           votes' = [votes EXCEPT ![<<v, b>>] = r],
           voteall'[v] = voteall[v] + e, \A w \in Voter \ {v} : voteall'[w] = voteall[w],
           ended'[v] = ended[v] + n, \A w \in Voter \ {v} : ended'[w] = ended[w],
           VotesOf(r) + n = VotesOf(votes[<<v, b>>]) + e, VotesOf(r) \in Nat
    PROVE  VoteallAdds'
<1>1. /\ votes \in [Voter \X BP -> VoteInfo] /\ voteall \in [Voter -> Nat] /\ now \in Nat /\ IsFiniteSet(BP)
      /\ ended \in [Voter -> Nat]
  BY AmountAssumption DEF VotesOK, PowersAdd, TypeOK
<1>2. \A w \in Voter : voteall[w] = SumFunctionOnSet(VotesWith(w), BP) + ended[w]
  BY DEF VoteallAdds, VotesWith, SumFunction
<1>3. ASSUME NEW w \in Voter, NEW c \in BP
      PROVE  votes'[<<w, c>>] = IF w = v /\ c = b THEN r ELSE votes[<<w, c>>]
  BY <1>1
<1>4. ASSUME NEW w \in Voter, NEW c \in BP PROVE VotesWith(w)[c] \in Nat
  <2>1. RowOK(votes[<<w, c>>], now)
    BY DEF VotesOK, RowsOK
  <2> QED
    BY <1>1, <2>1, RowSums DEF VotesWith
<1>5. ASSUME NEW w \in Voter PROVE voteall'[w] = SumFunctionOnSet(VotesWith(w)', BP) + ended'[w]
  <2>1. CASE w # v
    <3>1. VotesWith(w)' = VotesWith(w)
      BY <1>3, <2>1 DEF VotesWith
    <3> QED
      BY <1>1, <1>2, <2>1, <3>1
  <2>2. CASE w = v
    <3> DEFINE f == VotesWith(v)
               h == VotesWith(v)'
    <3>1. f[b] = VotesOf(votes[<<v, b>>]) /\ h[b] = VotesOf(r) /\ \A c \in BP \ {b} : h[c] = f[c]
      BY <1>3 DEF VotesWith
    <3>2. \A c \in BP : f[c] \in Int
      BY <1>4
    <3> HIDE DEF f, h
    <3>3. h[b] \in Int /\ (h[b] - f[b]) + n = e
      BY <3>1, <3>2
    <3>4. SumFunctionOnSet(h, BP) = SumFunctionOnSet(f, BP) + (h[b] - f[b]) /\ SumFunctionOnSet(f, BP) \in Int
      BY <1>1, <3>1, <3>2, <3>3, SumUpdate, SumInt
    <3>5. voteall[v] = SumFunctionOnSet(f, BP) + ended[v] /\ ended[v] \in Nat /\ f[b] \in Int
      BY <1>1, <1>2, <3>2 DEF f
    <3>6. voteall'[v] = SumFunctionOnSet(h, BP) + ended'[v]
      BY <3>3, <3>4, <3>5
    <3> QED
      BY <2>2, <3>6 DEF h
  <2> QED
    BY <2>1, <2>2
<1> QED
  BY <1>5 DEF VoteallAdds, VotesWith, SumFunction

\* A step that touches neither votes nor voteall.
LEMMA VoteallSame ==
    ASSUME VoteallAdds, votes' = votes, voteall' = voteall, ended' = ended
    PROVE  VoteallAdds'
BY DEF VoteallAdds

-----------------------------------------------------------------------------
(* The rewards that are attributed and not paid. *)

\* What is attributed to each producer.
Attributed == [b \in BP |-> bps[b].rewards_pool + bps[b].rewards_block]

\* What is attributed to the producers is a natural number, and RewardsFunded in terms
\* of the fold.
LEMMA Funds ==
    ASSUME TypeOK
    PROVE  /\ IsFiniteSet(BP) /\ \A b \in BP : Attributed[b] \in Nat
           /\ SumFunctionOnSet(Attributed, BP) \in Nat
           /\ RewardsFunded <=> balance[System] + repaid >= SumFunctionOnSet(Attributed, BP)
<1>1. IsFiniteSet(BP)
  BY AmountAssumption
<1>2. \A b \in BP : Attributed[b] \in Nat
  BY DEF Attributed, TypeOK, BpInfo
<1>3. SumFunctionOnSet(Attributed, BP) \in Nat
  BY <1>1, <1>2, SumNat
<1> QED
  BY <1>1, <1>2, <1>3 DEF RewardsFunded, Attributed, SumFunction

\* RewardsFunded after a step, in terms of the fold.
LEMMA FundsPrime ==
    RewardsFunded' <=> balance'[System] + repaid' >= SumFunctionOnSet(Attributed', BP)
BY DEF RewardsFunded, Attributed, SumFunction

\* Nothing is attributed and nothing is paid.
LEMMA FundedSame ==
    ASSUME TypeOK, TypeOK', RewardsFunded, balance'[System] + repaid' >= balance[System] + repaid,
           \A b \in BP : /\ bps'[b].rewards_pool = bps[b].rewards_pool
                         /\ bps'[b].rewards_block = bps[b].rewards_block
    PROVE  RewardsFunded'
<1>1. Attributed' = Attributed
  BY DEF Attributed
<1>2. balance[System] \in Nat /\ balance'[System] \in Nat /\ repaid \in Nat /\ repaid' \in Nat
  BY DEF TypeOK, Account
<1> QED
  BY <1>1, <1>2, Funds, FundsPrime

\* q is taken from what b has.
LEMMA FundedLess ==
    ASSUME TypeOK, NEW b \in BP, NEW q \in Nat, NEW p, bps' = [bps EXCEPT ![b] = p],
           p.rewards_pool + p.rewards_block = Attributed[b] - q
    PROVE  SumFunctionOnSet(Attributed', BP) = SumFunctionOnSet(Attributed, BP) - q
<1> DEFINE f == Attributed
           h == Attributed'
<1>1. IsFiniteSet(BP) /\ (\A c \in BP : f[c] \in Int) /\ SumFunctionOnSet(f, BP) \in Nat
  BY Funds
<1>2. bps \in [BP -> BpInfo]
  BY DEF TypeOK
<1>3. h[b] = f[b] - q /\ \A c \in BP \ {b} : h[c] = f[c]
  <2>1. bps'[b] = p /\ \A c \in BP \ {b} : bps'[c] = bps[c]
    BY <1>2
  <2>2. \A c \in BP : h[c] = bps'[c].rewards_pool + bps'[c].rewards_block
    BY DEF Attributed
  <2>3. \A c \in BP : f[c] = bps[c].rewards_pool + bps[c].rewards_block
    BY DEF Attributed
  <2>4. \A c \in BP \ {b} : h[c] = f[c]
    BY <2>1, <2>2, <2>3
  <2>5. h[b] = p.rewards_pool + p.rewards_block
    BY <2>1, <2>2
  <2> QED
    BY <2>4, <2>5
<1> HIDE DEF f, h
<1>4. h[b] \in Int /\ h[b] - f[b] = 0 - q
  BY <1>1, <1>3
<1>5. SumFunctionOnSet(h, BP) = SumFunctionOnSet(f, BP) + (h[b] - f[b])
  BY <1>1, <1>3, <1>4, SumUpdate
<1>6. SumFunctionOnSet(h, BP) = SumFunctionOnSet(f, BP) - q
  BY <1>1, <1>4, <1>5
<1> QED
  BY <1>6 DEF f, h

\* q is paid from what b has.
LEMMA FundedPaid ==
    ASSUME TypeOK, RewardsFunded, repaid' = repaid, NEW b \in BP, NEW q \in Nat, NEW p,
           balance'[System] = balance[System] - q, bps' = [bps EXCEPT ![b] = p],
           p.rewards_pool + p.rewards_block = Attributed[b] - q
    PROVE  RewardsFunded'
<1>1. balance[System] \in Nat /\ repaid \in Nat
  BY DEF TypeOK, Account
<1>2. balance[System] + repaid >= SumFunctionOnSet(Attributed, BP) /\ SumFunctionOnSet(Attributed, BP) \in Nat
  BY Funds
<1>3. SumFunctionOnSet(Attributed', BP) = SumFunctionOnSet(Attributed, BP) - q
  BY FundedLess
<1> QED
  BY <1>1, <1>2, <1>3, FundsPrime

\* The power each producer has.
Staked == [b \in BP |-> bps[b].total_staked]

\* The shares of a block's reward come to no more than the reward.
LEMMA SharesFunded ==
    ASSUME VotesOK, NEW left \in Nat, NEW producer \in BP, NEW scheduled \in SUBSET BP,
           NEW for_produce \in Nat, NEW for_bp \in Nat, NEW for_user \in Nat,
           for_produce + for_bp + for_user = left, ~(left > 0 /\ SharesTrap(scheduled)),
           bps' = reward_bps_and_user(producer, scheduled, for_produce, for_bp, for_user)
    PROVE  /\ bps' \in [BP -> BpInfo]
           /\ \A b \in BP : /\ bps'[b].total_staked = bps[b].total_staked
                            /\ bps'[b].total_voteage = bps[b].total_voteage
                            /\ bps'[b].height = bps[b].height /\ bps'[b].pawn = bps[b].pawn
           /\ SumFunctionOnSet(Attributed', BP) <= SumFunctionOnSet(Attributed, BP) + left
<1> DEFINE T  == TotalStaked(BP)
           TS == TotalStaked(scheduled)
<1>0. /\ TypeOK /\ IsFiniteSet(BP) /\ \A b \in BP : Attributed[b] \in Nat
      /\ SumFunctionOnSet(Attributed, BP) \in Nat /\ bps \in [BP -> BpInfo]
      /\ \A b \in BP : bps[b].total_staked \in Nat
  BY Funds, VoterSums DEF VotesOK, PowersAdd, TypeOK
<1>1. T = SumFunctionOnSet(Staked, BP)
  BY DEF TotalStaked, Staked, SumFunction
<1>2. CASE for_bp + for_user = 0 \/ T <= 0
  <2>1. bps' = bps
    BY <1>2 DEF reward_bps_and_user
  <2>2. Attributed' = Attributed
    BY <2>1 DEF Attributed
  <2> QED
    BY <1>0, <2>1, <2>2
<1>3. CASE ~(for_bp + for_user = 0 \/ T <= 0)
  <2> DEFINE part == [b \in BP |-> IF b \in scheduled THEN bps[b].total_staked ELSE 0]
             u == [b \in BP |-> (for_user * bps[b].total_staked) \div T]
             w == [b \in BP |-> IF TS > 0 THEN (for_bp * part[b]) \div TS ELSE 0]
             x == [b \in BP |-> IF b = producer THEN for_produce ELSE 0]
             uw == [b \in BP |-> u[b] + w[b]]
             inc == [b \in BP |-> uw[b] + x[b]]
             bound == [b \in BP |-> Attributed[b] + inc[b]]
  <2>1. T \in Nat /\ T > 0
    <3>1. \A b \in BP : Staked[b] \in Nat
      BY <1>0 DEF Staked
    <3>2. T \in Nat
      BY <1>0, <1>1, <3>1, SumNat
    <3> QED
      BY <1>3, <3>2
  <2>2. TS \in Nat /\ TS = SumFunctionOnSet(part, BP) /\ \A b \in BP : part[b] \in Nat
    <3> DEFINE f == [b \in scheduled |-> bps[b].total_staked]
    <3>1. TS = SumFunctionOnSet(f, scheduled)
      BY DEF TotalStaked, SumFunction
    <3>2. /\ \A b \in scheduled : f[b] \in Int /\ part[b] = f[b]
          /\ \A b \in BP \ scheduled : part[b] = 0
          /\ \A b \in BP : part[b] \in Nat
      BY <1>0
    <3> HIDE DEF f, part
    <3>3. SumFunctionOnSet(part, BP) = SumFunctionOnSet(f, scheduled)
      BY <1>0, <3>2, SumPart
    <3>4. SumFunctionOnSet(part, BP) \in Nat
      BY <1>0, <3>2, SumNat
    <3> QED
      BY <3>1, <3>2, <3>3, <3>4
  <2> HIDE DEF T, TS, part
  <2>3. (\A b \in BP : u[b] \in Nat) /\ SumFunctionOnSet(u, BP) \in Nat /\ SumFunctionOnSet(u, BP) <= for_user
    <3>1. \A b \in BP : Staked[b] \in Nat /\ Staked[b] = bps[b].total_staked
      BY <1>0 DEF Staked
    <3>2. \A b \in BP : u[b] = (for_user * Staked[b]) \div SumFunctionOnSet(Staked, BP)
      BY <1>1, <3>1
    <3>3. SumFunctionOnSet(Staked, BP) > 0
      BY <1>1, <2>1
    <3>4. \A b \in BP : u[b] \in Nat
      <4> SUFFICES ASSUME NEW b \in BP PROVE u[b] \in Nat
        OBVIOUS
      <4>1. for_user * bps[b].total_staked \in Nat
        BY <1>0
      <4>2. \A m \in Nat : m \div T \in Nat
        BY <2>1
      <4> QED
        BY <4>1, <4>2
    <3> HIDE DEF u
    <3>5. SumFunctionOnSet(u, BP) \in Nat /\ SumFunctionOnSet(u, BP) <= for_user
      BY <1>0, <3>1, <3>2, <3>3, SharesSum
    <3> QED
      BY <3>4, <3>5
  <2>4. (\A b \in BP : w[b] \in Nat) /\ SumFunctionOnSet(w, BP) \in Nat /\ SumFunctionOnSet(w, BP) <= for_bp
    <3>1. CASE TS > 0
      <4>1. \A b \in BP : w[b] = (for_bp * part[b]) \div SumFunctionOnSet(part, BP)
        BY <2>2, <3>1
      <4>2. \A b \in BP : w[b] \in Nat
        <5> SUFFICES ASSUME NEW b \in BP PROVE w[b] \in Nat
          OBVIOUS
        <5>1. for_bp * part[b] \in Nat
          BY <2>2
        <5>2. \A m \in Nat : m \div TS \in Nat
          BY <2>2, <3>1
        <5> QED
          BY <3>1, <5>1, <5>2
      <4> HIDE DEF w
      <4>3. SumFunctionOnSet(w, BP) \in Nat /\ SumFunctionOnSet(w, BP) <= for_bp
        BY <1>0, <2>2, <3>1, <4>1, SharesSum
      <4> QED
        BY <4>2, <4>3
    <3>2. CASE ~(TS > 0)
      <4>1. \A b \in BP : w[b] = 0
        BY <3>2
      <4> HIDE DEF w
      <4>2. SumFunctionOnSet(w, BP) = 0
        BY <1>0, <4>1, SumZero
      <4> QED
        BY <4>1, <4>2
    <3> QED
      BY <3>1, <3>2
  <2>5. (\A b \in BP : x[b] \in Nat) /\ SumFunctionOnSet(x, BP) = for_produce
    <3>1. /\ \A b \in BP : x[b] \in Nat /\ x[producer] = for_produce
          /\ \A b \in BP \ {producer} : x[b] = 0
      OBVIOUS
    <3> HIDE DEF x
    <3>2. SumFunctionOnSet(x, BP) = x[producer] + SumFunctionOnSet(x, BP \ {producer})
      BY <1>0, <3>1, SumRemove
    <3>3. IsFiniteSet(BP \ {producer})
      BY <1>0, FS_Subset
    <3>4. SumFunctionOnSet(x, BP \ {producer}) = 0
      BY <3>1, <3>3, SumZero
    <3> QED
      BY <3>1, <3>2, <3>4
  <2>6. ASSUME NEW b \in BP
        PROVE  /\ bps'[b] \in BpInfo /\ bps'[b].total_staked = bps[b].total_staked
               /\ bps'[b].total_voteage = bps[b].total_voteage
               /\ bps'[b].height = bps[b].height /\ bps'[b].pawn = bps[b].pawn
               /\ Attributed'[b] \in Nat /\ Attributed'[b] <= Attributed[b] + inc[b] /\ inc[b] \in Nat
    <3> DEFINE p == bps[b]
    <3>1. /\ p \in BpInfo /\ u[b] \in Nat /\ w[b] \in Nat /\ x[b] \in Nat /\ inc[b] = u[b] + w[b] + x[b]
          /\ p.rewards_pool \in Nat /\ p.rewards_block \in Nat /\ inc[b] \in Nat
          /\ Attributed[b] = p.rewards_pool + p.rewards_block
          /\ Attributed'[b] = bps'[b].rewards_pool + bps'[b].rewards_block
      BY <1>0, <2>3, <2>4, <2>5 DEF Attributed, BpInfo
    <3>2. CASE ~p.isactive
      <4>1. bps'[b] = p
        BY <1>3, <3>2 DEF reward_bps_and_user, T
      <4> HIDE DEF u, w, x, uw, inc, p
      <4> QED
        BY <3>1, <4>1 DEF p
    <3>3. CASE p.isactive
      <4>1. b \in scheduled => TS > 0
        <5> SUFFICES ASSUME b \in scheduled, ~(TS > 0) PROVE FALSE
          OBVIOUS
        <5>1. left > 0
          BY <1>3
        <5>2. SharesTrap(scheduled)
          BY <2>1, <2>2, <3>3 DEF SharesTrap, T, TS
        <5> QED
          BY <5>1, <5>2
      <4>2. bps'[b] = [p EXCEPT !.rewards_pool = @ + (for_user * p.total_staked) \div T,
                                !.rewards_block = @
                                    + (IF b \notin scheduled THEN 0
                                       ELSE (for_bp * p.total_staked) \div TS)
                                    + (IF b = producer THEN for_produce ELSE 0)]
        BY <1>3, <3>3 DEF reward_bps_and_user, T, TS
      <4>3. (for_user * p.total_staked) \div T = u[b] /\ (IF b = producer THEN for_produce ELSE 0) = x[b]
        OBVIOUS
      <4>4. (IF b \notin scheduled THEN 0 ELSE (for_bp * p.total_staked) \div TS) = w[b]
        <5>1. CASE b \in scheduled
          BY <4>1, <5>1 DEF part
        <5>2. CASE b \notin scheduled
          <6>1. part[b] = 0
            BY <5>2 DEF part
          <6>2. w[b] = 0
            BY <2>2, <6>1
          <6> QED
            BY <5>2, <6>2
        <5> QED
          BY <5>1, <5>2
      <4> HIDE DEF u, w, x, uw, inc, p
      <4>5. bps'[b] = [p EXCEPT !.rewards_pool = p.rewards_pool + u[b],
                                !.rewards_block = p.rewards_block + w[b] + x[b]]
        BY <3>1, <4>2, <4>3, <4>4 DEF BpInfo
      <4>6. PICK m, n : m = p.rewards_pool + u[b] /\ n = p.rewards_block + w[b] + x[b]
        OBVIOUS
      <4>7. m \in Nat /\ n \in Nat /\ bps'[b] = [p EXCEPT !.rewards_pool = m, !.rewards_block = n]
        BY <3>1, <4>5, <4>6
      <4>8. /\ bps'[b] \in BpInfo /\ bps'[b].total_staked = p.total_staked
            /\ bps'[b].total_voteage = p.total_voteage /\ bps'[b].height = p.height
            /\ bps'[b].pawn = p.pawn /\ bps'[b].rewards_pool = m /\ bps'[b].rewards_block = n
        BY <3>1, <4>7 DEF BpInfo
      <4>9. m + n \in Nat /\ m + n <= p.rewards_pool + p.rewards_block + inc[b]
        BY <3>1, <4>6, <4>7
      <4> QED
        BY <3>1, <4>8, <4>9 DEF p
    <3> QED
      BY <3>2, <3>3
  <2>7. bps' \in [BP -> BpInfo]
    <3>1. DOMAIN bps' = BP /\ bps' = [b \in BP |-> bps'[b]]
      BY <1>3 DEF reward_bps_and_user, T
    <3> QED
      BY <2>6, <3>1
  <2>8. SumFunctionOnSet(Attributed', BP) <= SumFunctionOnSet(Attributed, BP) + left
    <3>1. (\A b \in BP : uw[b] = u[b] + w[b] /\ inc[b] = uw[b] + x[b] /\ bound[b] = Attributed[b] + inc[b])
      OBVIOUS
    <3> HIDE DEF u, w, x, uw, inc, bound
    <3>2. \A b \in BP : /\ u[b] \in Int /\ w[b] \in Int /\ x[b] \in Int /\ uw[b] \in Int /\ inc[b] \in Int
                        /\ Attributed[b] \in Int /\ bound[b] \in Int
      BY <1>0, <2>3, <2>4, <2>5, <3>1
    <3>3. SumFunctionOnSet(uw, BP) = SumFunctionOnSet(u, BP) + SumFunctionOnSet(w, BP)
      BY <1>0, <3>1, <3>2, SumPlus
    <3>4. SumFunctionOnSet(inc, BP) = SumFunctionOnSet(uw, BP) + SumFunctionOnSet(x, BP)
      BY <1>0, <3>1, <3>2, SumPlus
    <3>5. SumFunctionOnSet(bound, BP) = SumFunctionOnSet(Attributed, BP) + SumFunctionOnSet(inc, BP)
      BY <1>0, <3>1, <3>2, SumPlus
    <3>6. \A b \in BP : Attributed'[b] \in Int /\ Attributed'[b] <= bound[b]
      BY <2>6, <3>1
    <3> DEFINE a == Attributed'
    <3>7. \A b \in BP : a[b] \in Int /\ a[b] <= bound[b]
      BY <3>6
    <3> HIDE DEF a
    <3>8. SumFunctionOnSet(a, BP) <= SumFunctionOnSet(bound, BP) /\ SumFunctionOnSet(a, BP) \in Int
      BY <1>0, <3>2, <3>7, SumLeq, SumInt
    <3> QED
      BY <1>0, <2>3, <2>4, <2>5, <3>3, <3>4, <3>5, <3>8 DEF a
  <2> QED
    BY <2>6, <2>7, <2>8
<1> QED
  BY <1>2, <1>3

-----------------------------------------------------------------------------
(* The steps. *)

\* What TypeOK says of the tables.
LEMMA Types ==
    ASSUME TypeOK
    PROVE  /\ now \in Nat /\ balance \in [Account -> Nat] /\ freezed \in [Voter -> FreezeInfo]
           /\ voteall \in [Voter -> Nat] /\ votes \in [Voter \X BP -> VoteInfo] /\ bps \in [BP -> BpInfo]
           /\ \A a \in Account : Locked(a) \in Nat
           /\ ended \in [Voter -> Nat] /\ reinvested \in [Voter -> Nat] /\ repaid \in Nat /\ excess \in [BP -> Nat]
BY DEF TypeOK, Locked, FreezeInfo

\* The types of the state after a step.
LEMMA TypesNext ==
    ASSUME TypeOK, ended' \in [Voter -> Nat], reinvested' \in [Voter -> Nat], repaid' \in Nat,
           excess' \in [BP -> Nat], Counted, now' \in 1 .. MaxBlock, balance' \in [Account -> Nat],
           freezed' \in [Voter -> FreezeInfo], voteall' \in [Voter -> Nat],
           votes' \in [Voter \X BP -> VoteInfo], bps' \in [BP -> BpInfo]
    PROVE  TypeOK'
<1>1. actions' \in 0 .. MaxActions
  BY AmountAssumption DEF TypeOK, Counted
<1> QED
  BY <1>1 DEF TypeOK

\* The accounts of voters, of producers and of the contract are different.
LEMMA Accounts ==
    /\ Voter \subseteq Account /\ BP \subseteq Account
    /\ System \in Account /\ PawnBox \in Account /\ Fee \in Account /\ Fund \in Account /\ VidPool \in Account
    /\ \A v \in Voter : v \notin BP /\ v \notin {System, PawnBox, Fee, Fund, VidPool}
    /\ \A b \in BP : b \notin Voter /\ b \notin {System, PawnBox, Fee, Fund, VidPool}
    /\ System # PawnBox /\ System # Fee /\ System # Fund /\ System # VidPool
BY AccountAssumption DEF Account

\* A payment.
LEMMA Paid ==
    ASSUME TypeOK, NEW from \in Account, NEW to \in Account, from # to, NEW q \in Nat, Move(from, to, q)
    PROVE  /\ balance' \in [Account -> Nat] /\ balance[from] >= q + Locked(from)
           /\ balance'[from] = balance[from] - q /\ balance'[to] = balance[to] + q
           /\ \A a \in Account \ {from, to} : balance'[a] = balance[a]
<1>1. balance \in [Account -> Nat] /\ Locked(from) \in Nat
  BY Types
<1>2. /\ balance[from] >= q + Locked(from)
      /\ balance' = [balance EXCEPT ![from] = @ - q, ![to] = @ + q]
  BY DEF Move, sub_balance
<1>3. balance[from] - q \in Nat /\ balance[to] + q \in Nat
  BY <1>1, <1>2
<1> QED
  BY <1>1, <1>2, <1>3

\* A payment respects what is locked.
LEMMA PaidOwned ==
    ASSUME TypeOK, LockedOwned, ended' = ended, reinvested' = reinvested, freezed' = freezed, voteall' = voteall,
           NEW from \in Account, NEW to \in Account, from # to, NEW q \in Nat, Move(from, to, q)
    PROVE  LockedOwned'
<1> SUFFICES ASSUME NEW v \in Voter PROVE balance'[v] + ended[v] + reinvested[v] >= Locked(v)'
  BY DEF LockedOwned
<1>1. /\ Locked(v)' = Locked(v) /\ Locked(v) \in Nat /\ v \in Account /\ balance[v] \in Nat
      /\ balance[v] + ended[v] + reinvested[v] >= Locked(v) /\ ended[v] \in Nat /\ reinvested[v] \in Nat
  BY Types, Accounts DEF Locked, LockedOwned
<1>2. /\ balance[from] >= q + Locked(from)
      /\ balance'[from] = balance[from] - q /\ balance'[to] = balance[to] + q
      /\ \A a \in Account \ {from, to} : balance'[a] = balance[a]
  BY Paid
<1>3. CASE v = from
  BY <1>1, <1>2, <1>3
<1>4. CASE v = to
  BY <1>1, <1>2, <1>4
<1>5. CASE v \notin {from, to}
  BY <1>1, <1>2, <1>5
<1> QED
  BY <1>3, <1>4, <1>5

\* A payment among voters and producers, or of a fee.
LEMMA PaymentStep ==
    ASSUME IInv, UNCHANGED <<ended, reinvested, repaid, excess>>,
           NEW from \in Voter, NEW to \in Account, from # to, to # System, NEW q \in Nat,
           Move(from, to, q), Counted, UNCHANGED <<now, freezed, voteall, votes, bps>>
    PROVE  IInv'
<1>0. TypeOK
  BY DEF IInv, VotesOK, PowersAdd
<1>1. /\ from \in Account /\ from # System
  BY Accounts
<1>2. /\ balance' \in [Account -> Nat] /\ balance'[System] = balance[System]
  BY <1>0, <1>1, Paid, Accounts
<1>3. TypeOK'
  <2>1. /\ ended' \in [Voter -> Nat] /\ reinvested' \in [Voter -> Nat] /\ repaid' \in Nat /\ excess' \in [BP -> Nat]
        /\ now' \in 1 .. MaxBlock
    BY <1>0 DEF TypeOK
  <2> QED
    BY <1>0, <1>2, <2>1, Types, TypesNext
<1>4. VotesOK'
  BY <1>3, SameVotes DEF IInv
<1>5. VoteallAdds'
  BY VoteallSame DEF IInv
<1>6. LockedOwned'
  BY <1>0, <1>1, PaidOwned DEF IInv
<1>7. balance'[System] + repaid' >= balance[System] + repaid
  BY <1>0, <1>2, Types, Accounts
<1>8. RewardsFunded'
  BY <1>0, <1>3, <1>7, FundedSame DEF IInv
<1> QED
  BY <1>4, <1>5, <1>6, <1>8 DEF IInv

\* freeze: the new total is checked against the balance.
LEMMA FreezeStep ==
    ASSUME IInv, NEW v \in Voter, NEW stake \in Nat, freeze(v, stake)
    PROVE  IInv'
<1>0. TypeOK
  BY DEF IInv, VotesOK, PowersAdd
<1> DEFINE less == IF stake < freezed[v].staked THEN freezed[v].staked - stake ELSE 0
           f == freezed[v]
           g == [staked |-> stake, unstaking |-> f.unstaking + less,
                 unstake_height |-> IF less > 0 THEN now ELSE f.unstake_height]
<1>1. /\ freezed' = [freezed EXCEPT ![v] = g]
      /\ balance[v] >= stake + voteall[v] + freezed'[v].unstaking
      /\ Counted /\ UNCHANGED <<now, balance, voteall, votes, bps>>
      /\ UNCHANGED <<ended, reinvested, repaid, excess>>
  BY DEF freeze, history
<1>2. /\ now \in Nat /\ f.staked \in Nat /\ f.unstaking \in Nat /\ f.unstake_height \in Nat
      /\ freezed \in [Voter -> FreezeInfo] /\ voteall[v] \in Nat
  BY <1>0, Types DEF FreezeInfo
<1>3. less \in Nat
  BY <1>2
<1> HIDE DEF less, f
<1>4. g \in FreezeInfo /\ g.staked = stake
  BY <1>2, <1>3 DEF FreezeInfo
<1> HIDE DEF g
<1>5. freezed' \in [Voter -> FreezeInfo] /\ freezed'[v] = g /\ \A w \in Voter \ {v} : freezed'[w] = freezed[w]
  BY <1>1, <1>2, <1>4
<1>6. TypeOK'
  <2>1. /\ ended' \in [Voter -> Nat] /\ reinvested' \in [Voter -> Nat] /\ repaid' \in Nat /\ excess' \in [BP -> Nat]
        /\ now' \in 1 .. MaxBlock
    BY <1>0, <1>1 DEF TypeOK
  <2> QED
    BY <1>0, <1>1, <1>5, <2>1, Types, TypesNext
<1>7. VotesOK'
  BY <1>1, <1>6, SameVotes DEF IInv
<1>8. VoteallAdds'
  BY <1>1, VoteallSame DEF IInv
<1>9. LockedOwned'
  <2> SUFFICES ASSUME NEW w \in Voter PROVE balance[w] + ended[w] + reinvested[w] >= Locked(w)'
    BY <1>1 DEF LockedOwned
  <2>1. CASE w = v
    <3>1. Locked(v)' = stake + g.unstaking + voteall[v]
      BY <1>1, <1>4, <1>5 DEF Locked
    <3>2. balance[v] \in Nat /\ g.unstaking \in Nat /\ ended[v] \in Nat /\ reinvested[v] \in Nat
      BY <1>0, <1>4, Types, Accounts DEF FreezeInfo
    <3> QED
      BY <1>1, <1>2, <1>5, <2>1, <3>1, <3>2
  <2>2. CASE w # v
    <3>1. Locked(w)' = Locked(w)
      BY <1>1, <1>5, <2>2 DEF Locked
    <3> QED
      BY <1>1, <3>1 DEF IInv, LockedOwned
  <2> QED
    BY <2>1, <2>2
<1>10. balance'[System] + repaid' >= balance[System] + repaid
  BY <1>0, <1>1, Types, Accounts
<1>11. RewardsFunded'
  BY <1>0, <1>1, <1>6, <1>10, FundedSame DEF IInv
<1> QED
  BY <1>7, <1>8, <1>9, <1>11 DEF IInv

\* The types of a step that leaves the history alone.
LEMMA TypesSame ==
    ASSUME TypeOK, UNCHANGED <<ended, reinvested, repaid, excess>>, now' = now, Counted, balance' \in [Account -> Nat],
           freezed' \in [Voter -> FreezeInfo], voteall' \in [Voter -> Nat],
           votes' \in [Voter \X BP -> VoteInfo], bps' \in [BP -> BpInfo]
    PROVE  TypeOK'
<1>1. /\ ended' \in [Voter -> Nat] /\ reinvested' \in [Voter -> Nat] /\ repaid' \in Nat /\ excess' \in [BP -> Nat]
      /\ now' \in 1 .. MaxBlock
  BY DEF TypeOK
<1> QED
  BY <1>1, TypesNext

\* vote and votestatic: what a row gains in votes comes from staked.
LEMMA VotingStep ==
    ASSUME IInv, now' = now, balance' = balance, Counted, UNCHANGED <<ended, reinvested, repaid>>,
           NEW v \in Voter, NEW b \in BP, NEW x \in Nat, excess' = [excess EXCEPT ![b] = @ + x],
           NEW r, NEW p, NEW e \in Int, NEW g \in FreezeInfo,
           votes' = [votes EXCEPT ![<<v, b>>] = r], bps' = [bps EXCEPT ![b] = p],
           voteall[v] + e >= 0, voteall' = [voteall EXCEPT ![v] = @ + e],
           freezed' = [freezed EXCEPT ![v] = g], g.staked = freezed[v].staked - e,
           g.unstaking = freezed[v].unstaking,
           RowOK(r, now), VotesOf(r) = VotesOf(votes[<<v, b>>]) + e, p \in BpInfo,
           p.total_staked = bps[b].total_staked + (PowerOf(r) - PowerOf(votes[<<v, b>>])),
           (p.total_voteage + p.total_staked * (now - p.height)) + x
               = newest_total_voteage(b) + (RowAge(r, now) - RowAge(votes[<<v, b>>], now)),
           p.rewards_pool = bps[b].rewards_pool, p.rewards_block = bps[b].rewards_block
    PROVE  IInv'
<1>0. TypeOK /\ VotesOK
  BY DEF IInv, VotesOK, PowersAdd
<1>1. /\ now \in Nat /\ balance \in [Account -> Nat] /\ freezed \in [Voter -> FreezeInfo]
      /\ voteall \in [Voter -> Nat] /\ votes \in [Voter \X BP -> VoteInfo] /\ bps \in [BP -> BpInfo]
      /\ ended \in [Voter -> Nat] /\ reinvested \in [Voter -> Nat] /\ repaid \in Nat /\ excess \in [BP -> Nat]
  BY <1>0, Types
<1>2. r \in VoteInfo
  BY DEF RowOK, PlainOK
<1>3. /\ votes' \in [Voter \X BP -> VoteInfo] /\ bps' \in [BP -> BpInfo] /\ freezed' \in [Voter -> FreezeInfo]
      /\ bps'[b] = p /\ \A c \in BP \ {b} : bps'[c] = bps[c]
      /\ freezed'[v] = g /\ \A w \in Voter \ {v} : freezed'[w] = freezed[w]
  BY <1>1, <1>2
<1>4. voteall' \in [Voter -> Nat] /\ voteall'[v] = voteall[v] + e /\ \A w \in Voter \ {v} : voteall'[w] = voteall[w]
  <2>1. PICK m : m = voteall[v] + e
    OBVIOUS
  <2>2. m \in Nat /\ voteall' = [voteall EXCEPT ![v] = m]
    BY <1>1, <2>1
  <2> QED
    BY <1>1, <2>1, <2>2
<1>11. excess' \in [BP -> Nat] /\ excess'[b] = excess[b] + x /\ \A c \in BP \ {b} : excess'[c] = excess[c]
  <2>1. PICK m : m = excess[b] + x
    OBVIOUS
  <2>2. m \in Nat /\ excess' = [excess EXCEPT ![b] = m]
    BY <1>1, <2>1
  <2> QED
    BY <1>1, <2>1, <2>2
<1>5. TypeOK'
  <2>1. now' \in 1 .. MaxBlock
    BY <1>0 DEF TypeOK
  <2> QED
    BY <1>0, <1>1, <1>3, <1>4, <1>11, <2>1, TypesNext
<1>6. VotesOK'
  BY <1>0, <1>5, <1>11, RowChanges
<1>7. VoteallAdds'
  <2>1. VotesOf(r) \in Nat
    BY <1>1, RowSums
  <2>2. /\ ended'[v] = ended[v] + 0 /\ 0 \in Nat /\ VotesOf(r) + 0 = VotesOf(votes[<<v, b>>]) + e
        /\ \A w \in Voter \ {v} : ended'[w] = ended[w]
    BY <1>1, <2>1
  <2> QED
    BY <1>0, <1>4, <2>1, <2>2, VoteallChanges DEF IInv
<1>8. LockedOwned'
  <2> SUFFICES ASSUME NEW w \in Voter PROVE balance[w] + ended[w] + reinvested[w] >= Locked(w)'
    BY DEF LockedOwned
  <2>1. balance[w] + ended[w] + reinvested[w] >= Locked(w)
    BY DEF IInv, LockedOwned
  <2>2. CASE w = v
    <3>1. Locked(v)' = g.staked + g.unstaking + (voteall[v] + e)
      BY <1>3, <1>4 DEF Locked
    <3>2. Locked(v) = freezed[v].staked + freezed[v].unstaking + voteall[v]
      BY DEF Locked
    <3>3. freezed[v].staked \in Nat /\ freezed[v].unstaking \in Nat /\ voteall[v] \in Nat
      BY <1>1 DEF FreezeInfo
    <3>4. Locked(v)' = Locked(v)
      BY <3>1, <3>2, <3>3
    <3> QED
      BY <2>1, <2>2, <3>4
  <2>3. CASE w # v
    <3>1. Locked(w)' = Locked(w)
      BY <1>3, <1>4, <2>3 DEF Locked
    <3> QED
      BY <2>1, <3>1
  <2> QED
    BY <2>2, <2>3
<1>9. RewardsFunded'
  <2>1. balance'[System] + repaid' >= balance[System] + repaid
    BY <1>1, Accounts
  <2>2. \A c \in BP : /\ bps'[c].rewards_pool = bps[c].rewards_pool
                      /\ bps'[c].rewards_block = bps[c].rewards_block
    BY <1>3
  <2> QED
    BY <1>0, <1>5, <2>1, <2>2, FundedSame DEF IInv
<1> QED
  BY <1>6, <1>7, <1>8, <1>9 DEF IInv

\* vote: the row and its producer change by the same power.
LEMMA VoteStep ==
    ASSUME IInv, NEW v \in Voter, NEW b \in BP, NEW stake \in Nat, vote(v, b, stake)
    PROVE  IInv'
<1> DEFINE row == votes[<<v, b>>]
           f == freezed[v]
           e == stake - row.vote
           power == e \div (10 * Unit)
           r == Voted(row, stake)
           p == modify_bp_vote(bps[b], power)
           h == IF e < 0 THEN now ELSE f.unstake_height
           g == [f EXCEPT !.staked = @ - e, !.unstake_height = h]
           x == Overcounted(row)
<1>0. TypeOK /\ VotesOK
  BY DEF IInv, VotesOK, PowersAdd
<1>1. /\ now \in Nat /\ freezed \in [Voter -> FreezeInfo] /\ votes \in [Voter \X BP -> VoteInfo]
      /\ bps \in [BP -> BpInfo] /\ f \in FreezeInfo /\ row \in VoteInfo /\ bps[b] \in BpInfo
  BY <1>0, Types
<1>2. /\ stake % (10 * Unit) = 0
      /\ e > 0 => f.staked >= e
      /\ UNCHANGED <<ended, reinvested, repaid>> /\ excess' = [excess EXCEPT ![b] = @ + x]
      /\ votes' = [votes EXCEPT ![<<v, b>>] = r] /\ bps' = [bps EXCEPT ![b] = p]
      /\ voteall[v] + e >= 0 /\ voteall' = [voteall EXCEPT ![v] = @ + e]
      /\ now' = now /\ balance' = balance /\ Counted
  BY <1>1 DEF vote, update_voter_info
<1>3. freezed' = [freezed EXCEPT ![v] = g]
  BY <1>1 DEF vote
<1>4. RowOK(row, now)
  BY <1>0 DEF VotesOK, RowsOK
<1>5. /\ RowOK(r, now) /\ RowAge(r, now) = RowAge(row, now) + x /\ power \in Int /\ x \in Nat
      /\ PowerOf(r) = PowerOf(row) + power /\ VotesOf(r) = VotesOf(row) + e
  BY <1>1, <1>2, <1>4, VotedRow
<1>6. /\ RowAge(r, now) \in Nat /\ RowAge(row, now) \in Nat /\ PowerOf(row) \in Nat
  BY <1>1, <1>4, <1>5, RowSums
<1>7. e \in Int /\ row.vote \in Nat /\ f.staked \in Nat /\ f.unstake_height \in Nat
  BY <1>1 DEF VoteInfo, FreezeInfo
<1> HIDE DEF power, e, r, row, p, x
<1>8. g \in FreezeInfo /\ g.staked = f.staked - e /\ g.unstaking = f.unstaking
  <2>1. PICK m, n : m = f.staked - e /\ n = h
    OBVIOUS
  <2>2. m \in Nat /\ n \in Nat
    BY <1>1, <1>2, <1>7, <2>1
  <2>3. g = [f EXCEPT !.staked = m, !.unstake_height = n]
    BY <1>1, <2>1 DEF FreezeInfo
  <2> HIDE DEF f, g, h
  <2> QED
    BY <1>1, <2>1, <2>2, <2>3 DEF FreezeInfo
<1>9. /\ p \in BpInfo /\ p.total_staked = bps[b].total_staked + power
      /\ p.total_voteage + p.total_staked * (now - p.height) = newest_total_voteage(b)
      /\ p.rewards_pool = bps[b].rewards_pool /\ p.rewards_block = bps[b].rewards_block
  BY <1>1, <1>5, Modified DEF newest_total_voteage, p
<1>10. /\ newest_total_voteage(b) \in Int /\ bps[b].total_staked \in Int
  BY <1>0, <1>1, VoterSums DEF BpInfo
<1> HIDE DEF g, f
<1>11. p.total_staked = bps[b].total_staked + (PowerOf(r) - PowerOf(row))
  BY <1>5, <1>6, <1>9, <1>10
<1>12. (p.total_voteage + p.total_staked * (now - p.height)) + x
           = newest_total_voteage(b) + (RowAge(r, now) - RowAge(row, now))
  <2>1. newest_total_voteage(b) + x = newest_total_voteage(b) + (RowAge(r, now) - RowAge(row, now))
    BY <1>5, <1>6, <1>10
  <2> QED
    BY <1>9, <2>1
<1> QED
  BY <1>2, <1>3, <1>5, <1>7, <1>8, <1>9, <1>11, <1>12, VotingStep DEF row, f

\* votestatic: a static vote is appended.
LEMMA VotestaticStep ==
    ASSUME IInv, NEW v \in Voter, NEW b \in BP, NEW stake \in Nat,
           NEW typ \in DOMAIN Tiers, votestatic(v, b, stake, typ)
    PROVE  IInv'
<1> DEFINE row == votes[<<v, b>>]
           f == freezed[v]
           tier == Tiers[typ]
           power == (stake * tier.power) \div Unit
           r == append_static_vote(row, stake, tier)
           p == modify_bp_vote(bps[b], power)
           g == [f EXCEPT !.staked = @ - stake]
<1>0. TypeOK /\ VotesOK
  BY DEF IInv, VotesOK, PowersAdd
<1>1. /\ now \in Nat /\ freezed \in [Voter -> FreezeInfo] /\ votes \in [Voter \X BP -> VoteInfo]
      /\ bps \in [BP -> BpInfo] /\ f \in FreezeInfo /\ row \in VoteInfo /\ bps[b] \in BpInfo
      /\ tier \in [lock : Nat, power : Nat] /\ stake \in Int
  <2>1. Tiers \in Seq([lock : Nat, power : Nat])
    BY AmountAssumption
  <2>2. tier \in [lock : Nat, power : Nat]
    <3> DEFINE S == [lock : Nat, power : Nat]
    <3>1. Tiers \in Seq(S)
      BY <2>1
    <3> HIDE DEF S
    <3>2. Tiers[typ] \in S
      BY <3>1
    <3> QED
      BY <3>2 DEF S
  <2> QED
    BY <1>0, <2>2, Types
<1>2. /\ stake % Unit = 0 /\ f.staked >= stake
      /\ UNCHANGED <<ended, reinvested, repaid, excess>>
      /\ votes' = [votes EXCEPT ![<<v, b>>] = r] /\ bps' = [bps EXCEPT ![b] = p]
      /\ voteall[v] + stake >= 0 /\ voteall' = [voteall EXCEPT ![v] = @ + stake]
      /\ now' = now /\ balance' = balance /\ Counted
  BY <1>1 DEF votestatic, update_voter_info, history
<1>3. freezed' = [freezed EXCEPT ![v] = g]
  BY <1>1 DEF votestatic
<1>4. RowOK(row, now)
  BY <1>0 DEF VotesOK, RowsOK
<1>5. /\ RowOK(r, now) /\ RowAge(r, now) = RowAge(row, now) /\ power \in Nat
      /\ PowerOf(r) = PowerOf(row) + power /\ VotesOf(r) = VotesOf(row) + stake
  <2>1. Whole(stake)
    BY <1>2 DEF Whole
  <2> HIDE DEF tier, row
  <2> QED
    BY <1>1, <1>4, <2>1, AppendedRow
<1>6. /\ RowAge(r, now) \in Nat /\ RowAge(row, now) \in Nat /\ PowerOf(row) \in Nat
  BY <1>1, <1>4, <1>5, RowSums
<1> HIDE DEF power, r, row, p
<1>8. g \in FreezeInfo /\ g.staked = f.staked - stake /\ g.unstaking = f.unstaking
  <2>1. PICK m : m = f.staked - stake
    OBVIOUS
  <2>2. m \in Nat
    BY <1>1, <1>2, <2>1 DEF FreezeInfo
  <2>3. g = [f EXCEPT !.staked = m]
    BY <1>1, <2>1 DEF FreezeInfo
  <2> HIDE DEF f, g
  <2> QED
    BY <1>1, <2>1, <2>2, <2>3 DEF FreezeInfo
<1>9. /\ p \in BpInfo /\ p.total_staked = bps[b].total_staked + power
      /\ p.total_voteage + p.total_staked * (now - p.height) = newest_total_voteage(b)
      /\ p.rewards_pool = bps[b].rewards_pool /\ p.rewards_block = bps[b].rewards_block
  BY <1>1, <1>5, Modified DEF newest_total_voteage, p
<1>10. /\ newest_total_voteage(b) \in Int /\ bps[b].total_staked \in Int
  BY <1>0, <1>1, VoterSums DEF BpInfo
<1> HIDE DEF g, f
<1>11. p.total_staked = bps[b].total_staked + (PowerOf(r) - PowerOf(row))
  BY <1>5, <1>6, <1>9, <1>10
<1>12. (p.total_voteage + p.total_staked * (now - p.height)) + 0
           = newest_total_voteage(b) + (RowAge(r, now) - RowAge(row, now))
  BY <1>5, <1>6, <1>9, <1>10
<1>13. 0 \in Nat /\ excess' = [excess EXCEPT ![b] = @ + 0]
  BY <1>0, <1>2, Types
<1> QED
  BY <1>1, <1>2, <1>3, <1>5, <1>8, <1>9, <1>11, <1>12, <1>13, VotingStep DEF row, f

\* What claim leaves of a producer: its age without the claimed, its pool
\* without the reward.
LEMMA PaidOutBp ==
    ASSUME VotesOK, NEW v \in Voter, NEW b \in BP, Claimable(v, b)
    PROVE  LET p == PaidOut(v, b) IN
           /\ p \in BpInfo /\ p.total_staked = bps[b].total_staked /\ p.pawn = bps[b].pawn
           /\ p.total_voteage + p.total_staked * (now - p.height)
                  = newest_total_voteage(b) - RowAge(votes[<<v, b>>], now)
           /\ p.rewards_pool + p.rewards_block = Attributed[b] - reward(v, b)
           /\ reward(v, b) \in Nat
<1> DEFINE p == PaidOut(v, b)
           c == bps[b]
           q == reward(v, b)
           a == newest_total_voteage(b) - newest_voteage(v, b)
<1>1. now \in Nat /\ c \in BpInfo /\ newest_total_voteage(b) \in Int
  BY VoterSums
<1>2. newest_voteage(v, b) = RowAge(votes[<<v, b>>], now) /\ newest_voteage(v, b) \in Nat
  <2>1. RowOK(votes[<<v, b>>], now)
    BY DEF VotesOK, RowsOK
  <2> QED
    BY <1>1, <2>1, RowSums DEF newest_voteage
<1>3. c.rewards_pool \in Nat /\ c.rewards_block \in Nat /\ c.total_staked \in Int
  BY <1>1 DEF BpInfo
<1>4. newest_total_voteage(b) > 0 /\ q > 0 /\ q <= c.rewards_pool
  BY DEF Claimable
<1>5. q \in Nat
  <2>1. \A m \in Nat, n \in Int : n > 0 => m \div n \in Nat
    OBVIOUS
  <2>2. c.rewards_pool * newest_voteage(v, b) \in Nat
    BY <1>2, <1>3
  <2> QED
    BY <1>1, <1>4, <2>1, <2>2 DEF reward
<1>6. Attributed[b] = c.rewards_pool + c.rewards_block
  BY DEF Attributed
<1> HIDE DEF q, c
<1>7. PICK m, n : m = c.rewards_pool - q /\ n = a
  OBVIOUS
<1>8. m \in Nat /\ n \in Int
  BY <1>1, <1>2, <1>3, <1>4, <1>5, <1>7
<1>9. p = [c EXCEPT !.rewards_pool = m, !.total_voteage = n, !.height = now]
  BY <1>1, <1>7 DEF PaidOut, c, q, BpInfo
<1> HIDE DEF p
<1>10. /\ p \in BpInfo /\ p.total_staked = c.total_staked /\ p.pawn = c.pawn /\ p.rewards_pool = m
       /\ p.rewards_block = c.rewards_block /\ p.total_voteage = n /\ p.height = now
  BY <1>1, <1>8, <1>9 DEF BpInfo
<1>11. p.total_voteage + p.total_staked * (now - p.height) = n
  BY <1>1, <1>3, <1>8, <1>10
<1>12. p.rewards_pool + p.rewards_block = Attributed[b] - q
  BY <1>3, <1>5, <1>6, <1>7, <1>10
<1> QED
  BY <1>2, <1>5, <1>7, <1>10, <1>11, <1>12 DEF p, c, q

\* claim: a row starts again.
LEMMA ClaimStep ==
    ASSUME IInv, NEW v \in Voter, NEW b \in BP, claim(v, b)
    PROVE  IInv'
<1> DEFINE row == votes[<<v, b>>]
           r == Restart(row)
           p == PaidOut(v, b)
           q == reward(v, b)
<1>0. TypeOK /\ VotesOK
  BY DEF IInv, VotesOK, PowersAdd
<1>1. /\ now \in Nat /\ balance \in [Account -> Nat] /\ votes \in [Voter \X BP -> VoteInfo]
      /\ bps \in [BP -> BpInfo]
  BY <1>0, Types
<1>2. /\ Claimable(v, b) /\ Move(System, v, q) /\ votes' = [votes EXCEPT ![<<v, b>>] = r]
      /\ bps' = [bps EXCEPT ![b] = p] /\ Counted
      /\ now' = now /\ freezed' = freezed /\ voteall' = voteall
      /\ UNCHANGED <<ended, reinvested, repaid, excess>>
  BY <1>1 DEF claim, history
<1>3. /\ p \in BpInfo /\ p.total_staked = bps[b].total_staked /\ p.pawn = bps[b].pawn
      /\ p.total_voteage + p.total_staked * (now - p.height)
             = newest_total_voteage(b) - RowAge(row, now)
      /\ p.rewards_pool + p.rewards_block = Attributed[b] - q
      /\ q \in Nat
  BY <1>0, <1>2, PaidOutBp
<1>4. RowOK(row, now)
  BY <1>0 DEF VotesOK, RowsOK
<1>5. RowOK(r, now) /\ RowAge(r, now) = 0 /\ PowerOf(r) = PowerOf(row) /\ VotesOf(r) = VotesOf(row)
  BY <1>1, <1>4, RestartRow
<1>6. RowAge(row, now) \in Nat /\ PowerOf(row) \in Nat /\ VotesOf(row) \in Nat
  BY <1>1, <1>4, RowSums
<1>7. newest_total_voteage(b) \in Int /\ bps[b].total_staked \in Int
  BY <1>0, VoterSums DEF BpInfo
<1> HIDE DEF r, row, p, q
<1>8. System \in Account /\ v \in Account /\ System # v
  BY Accounts
<1>9. balance' \in [Account -> Nat] /\ balance'[System] = balance[System] - q
  BY <1>0, <1>2, <1>3, <1>8, Paid
<1>10. /\ votes' \in [Voter \X BP -> VoteInfo] /\ bps' \in [BP -> BpInfo]
       /\ bps'[b] = p /\ \A c \in BP \ {b} : bps'[c] = bps[c]
  <2>1. r \in VoteInfo
    BY <1>5 DEF RowOK, PlainOK
  <2> QED
    BY <1>1, <1>2, <1>3, <2>1
<1>11. TypeOK'
  BY <1>0, <1>2, <1>9, <1>10, Types, TypesSame
<1>12. VotesOK'
  <2>1. p.total_staked = bps[b].total_staked + (PowerOf(r) - PowerOf(row))
    BY <1>3, <1>5, <1>6, <1>7
  <2>2. (p.total_voteage + p.total_staked * (now - p.height)) + 0
            = newest_total_voteage(b) + (RowAge(r, now) - RowAge(row, now))
    BY <1>3, <1>5, <1>6, <1>7
  <2>3. 0 \in Nat /\ excess'[b] = excess[b] + 0 /\ \A c \in BP \ {b} : excess'[c] = excess[c]
    BY <1>0, <1>2, Types
  <2> QED
    BY <1>0, <1>2, <1>3, <1>5, <1>11, <2>1, <2>2, <2>3, RowChanges DEF row
<1>13. VoteallAdds'
  <2>1. /\ voteall'[v] = voteall[v] + 0 /\ ended'[v] = ended[v] + 0 /\ 0 \in Nat /\ 0 \in Int
        /\ (\A w \in Voter \ {v} : voteall'[w] = voteall[w]) /\ \A w \in Voter \ {v} : ended'[w] = ended[w]
    BY <1>0, <1>2, Types
  <2>2. VotesOf(r) + 0 = VotesOf(row) + 0 /\ VotesOf(r) \in Nat
    BY <1>5, <1>6
  <2> QED
    BY <1>0, <1>2, <2>1, <2>2, VoteallChanges DEF IInv, row
<1>14. LockedOwned'
  BY <1>0, <1>2, <1>3, <1>8, PaidOwned DEF IInv
<1>15. RewardsFunded'
  BY <1>0, <1>2, <1>3, <1>9, FundedPaid DEF IInv
<1> QED
  BY <1>12, <1>13, <1>14, <1>15 DEF IInv

-----------------------------------------------------------------------------
(* Producers. *)

\* A producer changes in nothing but its pawn, its block reward, or being active.
SameBut(p, q) ==
    /\ p \in BpInfo /\ p.total_staked = q.total_staked /\ p.total_voteage = q.total_voteage
    /\ p.height = q.height /\ p.rewards_pool = q.rewards_pool

\* Such a change of a producer keeps everything about votes.
LEMMA ProducerStep ==
    ASSUME IInv, now' = now, freezed' = freezed, voteall' = voteall, votes' = votes,
           UNCHANGED <<ended, reinvested, repaid, excess>>, Counted, NEW b \in BP, NEW p, bps' = [bps EXCEPT ![b] = p], SameBut(p, bps[b]),
           balance' \in [Account -> Nat], LockedOwned', RewardsFunded'
    PROVE  IInv'
<1>0. TypeOK /\ VotesOK
  BY DEF IInv, VotesOK, PowersAdd
<1>1. bps \in [BP -> BpInfo]
  BY <1>0, Types
<1>2. bps' \in [BP -> BpInfo] /\ bps'[b] = p /\ \A c \in BP \ {b} : bps'[c] = bps[c]
  BY <1>1 DEF SameBut
<1>3. TypeOK'
  BY <1>0, <1>2, Types, TypesSame
<1>4. VotesOK'
  <2>1. \A c \in BP : /\ bps'[c].total_staked = bps[c].total_staked
                      /\ bps'[c].total_voteage = bps[c].total_voteage
                      /\ bps'[c].height = bps[c].height
    BY <1>2 DEF SameBut
  <2> QED
    BY <1>0, <1>3, <2>1, SameVotes
<1>5. VoteallAdds'
  BY VoteallSame DEF IInv
<1> QED
  BY <1>4, <1>5 DEF IInv

\* bppawn: the pawn grows.
LEMMA BppawnStep ==
    ASSUME IInv, NEW b \in BP, NEW pawn \in Nat, bppawn(b, pawn)
    PROVE  IInv'
<1>0. TypeOK /\ VotesOK
  BY DEF IInv, VotesOK, PowersAdd
<1>1. /\ balance \in [Account -> Nat] /\ bps \in [BP -> BpInfo] /\ bps[b] \in BpInfo /\ bps[b].pawn \in Nat
  BY <1>0, Types DEF BpInfo
<1> DEFINE c == bps[b]
           p == [c EXCEPT !.pawn = @ + pawn]
<1>2. /\ pawn > 0 /\ Move(b, PawnBox, pawn) /\ bps' = [bps EXCEPT ![b] = p] /\ Counted
      /\ now' = now /\ freezed' = freezed /\ voteall' = voteall /\ votes' = votes
      /\ UNCHANGED <<ended, reinvested, repaid, excess>>
  BY <1>1 DEF bppawn, history
<1>3. SameBut(p, c) /\ p.pawn = c.pawn + pawn /\ p.rewards_block = c.rewards_block
  <2>1. PICK m : m = c.pawn + pawn
    OBVIOUS
  <2>2. m \in Nat /\ p = [c EXCEPT !.pawn = m]
    BY <1>1, <2>1 DEF BpInfo
  <2> HIDE DEF p, c
  <2> QED
    BY <1>1, <2>1, <2>2 DEF SameBut, BpInfo, c
<1>4. /\ b \in Account /\ PawnBox \in Account /\ System \in Account /\ b # PawnBox /\ System \notin {b, PawnBox}
  BY Accounts
<1>5. balance' \in [Account -> Nat] /\ balance'[System] = balance[System]
  BY <1>0, <1>2, <1>4, Paid
<1>6. LockedOwned'
  BY <1>0, <1>2, <1>4, PaidOwned DEF IInv
<1> HIDE DEF p
<1>7. RewardsFunded'
  <2>1. 0 \in Nat /\ balance'[System] = balance[System] - 0
    BY <1>1, <1>4, <1>5
  <2>2. p.rewards_pool + p.rewards_block = Attributed[b] - 0
    BY <1>1, <1>3 DEF SameBut, Attributed, BpInfo
  <2> QED
    BY <1>0, <1>2, <2>1, <2>2, FundedPaid DEF IInv
<1> QED
  BY <1>2, <1>3, <1>5, <1>6, <1>7, ProducerStep

\* bpredeem: the pawn goes back when there is no vote left.
LEMMA BpredeemStep ==
    ASSUME IInv, NEW b \in BP, bpredeem(b)
    PROVE  IInv'
<1>0. TypeOK /\ VotesOK
  BY DEF IInv, VotesOK, PowersAdd
<1>1. /\ balance \in [Account -> Nat] /\ bps \in [BP -> BpInfo] /\ bps[b] \in BpInfo /\ bps[b].pawn \in Nat
      /\ bps[b].total_staked \in Int
  BY <1>0, Types DEF BpInfo
<1> DEFINE c == bps[b]
           p == [c EXCEPT !.pawn = 0]
<1>2. /\ c.total_staked <= 0 /\ Move(PawnBox, b, c.pawn) /\ bps' = [bps EXCEPT ![b] = p] /\ Counted
      /\ now' = now /\ freezed' = freezed /\ voteall' = voteall /\ votes' = votes
      /\ UNCHANGED <<ended, reinvested, repaid, excess>>
  BY <1>1 DEF bpredeem, history
<1>3. SameBut(p, c) /\ p.rewards_block = c.rewards_block
  BY <1>1 DEF SameBut, BpInfo
<1>4. /\ b \in Account /\ PawnBox \in Account /\ System \in Account /\ b # PawnBox /\ System \notin {b, PawnBox}
  BY Accounts
<1>5. balance' \in [Account -> Nat] /\ balance'[System] = balance[System]
  BY <1>0, <1>1, <1>2, <1>4, Paid
<1>6. LockedOwned'
  BY <1>0, <1>1, <1>2, <1>4, PaidOwned DEF IInv
<1> HIDE DEF p
<1>7. RewardsFunded'
  <2>1. 0 \in Nat /\ balance'[System] = balance[System] - 0
    BY <1>1, <1>4, <1>5
  <2>2. p.rewards_pool + p.rewards_block = Attributed[b] - 0
    BY <1>1, <1>3 DEF SameBut, Attributed, BpInfo
  <2> QED
    BY <1>0, <1>2, <2>1, <2>2, FundedPaid DEF IInv
<1> QED
  BY <1>2, <1>3, <1>5, <1>6, <1>7, ProducerStep

\* removebp: the producer keeps votes, pawn and rewards.
LEMMA RemovebpStep ==
    ASSUME IInv, NEW b \in BP, removebp(b)
    PROVE  IInv'
<1>0. TypeOK /\ VotesOK
  BY DEF IInv, VotesOK, PowersAdd
<1>1. /\ balance \in [Account -> Nat] /\ bps \in [BP -> BpInfo] /\ bps[b] \in BpInfo /\ System \in Account
  BY <1>0, Types, Accounts
<1> DEFINE c == bps[b]
           p == [c EXCEPT !.isactive = FALSE]
<1>2. /\ bps' = [bps EXCEPT ![b] = p] /\ Counted /\ balance' = balance
      /\ now' = now /\ freezed' = freezed /\ voteall' = voteall /\ votes' = votes
      /\ UNCHANGED <<ended, reinvested, repaid, excess>>
  BY <1>1 DEF removebp, history
<1>3. SameBut(p, c) /\ p.rewards_block = c.rewards_block /\ p.pawn = c.pawn
  BY <1>1 DEF SameBut, BpInfo
<1>4. LockedOwned'
  BY <1>2 DEF IInv, LockedOwned, Locked
<1> HIDE DEF p
<1>5. RewardsFunded'
  <2>1. 0 \in Nat /\ balance'[System] = balance[System] - 0
    BY <1>1, <1>2
  <2>2. p.rewards_pool + p.rewards_block = Attributed[b] - 0
    BY <1>1, <1>3 DEF SameBut, Attributed, BpInfo
  <2> QED
    BY <1>0, <1>2, <2>1, <2>2, FundedPaid DEF IInv
<1> QED
  BY <1>1, <1>2, <1>3, <1>4, <1>5, ProducerStep

\* bpclaim: the block reward is paid, less the fund's part.
LEMMA BpclaimStep ==
    ASSUME IInv, NEW b \in BP, bpclaim(b)
    PROVE  IInv'
<1>0. TypeOK /\ VotesOK
  BY DEF IInv, VotesOK, PowersAdd
<1> DEFINE c == bps[b]
           p == [c EXCEPT !.rewards_block = 0]
           due == c.rewards_block
           cut == (due + 50) \div 100
<1>1. /\ balance \in [Account -> Nat] /\ bps \in [BP -> BpInfo] /\ c \in BpInfo /\ due \in Nat
      /\ c.rewards_pool \in Nat
  BY <1>0, Types DEF BpInfo
<1>2. /\ due >= MinClaim /\ sub_balance(System, due) /\ bps' = [bps EXCEPT ![b] = p] /\ Counted
      /\ balance' = [balance EXCEPT ![System] = @ - due, ![b] = @ + due - cut, ![Fund] = @ + cut]
      /\ now' = now /\ freezed' = freezed /\ voteall' = voteall /\ votes' = votes
      /\ UNCHANGED <<ended, reinvested, repaid, excess>>
  BY <1>1 DEF bpclaim, history
<1>3. SameBut(p, c) /\ p.rewards_block = 0 /\ p.pawn = c.pawn
  BY <1>1 DEF SameBut, BpInfo
<1>4. /\ b \in Account /\ Fund \in Account /\ System \in Account /\ b # Fund /\ System \notin {b, Fund}
      /\ b \notin Voter /\ Fund \notin Voter /\ System \notin Voter /\ Voter \subseteq Account
  BY Accounts
<1>5. balance[System] >= due /\ balance[System] \in Nat /\ balance[b] \in Nat /\ balance[Fund] \in Nat
  <2>1. Locked(System) \in Nat
    BY <1>0, <1>4, Types
  <2> QED
    BY <1>1, <1>2, <1>4, <2>1 DEF sub_balance
<1>6. cut \in Nat /\ cut <= due
  <2>1. MinClaim >= 1 /\ MinClaim \in Nat
    BY AmountAssumption
  <2>2. due >= 1
    BY <1>1, <1>2, <2>1
  <2>3. \A n \in Nat : n >= 1 => (n + 50) \div 100 \in Nat /\ (n + 50) \div 100 <= n
    OBVIOUS
  <2> QED
    BY <1>1, <2>2, <2>3
<1> HIDE DEF cut, due, p
<1>7. PICK x, y, z : x = balance[System] - due /\ y = balance[b] + due - cut /\ z = balance[Fund] + cut
  OBVIOUS
<1>8. x \in Nat /\ y \in Nat /\ z \in Nat
  BY <1>1, <1>5, <1>6, <1>7
<1>9. balance' = [balance EXCEPT ![System] = x, ![b] = y, ![Fund] = z]
  BY <1>1, <1>2, <1>4, <1>7
<1>10. /\ balance' \in [Account -> Nat] /\ balance'[System] = balance[System] - due
       /\ \A w \in Voter : balance'[w] = balance[w]
  BY <1>1, <1>4, <1>7, <1>8, <1>9
<1>11. LockedOwned'
  BY <1>2, <1>10 DEF IInv, LockedOwned, Locked
<1>12. RewardsFunded'
  <2>1. Attributed[b] = c.rewards_pool + due
    BY DEF Attributed, due
  <2>2. p.rewards_pool + p.rewards_block = Attributed[b] - due
    BY <1>1, <1>3, <2>1 DEF SameBut
  <2> QED
    BY <1>0, <1>1, <1>2, <1>10, <2>2, FundedPaid DEF IInv
<1> QED
  BY <1>2, <1>3, <1>10, <1>11, <1>12, ProducerStep

\* onblock: the reward issued covers what is attributed.
LEMMA OnblockStep ==
    ASSUME IInv, NEW producer \in BP, NEW scheduled \in SUBSET BP, NEW to_vid \in Nat,
           onblock(producer, scheduled, to_vid)
    PROVE  IInv'
<1>0. TypeOK /\ VotesOK
  BY DEF IInv, VotesOK, PowersAdd
<1> DEFINE left == Reward - to_vid
           for_produce == (left * 10) \div 100
           for_user == left - (for_produce + for_produce)
<1>1. /\ now \in Nat /\ balance \in [Account -> Nat] /\ bps \in [BP -> BpInfo]
      /\ Reward \in Nat /\ left \in Int
  BY <1>0, Types, AmountAssumption
<1>2. /\ now < MaxBlock /\ now' = now + 1 /\ Counted
      /\ freezed' = freezed /\ voteall' = voteall /\ votes' = votes
      /\ UNCHANGED <<ended, reinvested, repaid, excess>>
  BY DEF onblock, history
<1>3. \/ left < 0 /\ balance' = balance /\ bps' = bps
      \/ (left > 0 /\ SharesTrap(scheduled)) /\ balance' = balance /\ bps' = bps
      \/ /\ ~(left < 0) /\ ~(left > 0 /\ SharesTrap(scheduled))
         /\ balance' = [balance EXCEPT ![System] = @ + left, ![VidPool] = @ + to_vid]
         /\ bps' = reward_bps_and_user(producer, scheduled, for_produce, for_produce, for_user)
  BY DEF onblock
<1>4. System \in Account /\ VidPool \in Account /\ System # VidPool /\ Voter \subseteq Account
      /\ System \notin Voter /\ VidPool \notin Voter
  BY Accounts
<1>5. /\ balance' \in [Account -> Nat] /\ bps' \in [BP -> BpInfo] /\ \A w \in Voter : balance'[w] = balance[w]
      /\ \A b \in BP : /\ bps'[b].total_staked = bps[b].total_staked
                       /\ bps'[b].total_voteage = bps[b].total_voteage
                       /\ bps'[b].height = bps[b].height /\ bps'[b].pawn = bps[b].pawn
      /\ RewardsFunded'
  <2>1. CASE balance' = balance /\ bps' = bps
    <3>1. RewardsFunded'
      BY <1>2, <2>1 DEF IInv, RewardsFunded
    <3> QED
      BY <1>1, <2>1, <3>1
  <2>2. CASE /\ ~(left < 0) /\ ~(left > 0 /\ SharesTrap(scheduled))
             /\ balance' = [balance EXCEPT ![System] = @ + left, ![VidPool] = @ + to_vid]
             /\ bps' = reward_bps_and_user(producer, scheduled, for_produce, for_produce, for_user)
    <3>1. /\ left \in Nat /\ for_produce \in Nat /\ for_user \in Nat
          /\ for_produce + for_produce + for_user = left
      <4>1. left \in Nat
        BY <1>1, <2>2
      <4>2. \A n \in Nat : (n * 10) \div 100 \in Nat /\ n - ((n * 10) \div 100 + (n * 10) \div 100) \in Nat
        OBVIOUS
      <4> HIDE DEF left
      <4>3. for_produce \in Nat /\ for_user \in Nat
        BY <4>1, <4>2
      <4>4. for_produce + for_produce + for_user = left
        BY <4>1, <4>3
      <4> QED
        BY <4>1, <4>3, <4>4
    <3> HIDE DEF left, for_produce, for_user
    <3>2. /\ bps' \in [BP -> BpInfo]
          /\ \A b \in BP : /\ bps'[b].total_staked = bps[b].total_staked
                           /\ bps'[b].total_voteage = bps[b].total_voteage
                           /\ bps'[b].height = bps[b].height /\ bps'[b].pawn = bps[b].pawn
          /\ SumFunctionOnSet(Attributed', BP) <= SumFunctionOnSet(Attributed, BP) + left
      BY <1>0, <2>2, <3>1, SharesFunded
    <3>3. PICK x, y : x = balance[System] + left /\ y = balance[VidPool] + to_vid
      OBVIOUS
    <3>4. x \in Nat /\ y \in Nat /\ balance[System] \in Nat
      BY <1>1, <1>4, <3>1, <3>3
    <3>5. balance' = [balance EXCEPT ![System] = x, ![VidPool] = y]
      BY <1>1, <1>4, <2>2, <3>3
    <3>6. /\ balance' \in [Account -> Nat] /\ balance'[System] = x
          /\ \A w \in Voter : balance'[w] = balance[w]
      BY <1>1, <1>4, <3>4, <3>5
    <3>7. RewardsFunded'
      <4> SUFFICES balance'[System] + repaid >= SumFunctionOnSet(Attributed', BP)
        BY <1>2, FundsPrime
      <4>1. /\ balance[System] + repaid >= SumFunctionOnSet(Attributed, BP)
            /\ SumFunctionOnSet(Attributed, BP) \in Nat /\ repaid \in Nat
        BY <1>0, Funds, Types DEF IInv
      <4>2. SumFunctionOnSet(Attributed', BP) \in Int
        <5> DEFINE a == Attributed'
        <5>1. IsFiniteSet(BP) /\ \A b \in BP : a[b] \in Int
          BY <3>2, AmountAssumption DEF Attributed, BpInfo
        <5> HIDE DEF a
        <5>2. SumFunctionOnSet(a, BP) \in Int
          BY <5>1, SumInt
        <5> QED
          BY <5>2 DEF a
      <4> QED
        BY <3>1, <3>2, <3>3, <3>4, <3>6, <4>1, <4>2
    <3> QED
      BY <3>2, <3>6, <3>7
  <2> QED
    BY <1>3, <2>1, <2>2
<1>6. TypeOK'
  <2>1. /\ ended' \in [Voter -> Nat] /\ reinvested' \in [Voter -> Nat] /\ repaid' \in Nat /\ excess' \in [BP -> Nat]
        /\ now' \in 1 .. MaxBlock
    BY <1>0, <1>1, <1>2, AmountAssumption DEF TypeOK
  <2> QED
    BY <1>0, <1>2, <1>5, <2>1, Types, TypesNext
<1>7. VotesOK'
  BY <1>0, <1>2, <1>5, <1>6, NextBlock
<1>8. VoteallAdds'
  BY <1>2, VoteallSame DEF IInv
<1>9. LockedOwned'
  BY <1>2, <1>5 DEF IInv, LockedOwned, Locked
<1> QED
  BY <1>5, <1>7, <1>8, <1>9 DEF IInv

-----------------------------------------------------------------------------
(* The operations that lose track of the tokens. *)

\* unfreeze pays from the contract's account.
LEMMA UnfreezeStep ==
    ASSUME IInv, NEW v \in Voter, unfreeze(v)
    PROVE  IInv'
<1>0. TypeOK /\ VotesOK
  BY DEF IInv, VotesOK, PowersAdd
<1>1. System \in Account /\ v \in Account /\ System # v
  BY Accounts
<1>2. freezed[v].unstaking \in Nat
  BY <1>0, Types DEF FreezeInfo
<1>3. /\ Move(System, v, freezed[v].unstaking) /\ Counted
      /\ now' = now /\ freezed' = freezed /\ voteall' = voteall /\ votes' = votes /\ bps' = bps
      /\ repaid' = repaid + freezed[v].unstaking /\ UNCHANGED <<ended, reinvested, excess>>
  BY DEF unfreeze
<1>4. balance' \in [Account -> Nat] /\ balance'[System] = balance[System] - freezed[v].unstaking
  BY <1>0, <1>1, <1>2, <1>3, Paid
<1>5. TypeOK'
  <2>1. /\ ended' \in [Voter -> Nat] /\ reinvested' \in [Voter -> Nat] /\ repaid' \in Nat /\ excess' \in [BP -> Nat]
        /\ now' \in 1 .. MaxBlock
    BY <1>0, <1>2, <1>3 DEF TypeOK
  <2> QED
    BY <1>0, <1>3, <1>4, <2>1, Types, TypesNext
<1>6. VotesOK'
  BY <1>0, <1>3, <1>5, SameVotes
<1>7. VoteallAdds'
  BY <1>3, VoteallSame DEF IInv
<1>8. LockedOwned'
  BY <1>0, <1>1, <1>2, <1>3, PaidOwned DEF IInv
<1>9. balance'[System] + repaid' >= balance[System] + repaid
  BY <1>0, <1>1, <1>2, <1>3, <1>4, Types
<1>10. RewardsFunded'
  BY <1>0, <1>3, <1>5, <1>9, FundedSame DEF IInv
<1> QED
  BY <1>6, <1>7, <1>8, <1>10 DEF IInv

\* votebyreward: the row starts again with more votes, which no balance backs.
LEMMA VotebyrewardStep ==
    ASSUME IInv, NEW v \in Voter, NEW b \in BP, votebyreward(v, b)
    PROVE  IInv'
<1>0. TypeOK /\ VotesOK
  BY DEF IInv, VotesOK, PowersAdd
<1> DEFINE row == votes[<<v, b>>]
           whole == reward(v, b) - (reward(v, b) % (10 * Unit))
           r == Reinvested(row, whole)
           q == PaidOut(v, b)
           power == vote_power(whole) \div Unit
           p == modify_bp_vote(q, power)
<1>1. /\ now \in Nat /\ votes \in [Voter \X BP -> VoteInfo] /\ bps \in [BP -> BpInfo]
      /\ voteall \in [Voter -> Nat] /\ Unit \in Nat \ {0} /\ reinvested \in [Voter -> Nat]
  BY <1>0, Types, AmountAssumption
<1>2. /\ Claimable(v, b) /\ votes' = [votes EXCEPT ![<<v, b>>] = r] /\ bps' = [bps EXCEPT ![b] = p]
      /\ voteall' = [voteall EXCEPT ![v] = @ + whole] /\ Counted
      /\ now' = now /\ balance' = balance /\ freezed' = freezed
      /\ reinvested' = [reinvested EXCEPT ![v] = @ + whole] /\ UNCHANGED <<ended, repaid, excess>>
  BY <1>1 DEF votebyreward, update_voter_info
<1>3. /\ q \in BpInfo /\ q.total_staked = bps[b].total_staked
      /\ q.total_voteage + q.total_staked * (now - q.height)
             = newest_total_voteage(b) - RowAge(row, now)
      /\ reward(v, b) \in Nat /\ q.rewards_pool + q.rewards_block = Attributed[b] - reward(v, b)
  BY <1>0, <1>2, PaidOutBp
<1>4. whole \in Nat /\ whole % (10 * Unit) = 0
  <2>1. PICK n : n = 10 * Unit
    OBVIOUS
  <2>2. n \in Nat \ {0}
    BY <1>1, <2>1
  <2>3. \A m \in Nat : m - (m % n) \in Nat /\ (m - (m % n)) % n = 0
    <3> SUFFICES ASSUME NEW m \in Nat PROVE m - (m % n) \in Nat /\ (m - (m % n)) % n = 0
      OBVIOUS
    <3>1. m = n * (m \div n) + (m % n) /\ m \div n \in Nat /\ m % n \in Nat
      BY <2>2
    <3>2. m - (m % n) = n * (m \div n)
      BY <2>2, <3>1
    <3>3. \A k \in Nat : (n * k) % n = 0 /\ n * k \in Nat
      BY <2>2
    <3> QED
      BY <3>1, <3>2, <3>3
  <2> QED
    BY <1>3, <2>1, <2>3
<1>5. RowOK(row, now)
  BY <1>0 DEF VotesOK, RowsOK
<1> HIDE DEF whole, row
<1>6. /\ RowOK(r, now) /\ RowAge(r, now) = 0 /\ PowerOf(r) = PowerOf(row) + power /\ power \in Nat
      /\ VotesOf(r) = VotesOf(row) + whole
  BY <1>1, <1>4, <1>5, ReinvestedRow
<1> HIDE DEF q, power, r
<1>7. /\ p \in BpInfo /\ p.total_staked = q.total_staked + power
      /\ p.total_voteage + p.total_staked * (now - p.height)
             = q.total_voteage + q.total_staked * (now - q.height)
      /\ p.rewards_pool = q.rewards_pool /\ p.rewards_block = q.rewards_block
  <2>1. power \in Int
    BY <1>6
  <2> QED
    BY <1>1, <1>3, <2>1, Modified
<1>8. RowAge(row, now) \in Nat /\ PowerOf(row) \in Nat /\ VotesOf(row) \in Nat
  BY <1>1, <1>5, RowSums
<1>9. newest_total_voteage(b) \in Int /\ bps[b].total_staked \in Int
  BY <1>0, VoterSums DEF BpInfo
<1> HIDE DEF p
<1>10. p.total_staked = bps[b].total_staked + (PowerOf(r) - PowerOf(row))
  BY <1>3, <1>6, <1>7, <1>8, <1>9
<1>11. (p.total_voteage + p.total_staked * (now - p.height)) + 0
           = newest_total_voteage(b) + (RowAge(r, now) - RowAge(row, now))
  BY <1>3, <1>6, <1>7, <1>8, <1>9
<1>14. /\ voteall' \in [Voter -> Nat] /\ voteall'[v] = voteall[v] + whole
       /\ (\A w \in Voter \ {v} : voteall'[w] = voteall[w])
       /\ reinvested' \in [Voter -> Nat] /\ reinvested'[v] = reinvested[v] + whole
       /\ \A w \in Voter \ {v} : reinvested'[w] = reinvested[w]
  <2>1. PICK m, n : m = voteall[v] + whole /\ n = reinvested[v] + whole
    OBVIOUS
  <2>2. /\ m \in Nat /\ voteall' = [voteall EXCEPT ![v] = m]
        /\ n \in Nat /\ reinvested' = [reinvested EXCEPT ![v] = n]
    BY <1>1, <1>2, <1>4, <2>1
  <2> QED
    BY <1>1, <2>1, <2>2
<1>15. excess'[b] = excess[b] + 0 /\ 0 \in Nat /\ \A c \in BP \ {b} : excess'[c] = excess[c]
  BY <1>0, <1>2, Types
<1>12. TypeOK'
  <2>1. /\ ended' \in [Voter -> Nat] /\ reinvested' \in [Voter -> Nat] /\ repaid' \in Nat /\ excess' \in [BP -> Nat]
        /\ now' \in 1 .. MaxBlock
    BY <1>0, <1>2, <1>14 DEF TypeOK
  <2>2. r \in VoteInfo
    BY <1>6 DEF RowOK, PlainOK
  <2>3. votes' \in [Voter \X BP -> VoteInfo] /\ bps' \in [BP -> BpInfo]
    BY <1>1, <1>2, <1>7, <2>2
  <2> QED
    BY <1>0, <1>2, <1>14, <2>1, <2>3, Types, TypesNext
<1>13. VotesOK'
  BY <1>0, <1>2, <1>6, <1>7, <1>10, <1>11, <1>12, <1>15, RowChanges DEF row
<1>16. VoteallAdds'
  <2>1. /\ ended'[v] = ended[v] + 0 /\ 0 \in Nat /\ \A w \in Voter \ {v} : ended'[w] = ended[w]
    BY <1>0, <1>2, Types
  <2>2. VotesOf(r) + 0 = VotesOf(row) + whole /\ VotesOf(r) \in Nat /\ whole \in Int
    BY <1>4, <1>6, <1>8
  <2> QED
    BY <1>0, <1>2, <1>14, <2>1, <2>2, VoteallChanges DEF IInv, row
<1>17. LockedOwned'
  <2> SUFFICES ASSUME NEW w \in Voter PROVE balance[w] + ended[w] + reinvested'[w] >= Locked(w)'
    BY <1>2 DEF LockedOwned
  <2>1. balance[w] + ended[w] + reinvested[w] >= Locked(w)
    BY DEF IInv, LockedOwned
  <2>2. /\ Locked(w) = freezed[w].staked + freezed[w].unstaking + voteall[w]
        /\ Locked(w)' = freezed[w].staked + freezed[w].unstaking + voteall'[w]
    BY <1>2 DEF Locked
  <2>3. /\ freezed[w].staked \in Nat /\ freezed[w].unstaking \in Nat /\ voteall[w] \in Nat
        /\ balance[w] \in Nat /\ ended[w] \in Nat /\ reinvested[w] \in Nat
    BY <1>0, Types, Accounts DEF FreezeInfo
  <2>4. CASE w = v
    BY <1>4, <1>14, <2>1, <2>2, <2>3, <2>4
  <2>5. CASE w # v
    BY <1>14, <2>1, <2>2, <2>3, <2>5
  <2> QED
    BY <2>4, <2>5
<1>18. RewardsFunded'
  <2>1. p.rewards_pool + p.rewards_block = Attributed[b] - reward(v, b)
    BY <1>3, <1>7
  <2>2. SumFunctionOnSet(Attributed', BP) = SumFunctionOnSet(Attributed, BP) - reward(v, b)
    BY <1>0, <1>2, <1>3, <2>1, FundedLess
  <2>3. balance[System] + repaid >= SumFunctionOnSet(Attributed, BP) /\ SumFunctionOnSet(Attributed, BP) \in Nat
    BY <1>0, Funds DEF IInv
  <2>4. balance[System] \in Nat /\ repaid \in Nat
    BY <1>0, Types, Accounts
  <2> QED
    BY <1>2, <1>3, <2>2, <2>3, <2>4, FundsPrime
<1> QED
  BY <1>13, <1>16, <1>17, <1>18 DEF IInv

\* quitsvote: a static vote ends, and voteall keeps it.
LEMMA QuitsvoteStep ==
    ASSUME IInv, NEW v \in Voter, NEW b \in BP, NEW idx \in DOMAIN votes[<<v, b>>].static_votes,
           quitsvote(v, b, idx)
    PROVE  IInv'
<1>0. TypeOK /\ VotesOK
  BY DEF IInv, VotesOK, PowersAdd
<1> DEFINE row == votes[<<v, b>>]
           s == row.static_votes[idx]
           r == Quitted(row, idx)
           power == -(s.votepower \div Unit)
           p == modify_bp_vote(bps[b], power)
           f == freezed[v]
           g == [f EXCEPT !.staked = @ + s.vote, !.unstake_height = now]
<1>1. /\ now \in Nat /\ votes \in [Voter \X BP -> VoteInfo] /\ bps \in [BP -> BpInfo] /\ bps[b] \in BpInfo
      /\ voteall \in [Voter -> Nat] /\ freezed \in [Voter -> FreezeInfo] /\ f \in FreezeInfo
      /\ ended \in [Voter -> Nat]
  BY <1>0, Types
<1>2. /\ ~s.is_has_quited /\ votes' = [votes EXCEPT ![<<v, b>>] = r] /\ bps' = [bps EXCEPT ![b] = p]
      /\ freezed' = [freezed EXCEPT ![v] = g] /\ Counted /\ now' = now /\ balance' = balance
      /\ voteall' = [voteall EXCEPT ![v] = @ + (-votes'[<<v, b>>].static_votes[idx].vote)]
      /\ ended' = [ended EXCEPT ![v] = @ + s.vote] /\ UNCHANGED <<reinvested, repaid, excess>>
  BY <1>1 DEF quitsvote, update_voter_info
<1>3. RowOK(row, now)
  BY <1>0 DEF VotesOK, RowsOK
<1>4. /\ RowOK(r, now) /\ RowAge(r, now) = RowAge(row, now) /\ s.votepower \div Unit \in Nat
      /\ PowerOf(r) = PowerOf(row) + power /\ r.static_votes[idx].vote = 0 /\ s.vote \in Nat
      /\ VotesOf(r) = VotesOf(row) + (-s.vote)
  BY <1>1, <1>2, <1>3, QuittedRow
<1>5. r \in VoteInfo
  BY <1>4 DEF RowOK, PlainOK
<1>6. RowAge(row, now) \in Nat /\ PowerOf(row) \in Nat /\ power \in Int /\ VotesOf(r) \in Nat /\ VotesOf(row) \in Nat
  BY <1>1, <1>3, <1>4, RowSums
<1> HIDE DEF r, s, power
<1>7. g \in FreezeInfo /\ g.staked = f.staked + s.vote /\ g.unstaking = f.unstaking
  <2>1. PICK m : m = f.staked + s.vote
    OBVIOUS
  <2>2. m \in Nat /\ g = [f EXCEPT !.staked = m, !.unstake_height = now]
    BY <1>1, <1>4, <2>1 DEF FreezeInfo
  <2> HIDE DEF f, g
  <2> QED
    BY <1>1, <2>1, <2>2 DEF FreezeInfo
<1>8. voteall' \in [Voter -> Nat] /\ voteall' = voteall
  <2>1. votes'[<<v, b>>] = r
    BY <1>1, <1>2
  <2>2. voteall' = [voteall EXCEPT ![v] = @ + (-0)]
    BY <1>2, <1>4, <2>1
  <2> QED
    BY <1>1, <2>2
<1>9. /\ p \in BpInfo /\ p.total_staked = bps[b].total_staked + power
      /\ p.total_voteage + p.total_staked * (now - p.height) = newest_total_voteage(b)
      /\ p.rewards_pool = bps[b].rewards_pool /\ p.rewards_block = bps[b].rewards_block
  BY <1>1, <1>6, Modified DEF newest_total_voteage
<1>10. newest_total_voteage(b) \in Int /\ bps[b].total_staked \in Int
  BY <1>0, VoterSums DEF BpInfo
<1> HIDE DEF p, g, row
<1>11. p.total_staked = bps[b].total_staked + (PowerOf(r) - PowerOf(row))
  BY <1>4, <1>6, <1>9, <1>10
<1>12. (p.total_voteage + p.total_staked * (now - p.height)) + 0
           = newest_total_voteage(b) + (RowAge(r, now) - RowAge(row, now))
  BY <1>4, <1>6, <1>9, <1>10
<1>15. ended' \in [Voter -> Nat] /\ ended'[v] = ended[v] + s.vote /\ \A w \in Voter \ {v} : ended'[w] = ended[w]
  <2>1. PICK n : n = ended[v] + s.vote
    OBVIOUS
  <2>2. n \in Nat /\ ended' = [ended EXCEPT ![v] = n]
    BY <1>1, <1>2, <1>4, <2>1
  <2> QED
    BY <1>1, <2>1, <2>2
<1>16. excess'[b] = excess[b] + 0 /\ 0 \in Nat /\ \A c \in BP \ {b} : excess'[c] = excess[c]
  BY <1>0, <1>2, Types
<1>13. TypeOK'
  <2>1. /\ ended' \in [Voter -> Nat] /\ reinvested' \in [Voter -> Nat] /\ repaid' \in Nat /\ excess' \in [BP -> Nat]
        /\ now' \in 1 .. MaxBlock
    BY <1>0, <1>2, <1>15 DEF TypeOK
  <2>2. votes' \in [Voter \X BP -> VoteInfo] /\ bps' \in [BP -> BpInfo] /\ freezed' \in [Voter -> FreezeInfo]
    BY <1>1, <1>2, <1>5, <1>7, <1>9
  <2> QED
    BY <1>0, <1>2, <1>8, <2>1, <2>2, Types, TypesNext
<1>14. VotesOK'
  BY <1>0, <1>2, <1>4, <1>9, <1>11, <1>12, <1>13, <1>16, RowChanges DEF row
<1>17. VoteallAdds'
  <2>1. /\ voteall'[v] = voteall[v] + 0 /\ 0 \in Int /\ \A w \in Voter \ {v} : voteall'[w] = voteall[w]
    BY <1>1, <1>8
  <2>2. VotesOf(r) + s.vote = VotesOf(row) + 0
    BY <1>4, <1>6
  <2> QED
    BY <1>0, <1>2, <1>4, <1>6, <1>15, <2>1, <2>2, VoteallChanges DEF IInv, row
<1>18. LockedOwned'
  <2> SUFFICES ASSUME NEW w \in Voter PROVE balance[w] + ended'[w] + reinvested[w] >= Locked(w)'
    BY <1>2 DEF LockedOwned
  <2>1. balance[w] + ended[w] + reinvested[w] >= Locked(w)
    BY DEF IInv, LockedOwned
  <2>2. /\ Locked(w) = freezed[w].staked + freezed[w].unstaking + voteall[w]
        /\ Locked(w)' = freezed'[w].staked + freezed'[w].unstaking + voteall[w]
    BY <1>8 DEF Locked
  <2>3. /\ freezed[w].staked \in Nat /\ freezed[w].unstaking \in Nat /\ voteall[w] \in Nat
        /\ balance[w] \in Nat /\ ended[w] \in Nat /\ reinvested[w] \in Nat
    BY <1>0, Types, Accounts DEF FreezeInfo
  <2>4. CASE w = v
    <3>1. freezed'[v].staked = freezed[v].staked + s.vote /\ freezed'[v].unstaking = freezed[v].unstaking
      BY <1>1, <1>2, <1>7
    <3> QED
      BY <1>4, <1>15, <2>1, <2>2, <2>3, <2>4, <3>1
  <2>5. CASE w # v
    <3>1. freezed'[w] = freezed[w]
      BY <1>1, <1>2, <2>5
    <3> QED
      BY <1>15, <2>1, <2>2, <2>3, <2>5, <3>1
  <2> QED
    BY <2>4, <2>5
<1>19. RewardsFunded'
  <2>1. balance'[System] + repaid' >= balance[System] + repaid
    BY <1>0, <1>2, Types, Accounts
  <2>2. \A c \in BP : /\ bps'[c].rewards_pool = bps[c].rewards_pool
                      /\ bps'[c].rewards_block = bps[c].rewards_block
    BY <1>1, <1>2, <1>9
  <2> QED
    BY <1>0, <1>13, <2>1, <2>2, FundedSame DEF IInv
<1> QED
  BY <1>14, <1>17, <1>18, <1>19 DEF IInv

-----------------------------------------------------------------------------
(* The theorems. *)

\* At first there is nothing to add up.
LEMMA Initially ==
    Init => IInv
<1> SUFFICES ASSUME Init PROVE IInv
  OBVIOUS
<1> DEFINE row == [vote |-> 0, votepower |-> 0, voteage |-> 0, height |-> 0, static_votes |-> <<>>]
<1>1. TypeOK
  <2>1. now \in 1 .. MaxBlock /\ actions \in 0 .. MaxActions
    BY AmountAssumption DEF Init
  <2>2. balance \in [Account -> Nat]
    BY AmountAssumption DEF Init
  <2>3. freezed \in [Voter -> FreezeInfo] /\ voteall \in [Voter -> Nat] /\ bps \in [BP -> BpInfo]
    BY DEF Init, FreezeInfo, BpInfo
  <2>4. row \in VoteInfo
    BY DEF VoteInfo
  <2>5. votes = [r \in Voter \X BP |-> row]
    BY DEF Init
  <2> HIDE DEF row
  <2>6. votes \in [Voter \X BP -> VoteInfo]
    BY <2>4, <2>5
  <2> QED
    BY <2>1, <2>2, <2>3, <2>6 DEF TypeOK, Init
<1>2. RowOK(row, 1) /\ PowerOf(row) = 0 /\ RowAge(row, 1) = 0 /\ VotesOf(row) = 0
  <2>1. /\ row \in VoteInfo /\ row.vote = 0 /\ row.votepower = 0 /\ row.voteage = 0 /\ row.height = 0
        /\ row.static_votes = <<>>
    BY DEF VoteInfo
  <2>2. Whole(0) /\ 0 \div Unit = 0 /\ Unit \in Nat \ {0}
    BY AmountAssumption DEF Whole
  <2>3. /\ StaticsOK(<<>>, 1) /\ Tokens(<<>>) = 0 /\ StaticsAge(<<>>, 1) = 0 /\ StaticVotes(<<>>) = 0
    BY StaticEmpty
  <2> HIDE DEF row
  <2>4. RowOK(row, 1)
    BY <2>1, <2>2, <2>3 DEF RowOK, PlainOK
  <2>5. /\ PowerOf(row) = (row.votepower \div Unit) + Tokens(row.static_votes)
        /\ RowAge(row, 1) = row.voteage + (row.votepower \div Unit) * (1 - row.height)
                            + StaticsAge(row.static_votes, 1)
    BY <2>4, RowSums
  <2>6. VotesOf(row) = row.vote + StaticVotes(row.static_votes)
    BY DEF VotesOf
  <2> QED
    BY <2>1, <2>2, <2>3, <2>4, <2>5, <2>6
<1>3. now = 1 /\ \A v \in Voter, b \in BP : votes[<<v, b>>] = row
  BY DEF Init
<1> HIDE DEF row
<1>4. /\ IsFiniteSet(Voter) /\ IsFiniteSet(BP)
  BY AmountAssumption
<1>5. ASSUME NEW b \in BP
      PROVE  SumFunctionOnSet(Powers(b), Voter) = 0 /\ SumFunctionOnSet(Ages(b), Voter) = 0
  <2> DEFINE f == Powers(b)
             g == Ages(b)
  <2>1. \A v \in Voter : f[v] = 0 /\ g[v] = 0
    BY <1>2, <1>3 DEF Powers, Ages
  <2> HIDE DEF f, g
  <2>2. SumFunctionOnSet(f, Voter) = 0 /\ SumFunctionOnSet(g, Voter) = 0
    BY <1>4, <2>1, SumZero
  <2> QED
    BY <2>2 DEF f, g
<1>6. \A b \in BP : bps[b].total_staked = 0 /\ newest_total_voteage(b) = 0 /\ excess[b] = 0
  BY DEF Init, newest_total_voteage
<1>7. VotesOK
  <2>1. RowsOK
    BY <1>2, <1>3 DEF RowsOK
  <2> QED
    BY <1>1, <1>5, <1>6, <2>1, Sums DEF VotesOK
<1>8. VoteallAdds
  <2> SUFFICES ASSUME NEW v \in Voter PROVE voteall[v] = SumFunctionOnSet(VotesWith(v), BP) + ended[v]
    BY DEF VoteallAdds, VotesWith, SumFunction
  <2> DEFINE f == VotesWith(v)
  <2>1. \A b \in BP : f[b] = 0
    BY <1>2, <1>3 DEF VotesWith
  <2> HIDE DEF f
  <2>2. SumFunctionOnSet(f, BP) = 0
    BY <1>4, <2>1, SumZero
  <2> QED
    BY <2>2 DEF f, Init
<1>9. LockedOwned
  <2> SUFFICES ASSUME NEW v \in Voter PROVE balance[v] + ended[v] + reinvested[v] >= Locked(v)
    BY DEF LockedOwned
  <2>1. balance[v] = Held /\ Held \in Nat /\ ended[v] = 0 /\ reinvested[v] = 0
    BY Accounts, AmountAssumption DEF Init
  <2>2. Locked(v) = 0
    BY DEF Init, Locked
  <2> QED
    BY <2>1, <2>2
<1>10. RewardsFunded
  <2> DEFINE f == Attributed
  <2>1. \A b \in BP : f[b] = 0
    BY DEF Init, Attributed
  <2> HIDE DEF f
  <2>2. SumFunctionOnSet(f, BP) = 0
    BY <1>4, <2>1, SumZero
  <2>3. balance[System] = 0 /\ repaid = 0
    BY Accounts, AccountAssumption DEF Init
  <2>4. balance[System] + repaid >= SumFunctionOnSet(Attributed, BP)
    BY <2>2, <2>3 DEF f
  <2> QED
    BY <1>1, <2>4, Funds
<1> QED
  BY <1>7, <1>8, <1>9, <1>10 DEF IInv

\* Every step keeps the invariant, one lemma for each operation.
LEMMA Steps ==
    IInv /\ [Next]_vars => IInv'
<1> SUFFICES ASSUME IInv, [Next]_vars PROVE IInv'
  OBVIOUS
<1>0. Amounts \subseteq Nat /\ VidRewards \subseteq Nat
  BY AmountAssumption
<1>1. CASE TokenNext
  <2>1. PICK a \in Voter, q \in Amounts : fee(a, q) \/ \E c \in Voter \cup BP : transfer(a, c, q)
    BY <1>1 DEF TokenNext
  <2>2. q \in Nat
    BY <1>0
  <2>3. CASE fee(a, q)
    <3>1. Fee \in Account /\ a # Fee /\ Fee # System
      BY Accounts
    <3>2. /\ Move(a, Fee, q) /\ Counted /\ UNCHANGED <<now, freezed, voteall, votes, bps>>
          /\ UNCHANGED <<ended, reinvested, repaid, excess>>
      BY <2>3 DEF fee, history
    <3> QED
      BY <2>2, <3>1, <3>2, PaymentStep
  <2>4. ASSUME NEW c \in Voter \cup BP, transfer(a, c, q) PROVE IInv'
    <3>1. c \in Account /\ c # System
      BY Accounts
    <3>2. /\ a # c /\ Move(a, c, q) /\ Counted /\ UNCHANGED <<now, freezed, voteall, votes, bps>>
          /\ UNCHANGED <<ended, reinvested, repaid, excess>>
      BY <2>4 DEF transfer, history
    <3> QED
      BY <2>2, <3>1, <3>2, PaymentStep
  <2> QED
    BY <2>1, <2>3, <2>4
<1>2. CASE VoterNext
  <2>1. PICK v \in Voter :
            \/ unfreeze(v) \/ \E s \in Amounts : freeze(v, s)
            \/ \E b \in BP :
                  \/ \E s \in Amounts : vote(v, b, s) \/ \E typ \in DOMAIN Tiers : votestatic(v, b, s, typ)
                  \/ \E i \in DOMAIN votes[<<v, b>>].static_votes : quitsvote(v, b, i)
                  \/ claim(v, b) \/ votebyreward(v, b)
    BY <1>2 DEF VoterNext
  <2>2. ASSUME NEW s \in Amounts, freeze(v, s) PROVE IInv'
    BY <1>0, <2>2, FreezeStep
  <2>3. ASSUME NEW b \in BP, NEW s \in Amounts, vote(v, b, s) PROVE IInv'
    BY <1>0, <2>3, VoteStep
  <2>4. ASSUME NEW b \in BP, NEW s \in Amounts, NEW typ \in DOMAIN Tiers, votestatic(v, b, s, typ) PROVE IInv'
    BY <1>0, <2>4, VotestaticStep
  <2>5. ASSUME NEW b \in BP, claim(v, b) PROVE IInv'
    BY <2>5, ClaimStep
  <2>6. CASE unfreeze(v)
    BY <2>6, UnfreezeStep
  <2>7. ASSUME NEW b \in BP, votebyreward(v, b) PROVE IInv'
    BY <2>7, VotebyrewardStep
  <2>8. ASSUME NEW b \in BP, NEW i \in DOMAIN votes[<<v, b>>].static_votes, quitsvote(v, b, i) PROVE IInv'
    BY <2>8, QuitsvoteStep
  <2> QED
    BY <2>1, <2>2, <2>3, <2>4, <2>5, <2>6, <2>7, <2>8
<1>3. CASE ProducerNext
  <2>1. PICK b \in BP : \/ \E q \in Amounts : bppawn(b, q)
                        \/ bpredeem(b) \/ bpclaim(b) \/ removebp(b)
                        \/ \E S \in SUBSET BP, to_vid \in VidRewards : b \in S /\ onblock(b, S, to_vid)
    BY <1>3 DEF ProducerNext
  <2>2. ASSUME NEW q \in Amounts, bppawn(b, q) PROVE IInv'
    BY <1>0, <1>3, <2>2, BppawnStep
  <2>3. CASE bpredeem(b)
    BY <1>3, <2>3, BpredeemStep
  <2>4. CASE bpclaim(b)
    BY <1>3, <2>4, BpclaimStep
  <2>5. CASE removebp(b)
    BY <1>3, <2>5, RemovebpStep
  <2>6. ASSUME NEW S \in SUBSET BP, NEW to_vid \in VidRewards, onblock(b, S, to_vid) PROVE IInv'
    BY <1>0, <1>3, <2>6, OnblockStep
  <2> QED
    BY <2>1, <2>2, <2>3, <2>4, <2>5, <2>6
<1>5. CASE UNCHANGED vars
  BY <1>5 DEF vars, history, IInv, VotesOK, PowersAdd, TypeOK, RowsOK, AgesAccounted, AgeOf, newest_voteage,
              newest_total_voteage, VoteallAdds, LockedOwned, Locked, RewardsFunded
<1> QED
  BY <1>1, <1>2, <1>3, <1>5 DEF Next

\* The invariant of the system contract's books.
THEOREM Invariant == Spec => []IInv
BY Initially, Steps, PTL DEF Spec

\* Through every vote, change of a vote, static vote, its end, claim and
\* reinvestment, a producer's total_staked is the power its votes have.
THEOREM PowersAlwaysAdd == Spec => []PowersAdd
<1>1. IInv => PowersAdd
  BY DEF IInv, VotesOK
<1> QED
  BY <1>1, Invariant, PTL

\* The voters of a producer have its age and, beyond it, exactly the excess that
\* vote has settled.
THEOREM AgesAlwaysAccounted == Spec => []AgesAccounted
<1>1. IInv => AgesAccounted
  BY DEF IInv, VotesOK
<1> QED
  BY <1>1, Invariant, PTL

\* Through every operation, voteall is what the voter has in votes and the static
\* votes that ended.
THEOREM VoteallAlwaysAdds == Spec => []VoteallAdds
<1>1. IInv => VoteallAdds
  BY DEF IInv
<1> QED
  BY <1>1, Invariant, PTL

\* Through every operation, a voter's balance falls short of what is frozen, being
\* unfrozen or voted with by no more than static votes that ended and rewards
\* voted with.
THEOREM LockedAlwaysOwned == Spec => []LockedOwned
<1>1. IInv => LockedOwned
  BY DEF IInv
<1> QED
  BY <1>1, Invariant, PTL

\* Through every operation, the contract's account falls short of what it has
\* attributed by no more than what unfreeze has paid.
THEOREM RewardsAlwaysFunded == Spec => []RewardsFunded
<1>1. IInv => RewardsFunded
  BY DEF IInv
<1> QED
  BY <1>1, Invariant, PTL
===============================================================================
