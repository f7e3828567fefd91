------------------------------- MODULE NocStake -------------------------------
(***************************************************************************)
(* Freezing, voting and rewards of the system contract                     *)
(* (contracts/noc.system: voting.cpp, producer.cpp, noc.system.cpp) with   *)
(* the balances of the token contract (contracts/noc.token/noc.token.cpp). *)
(*                                                                         *)
(* Frozen tokens stay on the voter's own balance; sub_balance refuses to   *)
(* spend them.  An action that fails an assertion changes nothing, so      *)
(* assertions are guards, wherever in the action they stand.  A missing    *)
(* row of freezed, votes or voterinfo behaves as a row of zeros (an        *)
(* unstake_height counts only once something is unstaking).                *)
(* Four history variables keep what the contract loses track of, so that   *)
(* the properties can say how far its books are off, and why.              *)
(***************************************************************************)
EXTENDS Integers, Sequences, FiniteSets, Functions

CONSTANTS Voter, BP,                  \* voters; block producers, not "bacc." ones
          System, PawnBox, Fee, Fund, \* the contract's own accounts
          VidPool,                    \* the account rewarded for new vids
          Unit,                       \* smallest units in one token, 10000
          Tiers,                      \* static_vote_data: [lock, power], in blocks
          FrozenDelay,                \* FROZEN_DELAY
          Reward,                     \* calc_reward_by_block, within one cycle
          VidRewards,                 \* what the vids of the last block may earn
          MinClaim,                   \* least rewards_block bpclaim pays
          VoteLimits, StaticLimits,   \* [pawn, total]: votes a pawn admits
          Held,                       \* what voters and producers own at first
          Amounts,                    \* bound: quantities in actions
          MaxBlock, MaxStatic,        \* bounds: block number, static votes of a row
          MaxActions                  \* bound: actions executed

Account == Voter \cup BP \cup {System, PawnBox, Fee, Fund, VidPool}

ASSUME AmountAssumption ==
    /\ Unit \in Nat \ {0} /\ Reward \in Nat /\ MinClaim \in Nat \ {0} /\ Held \in Nat
    /\ FrozenDelay \in Nat /\ MaxBlock \in Nat \ {0} /\ MaxStatic \in Nat
    /\ MaxActions \in Nat
    /\ Amounts \cup VidRewards \subseteq Nat /\ IsFiniteSet(Voter) /\ IsFiniteSet(BP)
    /\ Tiers \in Seq([lock : Nat, power : Nat])
    /\ VoteLimits \cup StaticLimits \subseteq [pawn : Nat \ {0}, total : Nat]
ASSUME AccountAssumption ==
    /\ Voter \cap BP = {} /\ System \notin {PawnBox, Fee, Fund, VidPool}
    /\ (Voter \cup BP) \cap {System, PawnBox, Fee, Fund, VidPool} = {}

VARIABLES now,       \* current_block_num
          balance,   \* accounts
          freezed,   \* freezed: staked, unstaking, unstake_height
          voteall,   \* voterinfo
          votes,     \* votes: one row per voter and producer
          bps,       \* bps
          actions,   \* actions executed so far
          ended,     \* history: static votes of each voter that have ended (quitsvote)
          reinvested,\* history: rewards each voter has voted with (votebyreward)
          repaid,    \* history: what unfreeze has paid from the contract's account
          excess     \* history: age vote has settled for each producer beyond the power

history == <<ended, reinvested, repaid, excess>>
vars == <<now, balance, freezed, voteall, votes, bps, actions, history>>

StaticVote == [vote : Nat, votepower : Nat, age : Nat, height : Nat,
               unfreeze_block_num : Nat, is_has_quited : BOOLEAN]
VoteInfo   == [vote : Nat, votepower : Nat, voteage : Nat, height : Nat,
               static_votes : Seq(StaticVote)]
FreezeInfo == [staked : Nat, unstaking : Nat, unstake_height : Nat]
BpInfo     == [total_staked : Int, rewards_pool : Nat, rewards_block : Nat,
               total_voteage : Int, height : Nat, pawn : Nat, isactive : BOOLEAN]

TypeOK ==
    /\ now \in 1 .. MaxBlock
    /\ balance \in [Account -> Nat]
    /\ freezed \in [Voter -> FreezeInfo]
    /\ voteall \in [Voter -> Nat]
    /\ votes \in [Voter \X BP -> VoteInfo]
    /\ bps \in [BP -> BpInfo]
    /\ actions \in 0 .. MaxActions
    /\ ended \in [Voter -> Nat] /\ reinvested \in [Voter -> Nat] /\ repaid \in Nat
    /\ excess \in [BP -> Nat]

\* Every producer has registered with updatebp.
Init ==
    /\ now = 1
    /\ balance = [a \in Account |-> IF a \in Voter \cup BP THEN Held ELSE 0]
    /\ freezed = [v \in Voter |-> [staked |-> 0, unstaking |-> 0, unstake_height |-> 0]]
    /\ voteall = [v \in Voter |-> 0]
    /\ votes = [r \in Voter \X BP |-> [vote |-> 0, votepower |-> 0, voteage |-> 0, height |-> 0,
                                       static_votes |-> <<>>]]
    /\ bps = [b \in BP |-> [total_staked |-> 0, rewards_pool |-> 0, rewards_block |-> 0,
                            total_voteage |-> 0, height |-> 1, pawn |-> 0, isactive |-> TRUE]]
    /\ actions = 0 /\ ended = [v \in Voter |-> 0] /\ reinvested = [v \in Voter |-> 0]
    /\ repaid = 0 /\ excess = [b \in BP |-> 0]

-----------------------------------------------------------------------------
Counted == actions < MaxActions /\ actions' = actions + 1

(* The token contract. *)

Locked(a) ==
    IF a \in Voter THEN freezed[a].staked + freezed[a].unstaking + voteall[a] ELSE 0

\* Mutant: what is voted with can be spent.
sub_balance_ignores_votes(a, q) ==
    balance[a] >= q + (IF a \in Voter THEN freezed[a].staked + freezed[a].unstaking ELSE 0)

\* sub_balance goes through.
sub_balance(a, q) == balance[a] >= q + Locked(a)

Move(from, to, q) ==
    /\ sub_balance(from, q)
    /\ balance' = [balance EXCEPT ![from] = @ - q, ![to] = @ + q]

transfer(from, to, q) ==
    /\ from # to /\ q > 0
    /\ Move(from, to, q)
    /\ Counted /\ UNCHANGED <<now, freezed, voteall, votes, bps, history>>

fee(payer, q) ==
    /\ q > 0
    /\ Move(payer, Fee, q)
    /\ Counted /\ UNCHANGED <<now, freezed, voteall, votes, bps, history>>

-----------------------------------------------------------------------------
(* Freezing. *)

\* stake is the new total, not a difference.
freeze(v, stake) ==
    LET less == IF stake < freezed[v].staked THEN freezed[v].staked - stake ELSE 0
    IN  /\ stake % Unit = 0
        /\ freezed' = [freezed EXCEPT ![v] =
               [staked |-> stake, unstaking |-> @.unstaking + less,
                unstake_height |-> IF less > 0 THEN now ELSE @.unstake_height]]
        /\ balance[v] >= stake + voteall[v] + freezed'[v].unstaking
        /\ Counted /\ UNCHANGED <<now, balance, voteall, votes, bps, history>>

\* What is paid stays in the row: it is locked still and can be paid again.
unfreeze(v) ==
    /\ freezed[v].unstake_height + FrozenDelay < now
    /\ freezed[v].unstaking > 0
    /\ Move(System, v, freezed[v].unstaking)
    /\ repaid' = repaid + freezed[v].unstaking
    /\ Counted /\ UNCHANGED <<now, freezed, voteall, votes, bps, ended, reinvested, excess>>

-----------------------------------------------------------------------------
(* Voting. *)

\* The producer's age is settled with the power it had, then the power changes.
modify_bp_vote(b, power) ==
    [b EXCEPT !.total_voteage = @ + b.total_staked * (now - b.height),
              !.height = now, !.total_staked = @ + power]

\* Mutant: a later vote replaces the sum.
update_voter_info_last(v, change) ==
    voteall' = [voteall EXCEPT ![v] = change]

update_voter_info(v, change) ==
    /\ voteall[v] + change >= 0
    /\ voteall' = [voteall EXCEPT ![v] = @ + change]

\* Some line of the table of pawns admits that many votes.
PawnAdmits(limits, b, power) ==
    \E l \in limits : bps[b].pawn >= l.pawn /\ bps[b].total_staked + power <= l.total

\* Mutant: the power is not divided by ten.
vote_power_plain(stake) == stake

vote_power(stake) == stake \div 10

\* The age of a row is settled, with the votes and not their power.
Voted(row, stake) ==
    [row EXCEPT !.voteage = @ + (row.vote \div Unit) * (now - row.height),
                !.height = now, !.vote = stake, !.votepower = vote_power(stake)]

\* By how much the age of a row grows in Voted beyond its power, nine tenths of
\* its votes for every block.
Overcounted(row) == ((row.vote - row.votepower) \div Unit) * (now - row.height)

\* stake is the new total; a decrease goes back to staked.
vote(v, b, stake) ==
    LET change == stake - votes[<<v, b>>].vote
        power  == change \div (10 * Unit)
    IN  /\ stake % (10 * Unit) = 0
        /\ bps[b].isactive \/ change < 0
        /\ change > 0 => PawnAdmits(VoteLimits, b, power) /\ freezed[v].staked >= change
        /\ votes' = [votes EXCEPT ![<<v, b>>] = Voted(@, stake)]
        /\ freezed' = [freezed EXCEPT ![v].staked = @ - change,
                                      ![v].unstake_height = IF change < 0 THEN now ELSE @]
        /\ update_voter_info(v, change)
        /\ bps' = [bps EXCEPT ![b] = modify_bp_vote(@, power)]
        /\ excess' = [excess EXCEPT ![b] = @ + Overcounted(votes[<<v, b>>])]
        /\ Counted /\ UNCHANGED <<now, balance, ended, reinvested, repaid>>

append_static_vote(row, stake, tier) ==
    [row EXCEPT !.static_votes =
        Append(@, [vote |-> stake, votepower |-> stake * tier.power, age |-> 0, height |-> now,
                   unfreeze_block_num |-> now + tier.lock, is_has_quited |-> FALSE])]

votestatic(v, b, stake, typ) ==
    LET power == stake * Tiers[typ].power
    IN  /\ stake % Unit = 0
        /\ bps[b].isactive
        /\ PawnAdmits(StaticLimits, b, stake \div Unit)
        /\ freezed[v].staked >= stake
        /\ Len(votes[<<v, b>>].static_votes) < MaxStatic
        /\ freezed' = [freezed EXCEPT ![v].staked = @ - stake]
        /\ votes' = [votes EXCEPT ![<<v, b>>] = append_static_vote(@, stake, Tiers[typ])]
        /\ update_voter_info(v, stake)
        /\ bps' = [bps EXCEPT ![b] = modify_bp_vote(@, power \div Unit)]
        /\ Counted /\ UNCHANGED <<now, balance, history>>

\* Mutant: the age of a vote that ends is not settled.
Quit_unsettled(s) ==
    [s EXCEPT !.is_has_quited = TRUE, !.height = now, !.votepower = 0, !.vote = 0]

\* The vote that ends keeps its age until it is claimed.
Quit(s) ==
    [s EXCEPT !.is_has_quited = TRUE,
              !.age = @ + (s.votepower * (now - s.height)) \div Unit,
              !.height = now, !.votepower = 0, !.vote = 0]

Quitted(row, idx) == [row EXCEPT !.static_votes[idx] = Quit(@)]

\* vote_token is a reference into the row, which is zero when it is
\* subtracted from voteall.
quitsvote(v, b, idx) ==
    LET s == votes[<<v, b>>].static_votes[idx]
    IN  /\ ~s.is_has_quited /\ s.unfreeze_block_num <= now
        /\ freezed' = [freezed EXCEPT ![v].staked = @ + s.vote, ![v].unstake_height = now]
        /\ bps' = [bps EXCEPT ![b] = modify_bp_vote(@, -(s.votepower \div Unit))]
        /\ votes' = [votes EXCEPT ![<<v, b>>] = Quitted(@, idx)]
        /\ update_voter_info(v, -votes'[<<v, b>>].static_votes[idx].vote)
        /\ ended' = [ended EXCEPT ![v] = @ + s.vote]
        /\ Counted /\ UNCHANGED <<now, balance, reinvested, repaid, excess>>

-----------------------------------------------------------------------------
(* Rewards. *)

newest_total_voteage(b) ==
    bps[b].total_voteage + bps[b].total_staked * (now - bps[b].height)

StaticAge(s, at) ==
    s.age + (IF s.is_has_quited THEN 0 ELSE (s.votepower * (at - s.height)) \div Unit)

\* The age of a row at some block.
RowAge(row, at) ==
    LET s == row.static_votes
    IN  row.voteage + (row.votepower * (at - row.height)) \div Unit
        + SumFunction([i \in DOMAIN s |-> StaticAge(s[i], at)])

newest_voteage(v, b) == RowAge(votes[<<v, b>>], now)

\* The voter's share of the producer's pool.
reward(v, b) == (bps[b].rewards_pool * newest_voteage(v, b)) \div newest_total_voteage(b)

Claimable(v, b) ==
    /\ newest_total_voteage(b) > 0
    /\ reward(v, b) > 0 /\ reward(v, b) <= bps[b].rewards_pool

\* The static votes that have not ended.
Kept(s) ==
    LET new_votes[i \in 0 .. Len(s)] ==
            CASE i = 0 -> <<>>
              [] i > 0 /\ s[i].is_has_quited -> new_votes[i - 1]
              [] OTHER -> Append(new_votes[i - 1], s[i])
    IN  new_votes[Len(s)]

\* All ages start again.
Renewed(s) == [i \in DOMAIN s |-> [s[i] EXCEPT !.age = 0, !.height = now]]

Restart(row) ==
    [row EXCEPT !.voteage = 0, !.height = now,
                !.static_votes = Renewed(Kept(row.static_votes))]

\* What claim leaves of the pool and of the producer's age.
PaidOut(v, b) ==
    [bps[b] EXCEPT !.rewards_pool = @ - reward(v, b),
                   !.total_voteage = newest_total_voteage(b) - newest_voteage(v, b),
                   !.height = now]

claim(v, b) ==
    /\ Claimable(v, b)
    /\ Move(System, v, reward(v, b))
    /\ votes' = [votes EXCEPT ![<<v, b>>] = Restart(@)]
    /\ bps' = [bps EXCEPT ![b] = PaidOut(v, b)]
    /\ Counted /\ UNCHANGED <<now, freezed, voteall, history>>

Reinvested(row, whole) ==
    [Restart(row) EXCEPT !.vote = @ + whole, !.votepower = @ + vote_power(whole)]

\* The reward is voted with at once, in multiples of ten tokens.
votebyreward(v, b) ==
    LET whole == reward(v, b) - (reward(v, b) % (10 * Unit))
    IN  /\ bps[b].isactive /\ Claimable(v, b)
        /\ votes' = [votes EXCEPT ![<<v, b>>] = Reinvested(@, whole)]
        /\ update_voter_info(v, whole)
        /\ bps' = [bps EXCEPT ![b] = modify_bp_vote(PaidOut(v, b), vote_power(whole) \div Unit)]
        /\ reinvested' = [reinvested EXCEPT ![v] = @ + whole]
        /\ Counted /\ UNCHANGED <<now, balance, freezed, ended, repaid, excess>>

TotalStaked(S) == SumFunction([b \in S |-> bps[b].total_staked])

\* A scheduled producer's share of nothing is not a number, and converting it
\* traps: the action fails and the block goes on without it.
SharesTrap(scheduled) ==
    /\ TotalStaked(BP) > 0 /\ TotalStaked(scheduled) = 0
    /\ \E b \in scheduled : bps[b].isactive

\* Mutant: the pools share by the votes of the scheduled producers only.
reward_bps_scheduled(producer, scheduled, for_produce, for_bp, for_user) ==
    IF TotalStaked(scheduled) <= 0 THEN bps ELSE
    [b \in BP |-> [bps[b] EXCEPT
         !.rewards_pool = @ + (for_user * bps[b].total_staked) \div TotalStaked(scheduled)]]

\* What each producer's pool and block reward become.
reward_bps_and_user(producer, scheduled, for_produce, for_bp, for_user) ==
    IF for_bp + for_user = 0 \/ TotalStaked(BP) <= 0 THEN bps ELSE
    [b \in BP |->
        IF ~bps[b].isactive THEN bps[b]
        ELSE [bps[b] EXCEPT
                 !.rewards_pool = @ + (for_user * bps[b].total_staked) \div TotalStaked(BP),
                 !.rewards_block = @
                     + (IF b \notin scheduled THEN 0
                        ELSE (for_bp * bps[b].total_staked) \div TotalStaked(scheduled))
                     + (IF b = producer THEN for_produce ELSE 0)]]

\* The next block starts: its reward is issued and attributed.  When the vids
\* earn more than the reward the code issues nothing to them, which fails.
onblock(producer, scheduled, to_vid) ==
    LET left        == Reward - to_vid
        for_produce == (left * 10) \div 100
        for_bps     == (left * 10) \div 100
    IN  /\ now < MaxBlock
        /\ now' = now + 1
        /\ IF left < 0 \/ (left > 0 /\ SharesTrap(scheduled))
           THEN UNCHANGED <<balance, bps>>
           ELSE /\ balance' = [balance EXCEPT ![System] = @ + left, ![VidPool] = @ + to_vid]
                /\ bps' = reward_bps_and_user(producer, scheduled, for_produce, for_bps,
                                              left - (for_bps + for_produce))
        /\ Counted /\ UNCHANGED <<freezed, voteall, votes, history>>

-----------------------------------------------------------------------------
(* Producers. *)

bppawn(b, pawn) ==
    /\ pawn > 0
    /\ Move(b, PawnBox, pawn)
    /\ bps' = [bps EXCEPT ![b].pawn = @ + pawn]
    /\ Counted /\ UNCHANGED <<now, freezed, voteall, votes, history>>

\* The transfer of an empty pawn fails.
bpredeem(b) ==
    /\ bps[b].total_staked <= 0 /\ bps[b].pawn > 0
    /\ Move(PawnBox, b, bps[b].pawn)
    /\ bps' = [bps EXCEPT ![b].pawn = 0]
    /\ Counted /\ UNCHANGED <<now, freezed, voteall, votes, history>>

\* A hundredth of the block reward, rounded, goes to the fund.
bpclaim(b) ==
    LET due == bps[b].rewards_block
        cut == (due + 50) \div 100
    IN  /\ due >= MinClaim /\ sub_balance(System, due)
        /\ balance' = [balance EXCEPT ![System] = @ - due, ![b] = @ + due - cut, ![Fund] = @ + cut]
        /\ bps' = [bps EXCEPT ![b].rewards_block = 0]
        /\ Counted /\ UNCHANGED <<now, freezed, voteall, votes, history>>

removebp(b) ==
    /\ bps' = [bps EXCEPT ![b].isactive = FALSE]
    /\ Counted /\ UNCHANGED <<now, balance, freezed, voteall, votes, history>>

-----------------------------------------------------------------------------
TokenNext ==
    \E a \in Voter, q \in Amounts : fee(a, q) \/ \E c \in Voter \cup BP : transfer(a, c, q)

VoterNext ==
    \E v \in Voter :
        \/ unfreeze(v) \/ \E s \in Amounts : freeze(v, s)
        \/ \E b \in BP :
              \/ \E s \in Amounts : vote(v, b, s) \/ \E typ \in DOMAIN Tiers : votestatic(v, b, s, typ)
              \/ \E i \in DOMAIN votes[<<v, b>>].static_votes : quitsvote(v, b, i)
              \/ claim(v, b) \/ votebyreward(v, b)

ProducerNext ==
    \E b \in BP : \/ \E q \in Amounts : bppawn(b, q)
                  \/ bpredeem(b) \/ bpclaim(b) \/ removebp(b)
                  \/ \E S \in SUBSET BP, to_vid \in VidRewards : b \in S /\ onblock(b, S, to_vid)

Next == TokenNext \/ VoterNext \/ ProducerNext

Spec == Init /\ [][Next]_vars

-----------------------------------------------------------------------------
(* Properties. *)

StaticPower(s) == SumFunction([i \in DOMAIN s |-> s[i].votepower])
StaticVotes(s) == SumFunction([i \in DOMAIN s |-> s[i].vote])

PowerOf(row) == (row.votepower + StaticPower(row.static_votes)) \div Unit
VotesOf(row) == row.vote + StaticVotes(row.static_votes)

\* A producer's total_staked, by which blocks are scheduled and rewards
\* shared, is the power of the votes it has, through every kind of vote,
\* change, withdrawal and reinvestment.
PowersAdd ==
    /\ TypeOK
    /\ \A b \in BP : bps[b].total_staked = SumFunction([v \in Voter |-> PowerOf(votes[<<v, b>>])])

AgeOf(b) == SumFunction([v \in Voter |-> newest_voteage(v, b)])

\* The ages the voters of a producer have, by which its pool is shared, are the
\* producer's own age but for the excess: vote settles the row with vote.amount
\* and the producer with a tenth of it.  Nothing else drives them apart, through
\* any order of votes, static votes, their end and claims.  Where there is an
\* excess, the shares of a pool add up to more than the pool, and claim fails for
\* a voter whose share alone is more.
AgesAccounted == \A b \in BP : AgeOf(b) = newest_total_voteage(b) + excess[b]

\* voteall, which locks tokens, is what the voter has in votes and all static
\* votes that ever ended: quitsvote subtracts a vote that is zero by then, and
\* nothing else is lost or counted twice (update_voter_info).
VoteallAdds ==
    \A v \in Voter :
        voteall[v] = SumFunction([b \in BP |-> VotesOf(votes[<<v, b>>])]) + ended[v]

\* What freeze checks when tokens are frozen stays true: the voter owns what is
\* frozen, being unfrozen or voted with (sub_balance), but for votes that ended,
\* which are locked twice, and rewards voted with, which were never paid out.
LockedOwned == \A v \in Voter : balance[v] + ended[v] + reinvested[v] >= Locked(v)

\* The contract's account would hold every reward it has attributed, and a claim
\* would never fail for want of tokens (onblock, claim, bpclaim), but for what
\* unfreeze pays from it to voters who never gave those tokens away.
RewardsFunded ==
    balance[System] + repaid >= SumFunction([b \in BP |-> bps[b].rewards_pool + bps[b].rewards_block])

===============================================================================
