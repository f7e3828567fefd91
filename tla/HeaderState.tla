------------------------------ MODULE HeaderState ------------------------------
(***************************************************************************)
(* What a block's header state is computed from its parent's with          *)
(* (block_header_state.cpp), and how many blocks a producer's node         *)
(* confirms (producer_plugin.cpp).                                         *)
(***************************************************************************)
EXTENDS Integers, Sequences, SequencesExt, FiniteSets

CONSTANTS Producer,        \* producer accounts
          Repetitions,     \* config::producer_repetitions
          MaxTracked,      \* config::maximum_tracked_dpos_confirmations
          Word             \* modulus of block number arithmetic, 2^32 in the code

ASSUME HeaderAssumption ==
    /\ MaxTracked \in Nat \ {0} /\ Repetitions \in Nat \ {0} /\ Word \in Nat \ {0}
    /\ IsFiniteSet(Producer)

Schedule == [version : Nat, producers : Seq(Producer)]
NoSchedule == [version |-> 0, producers |-> <<>>]

IsMap(f) == DOMAIN f \subseteq Producer /\ f \in [DOMAIN f -> Nat]

\* A map with an entry assigned, and one with all the entries of another.
Assign(f, p, v) == [q \in DOMAIN f \cup {p} |-> IF q = p THEN v ELSE f[q]]
Overlay(f, g) == [q \in DOMAIN f \cup DOMAIN g |-> IF q \in DOMAIN f THEN f[q] ELSE g[q]]

\* block_header_state: what of it the next block is computed from.
IsHeader(h) ==
    /\ DOMAIN h = {"num", "active", "pending", "pending_lib", "produced",
                   "implied", "counts", "dpos", "lib"}
    /\ {h.num, h.pending_lib, h.dpos, h.lib} \subseteq Nat
    /\ h.active \in Schedule      \* active_schedule
    /\ h.pending \in Schedule     \* pending_schedule, no producers when there is none
    /\ IsMap(h.produced)          \* producer_to_last_produced
    /\ IsMap(h.implied)           \* producer_to_last_implied_irb
    /\ h.counts \in Seq(Nat)      \* confirm_count: confirmations the newest blocks lack

\* The genesis state: the maps are empty, and the first schedule is pending as
\* well as active, so that the first block promotes it and fills the maps.
Genesis(first) ==
    LET s == [version |-> 0, producers |-> first]
    IN  [num |-> 1, active |-> s, pending |-> s, pending_lib |-> 0, produced |-> <<>>,
         implied |-> <<>>, counts |-> <<>>, dpos |-> 0, lib |-> 0]

\* The k-th smallest value of a map, counted from 0.
Smallest(f, k) ==
    CHOOSE v \in {f[p] : p \in DOMAIN f} :
        /\ Cardinality({p \in DOMAIN f : f[p] < v}) <= k
        /\ Cardinality({p \in DOMAIN f : f[p] <= v}) > k

\* A third into the list sorted from low to high.
calc_dpos_last_irreversible(irb) ==
    IF DOMAIN irb = {} THEN 0 ELSE Smallest(irb, (Cardinality(DOMAIN irb) - 1) \div 3)

\* Mutant: two thirds of the producers, not more than that, are required.
required_two_thirds(s) == (Len(s.producers) * 2) \div 3

required_confs(s) == (Len(s.producers) * 2) \div 3 + 1

\* generate_next: the count of the new block joins the window.
grow(cc, required) ==
    Append(IF Len(cc) < MaxTracked THEN cc ELSE Tail(cc), required)

\* set_confirmed touches the counts of the last c + 1 blocks, newest first;
\* the first that reaches zero is proposed and ends the walk.
Touched(cc, c) == {i \in 1 .. Len(cc) : i >= Len(cc) - c}
Reached(cc, c) == {i \in Touched(cc, c) : cc[i] = 1}
Newest(S) == CHOOSE i \in S : \A j \in S : j <= i

\* What is left of the window afterwards.
confirm_counts(cc, c) ==
    LET less == [i \in 1 .. Len(cc) |-> IF i \in Touched(cc, c) THEN cc[i] - 1 ELSE cc[i]]
    IN  IF Reached(cc, c) = {} THEN less
        ELSE SubSeq(less, Newest(Reached(cc, c)) + 1, Len(cc))

\* Otherwise the proposed number stays.
confirm_proposed(cc, c, num, old) ==
    IF Reached(cc, c) = {} THEN old ELSE num - (Len(cc) - Newest(Reached(cc, c)))

get_scheduled_producer(s, t) ==
    s.producers[(t % (Len(s.producers) * Repetitions)) \div Repetitions + 1]

\* generate_next: the state of a block by p on h, before its confirmations.
generate_next(h, p) ==
    LET irb == Assign(h.implied, p, h.dpos)
    IN  [h EXCEPT !.num = @ + 1, !.produced = Assign(@, p, h.num + 1), !.implied = irb,
                  !.lib = calc_dpos_last_irreversible(irb),
                  !.counts = grow(@, required_confs(h.active))]

set_confirmed(h, c) ==
    [h EXCEPT !.counts = confirm_counts(@, c),
              !.dpos = confirm_proposed(h.counts, c, h.num, @)]

\* Mutant: a producer new to the schedule starts from zero.
Rebuild_zero(f, s, default) ==
    [p \in ToSet(s.producers) |-> IF p \in DOMAIN f THEN f[p] ELSE 0]

\* maybe_promote_pending rebuilds a map for the new schedule.
Rebuild(f, s, default) ==
    [p \in ToSet(s.producers) |-> IF p \in DOMAIN f THEN f[p] ELSE default]

Promotes(h) == h.pending.producers # <<>> /\ h.lib >= h.pending_lib

\* Mutant: producers new to the schedule get the proposed number.
maybe_promote_proposed(h, p) ==
    IF Promotes(h)
    THEN [h EXCEPT !.active = h.pending, !.pending = NoSchedule,
                   !.produced = Assign(Rebuild(@, h.pending, h.lib), p, h.num),
                   !.implied = Rebuild(@, h.pending, h.dpos)]
    ELSE h

\* The block by p on which the pending schedule's block is irreversible makes
\* the pending schedule the active one.
maybe_promote_pending(h, p) ==
    IF Promotes(h)
    THEN [h EXCEPT !.active = h.pending, !.pending = NoSchedule,
                   !.produced = Assign(Rebuild(@, h.pending, h.lib), p, h.num),
                   !.implied = Rebuild(@, h.pending, h.lib)]
    ELSE h

set_new_producers(h, s) == [h EXCEPT !.pending = s, !.pending_lib = h.num]

\* Mutant: a producer may confirm its last block again.
MayConfirm_again(h, p, c) ==
    p \in DOMAIN h.produced => h.produced[p] <= (h.num + 1 - c) % Word

\* The double-confirm check of next, in the code's unsigned arithmetic.
MayConfirm(h, p, c) ==
    p \in DOMAIN h.produced => h.produced[p] < (h.num + 1 - c) % Word

\* The header state of the block by p on h that confirms c blocks before itself.
next_header(h, p, c) == maybe_promote_pending(set_confirmed(generate_next(h, p), c), p)

-----------------------------------------------------------------------------
(* Proposed schedules, kept in the chain state (controller.cpp). *)

Proposal == [version : Nat, producers : Seq(Producer), num : Nat]
NoProposal == [version |-> 0, producers |-> <<>>, num |-> 0]

Promotable(h, prop, promoted) ==
    /\ prop # NoProposal /\ prop.num <= h.lib
    /\ h.pending.producers = <<>> /\ ~promoted

\* start_block: a proposed schedule becomes the pending one, except in a block
\* that made the pending one active.
start_block(h, prop, p, c) ==
    LET new == next_header(h, p, c)
    IN  IF Promotable(new, prop, new.active # h.active)
        THEN [header   |-> set_new_producers(new, [version   |-> prop.version,
                                                   producers |-> prop.producers]),
              proposed |-> NoProposal]
        ELSE [header |-> new, proposed |-> prop]

\* Mutant: the version always follows the active schedule.
Propose_active(s, h, prop) ==
    IF s = <<>> \/ prop # NoProposal \/ h.active.producers = s
    THEN prop
    ELSE [version |-> h.active.version + 1, producers |-> s, num |-> h.num]

\* set_proposed_producers, called in the block h.
Propose(s, h, prop) ==
    LET top == IF h.pending.producers = <<>> THEN h.active ELSE h.pending
    IN  IF \/ s = <<>>
           \/ prop # NoProposal /\ (prop.num # h.num \/ prop.producers = s)
           \/ top.producers = s
        THEN prop
        ELSE [version |-> top.version + 1, producers |-> s, num |-> h.num]

-----------------------------------------------------------------------------
(* The watermarks of a node's producers. *)

\* What a producer confirms on a head numbered num: nothing if its node has no
\* watermark for it, else the blocks since then.
blocks_to_confirm(marks, p, num) ==
    IF p \in DOMAIN marks /\ marks[p] < num THEN num - marks[p] ELSE 0

\* on_block looks ahead to the block after h, in the next slot.
LookAhead(h, t) ==
    LET p == get_scheduled_producer(h.active, t + 1)
    IN  maybe_promote_pending(generate_next(h, p), p)

\* The watermarks of the producers of a node which that block will make active
\* are set to the block before it, h.
Installed(h, t, producers) ==
    LET new == LookAhead(h, t)
    IN  IF new.active.version = h.active.version THEN <<>>
        ELSE [p \in (ToSet(new.active.producers) \cap producers) \ ToSet(h.active.producers)
                 |-> h.num]

================================================================================
