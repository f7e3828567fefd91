------------------------------- MODULE Finality -------------------------------
(***************************************************************************)
(* Producers on forks of one chain (producer_plugin.cpp, with the header   *)
(* states of block_header_state.cpp and the fork database's choice of the  *)
(* head).  Each producer runs on a node of its own; blocks reach the nodes *)
(* in any order and as late as the network likes, a node may restart, and  *)
(* any number of slots is missed.                                          *)
(*                                                                         *)
(* A block is known by its place in block, which is the order of the slots *)
(* too.  A node may switch to every better chain, also to one the pruning  *)
(* of its fork database would refuse.                                      *)
(***************************************************************************)
EXTENDS HeaderState

CONSTANTS Starts,          \* the chains the network begins to delay blocks after
          MaxNew,          \* bound: blocks made then
          MaxRestarts      \* bound: restarts of nodes

\* Such a chain has a schedule at genesis, a schedule (or <<>>) that its block
\* numbered at proposes, and a length.
ASSUME FinalityAssumption ==
    /\ Starts \subseteq [first : Seq(Producer) \ {<<>>}, next : Seq(Producer),
                          at : Nat, length : Nat \ {0}]
    /\ {MaxNew, MaxRestarts} \subseteq Nat

VARIABLES block,      \* every block made: its header state, parent, producer, ...
          heads,      \* the head of each producer's node
          marks,      \* _producer_watermarks of all the nodes
          signed,     \* _last_signed_block_num and _last_signed_block_time
          started,    \* _start_time
          made,       \* blocks made since the network delays some
          restarts    \* restarts so far

forksVars == <<block, heads, marks, signed, started, made, restarts>>

Never == [num |-> 0, slot |-> 0]

Block(b) ==
    /\ IsHeader(b.header) /\ b.proposed \in Proposal
    /\ {b.parent, b.slot, b.confirmed} \subseteq Nat /\ b.by \in Producer

ForksTypeOK ==
    /\ \A i \in 1 .. Len(block) : Block(block[i])
    /\ heads \in [Producer -> 1 .. Len(block)]
    /\ IsMap(marks) /\ signed \in [Producer -> [num : Nat, slot : Nat]]
    /\ started \in [Producer -> Nat] /\ made \in 0 .. MaxNew /\ restarts \in 0 .. MaxRestarts

-----------------------------------------------------------------------------
\* The next slot of a producer p of the schedule s after the slot t.
NextSlot(s, p, t) ==
    CHOOSE u \in t + 1 .. t + Len(s.producers) * Repetitions :
        /\ get_scheduled_producer(s, u) = p
        /\ \A v \in t + 1 .. u - 1 : get_scheduled_producer(s, v) # p

\* Mutant: nothing but its head tells a producer that it has signed a block.
MaySign_always(m, p, num) == TRUE

\* start_block refuses to produce at or below the watermark.
MaySign(m, p, num) == p \in DOMAIN m => m[p] < num

\* The block a node produces in slot t on bs[i]; the schedule s (<<>>: none) is
\* proposed in it.
produce_block(bs, i, p, m, t, s) ==
    LET h == bs[i].header
        c == blocks_to_confirm(m, p, h.num)
        b == start_block(h, bs[i].proposed, p, c)
    IN  [header |-> b.header, parent |-> i, by |-> p, confirmed |-> c, slot |-> t,
         proposed |-> Propose(s, b.header, b.proposed)]

\* on_block, for an applied block b on the node of p: the node signs a
\* confirmation of a block of others, and sets the watermark if the next block
\* makes p active.  Blocks before the last one signed, or before the start, are
\* passed over.
on_block(n, b, p) ==
    IF b.slot <= n.signed.slot \/ b.slot <= n.started \/ b.header.num <= n.signed.num
    THEN n
    ELSE [n EXCEPT
            !.signed = IF p # b.by /\ p \in ToSet(b.header.active.producers)
                       THEN [num |-> b.header.num, slot |-> b.slot] ELSE @,
            !.marks = Overlay(Installed(b.header, b.slot, {p}), @)]

\* The blocks a node with the head i applies to reach the head j, oldest first.
Ancestors(bs, i) ==
    LET up[k \in 0 .. Len(bs)] == IF k = 0 THEN {} ELSE {k} \cup up[bs[k].parent]
    IN  up[i]
Branch(bs, i, j) ==
    LET new == Ancestors(bs, j) \ Ancestors(bs, i)
    IN  [n \in 1 .. Cardinality(new) |->
            CHOOSE k \in new : Cardinality({l \in new : l < k}) = n - 1]

\* What p's node remembers.
Node(p) == [marks |-> marks, signed |-> signed[p], started |-> started[p]]

apply_blocks(n, bs, path, p) ==
    LET run[k \in 0 .. Len(path)] ==
            IF k = 0 THEN n ELSE on_block(run[k - 1], bs[path[k]], p)
    IN  run[Len(path)]

\* A chain without forks: every block reaches every node at once.
Origin(first) ==
    [block  |-> <<[header |-> Genesis(first), parent |-> 0, by |-> first[1],
                   confirmed |-> 0, slot |-> 0, proposed |-> NoProposal]>>,
     marks  |-> <<>>,
     signed |-> [p \in Producer |-> Never]]
Extend(w, s) ==
    LET i == Len(w.block)
        t == w.block[i].slot + 1
        p == get_scheduled_producer(w.block[i].header.active, t)
        b == produce_block(w.block, i, p, w.marks, t, s)
        n == [q \in Producer |->
                 on_block([marks |-> <<>>, signed |-> w.signed[q], started |-> 0], b, q)]
        installed == [q \in {q \in Producer : q \in DOMAIN n[q].marks} |-> n[q].marks[q]]
    IN  [block  |-> Append(w.block, b),
         marks  |-> Assign(Overlay(installed, w.marks), p, b.header.num),
         signed |-> [q \in Producer |-> n[q].signed]]
Chain(s) ==
    LET upto[num \in 1 .. s.length] ==
            IF num = 1 THEN Origin(s.first)
            ELSE Extend(upto[num - 1], IF num = s.at THEN s.next ELSE <<>>)
    IN  upto[s.length]

ForksInit ==
    /\ \E s \in Starts :
          LET c == Chain(s)
          IN  /\ block = c.block /\ marks = c.marks /\ signed = c.signed
              /\ heads = [p \in Producer |-> Len(c.block)]
    /\ started = [p \in Producer |-> 0] /\ made = 0 /\ restarts = 0

-----------------------------------------------------------------------------
\* The order by_lib_block_num: of two equals the one that came first stays.
Better(i, j) ==
    \/ block[i].header.lib > block[j].header.lib
    \/ block[i].header.lib = block[j].header.lib /\ block[i].header.num > block[j].header.num

\* next refuses a block that confirms what its producer confirmed before on its
\* chain.
Valid(i) ==
    MayConfirm(block[block[i].parent].header, block[i].by, block[i].confirmed)

\* By its next slot the blocks up to j, a better chain than its own, have
\* reached the node of p (or none has: j is its head); then p, if the schedule
\* there names it, makes a block.
Produce(p, j) ==
    LET path == Branch(block, heads[p], j)
        n    == apply_blocks(Node(p), block, path, p)
        h    == block[j].header
        t    == NextSlot(h.active, p, block[Len(block)].slot)
        b    == produce_block(block, j, p, n.marks, t, <<>>)
        m    == on_block(n, b, p)
    IN  /\ made < MaxNew
        /\ j = heads[p] \/ Better(j, heads[p])
        /\ \A k \in ToSet(path) : Valid(k)
        /\ p \in ToSet(h.active.producers)
        /\ MaySign(n.marks, p, h.num + 1)
        /\ block' = Append(block, b)
        /\ heads' = [heads EXCEPT ![p] = Len(block) + 1]
        /\ marks' = Assign(m.marks, p, b.header.num)
        /\ signed' = [signed EXCEPT ![p] = m.signed]
        /\ made' = made + 1
        /\ UNCHANGED <<started, restarts>>

\* The node of p stops and starts again: its blocks come back, the watermarks
\* do not.
Restart(p) ==
    /\ restarts < MaxRestarts
    /\ restarts' = restarts + 1
    /\ marks' = [q \in DOMAIN marks \ {p} |-> marks[q]]
    /\ signed' = [signed EXCEPT ![p] = Never]
    /\ started' = [started EXCEPT ![p] = block[Len(block)].slot]
    /\ UNCHANGED <<block, heads, made>>

ForksNext ==
    \E p \in Producer :
        \/ \E j \in 1 .. Len(block) : Produce(p, j)
        \/ Restart(p)

ForksSpec == ForksInit /\ [][ForksNext]_forksVars

-----------------------------------------------------------------------------
(* Properties. *)

\* The blocks i and j confirm some number both: a block confirms its own number
\* and as many before it as its header says.
Overlap(i, j) ==
    /\ block[i].header.num >= block[j].header.num - block[j].confirmed
    /\ block[j].header.num >= block[i].header.num - block[i].confirmed

Twice == {w \in (2 .. Len(block)) \X (2 .. Len(block)) :
             w[1] < w[2] /\ block[w[1]].by = block[w[2]].by /\ Overlap(w[1], w[2])}

\* Between its blocks i and j the producer p came, on a branch it had left or not
\* been on, to a block after which the schedule begins to name it.
Reinstalled(p, i, j) ==
    \E a, b \in {k \in i .. j : block[k].by = p} :
        \E k \in Ancestors(block, b) \ Ancestors(block, a) :
            a < b /\ p \in DOMAIN Installed(block[k].header, block[k].slot, {p})

\* A producer whose node keeps running never confirms two blocks of one number,
\* whatever forks it produces on: the watermarks of start_block and
\* produce_block see to it when a shorter chain with a higher irreversible block
\* becomes the best, or the schedule changes on a fork.  The exception is a
\* producer that works already and is installed once more on another branch:
\* on_block then sets its watermark to that block, also if that lowers it.
ConfirmsOnce ==
    /\ ForksTypeOK
    /\ \A w \in Twice :
          LET p == block[w[1]].by
          IN  \/ block[w[1]].slot <= started[p]
              \/ Reinstalled(p, w[1], w[2])

\* Two forks never propose different blocks of one number as irreversible, also
\* when one node restarts: dpos_proposed_irreversible_blocknum moves only with
\* confirmations by more than two thirds, of which enough are not given twice.
ProposedOnce ==
    \A i, j \in 2 .. Len(block) :
        block[i].header.dpos = block[j].header.dpos =>
            {k \in Ancestors(block, i) : block[k].header.num = block[i].header.dpos} =
            {k \in Ancestors(block, j) : block[k].header.num = block[i].header.dpos}

===============================================================================
