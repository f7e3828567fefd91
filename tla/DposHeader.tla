------------------------------ MODULE DposHeader ------------------------------
(***************************************************************************)
(* The header state of a chain of blocks (block_header_state.cpp): which   *)
(* producer confirms which blocks, when a block is proposed irreversible,  *)
(* when it is irreversible, and how the producer schedule changes          *)
(* (controller.cpp: start_block, set_proposed_producers).                  *)
(*                                                                         *)
(* Producers may miss their slots, confirm less than they could, or name a *)
(* count which no node of this code would (confirmed is any 16-bit number, *)
(* and may exceed the block's number); a bound on all of this together     *)
(* keeps the chains to be explored few.  The                               *)
(* variables confirmations and built are history variables: who confirmed  *)
(* which block in which header, and on what a producer has built.          *)
(***************************************************************************)
EXTENDS HeaderState

CONSTANTS FirstSchedule,   \* the schedule of the genesis state
          Schedules,       \* the schedules the system contract may propose
          Overclaims,      \* counts a header may name whatever its block's number
          MaxBlock,        \* bound: block numbers
          MaxFaults        \* bound: slots missed, confirmations held back, false claims

ASSUME ScheduleAssumption ==
    /\ {FirstSchedule} \cup Schedules \subseteq Seq(Producer) \ {<<>>}
    /\ \A s \in {FirstSchedule} \cup Schedules : IsInjective(s)
ASSUME BoundAssumption == MaxBlock \in Nat /\ MaxFaults \in Nat /\ MaxBlock < Word
ASSUME ClaimAssumption == Overclaims \subseteq Nat

VARIABLES head,         \* the header state of the newest block
          slot,         \* header.timestamp.slot of the newest block
          proposed,     \* global_property_object: [version, producers, num]
          watermark,    \* _producer_watermarks of the producers' own nodes
          faults,       \* slots missed, confirmations held back, false claims so far
          confirmations, \* history: of each block, <<by whom, in which block, confirmed>>
          built         \* history: the highest number proposed where a producer built

vars == <<head, slot, proposed, watermark, faults, confirmations, built>>

TypeOK ==
    /\ IsHeader(head) /\ slot \in Nat /\ faults \in 0 .. MaxFaults
    /\ proposed \in Proposal
    /\ IsMap(watermark)
    /\ confirmations \in [1 .. MaxBlock -> SUBSET (Producer \X Nat \X Nat)]
    /\ built \in [Producer -> Nat]

Init ==
    /\ head = Genesis(FirstSchedule) /\ slot = 0 /\ faults = 0
    /\ proposed = NoProposal /\ watermark = <<>>
    /\ confirmations = [n \in 1 .. MaxBlock |-> {}]
    /\ built = [p \in Producer |-> 0]

-----------------------------------------------------------------------------
Confirmable(p) == blocks_to_confirm(watermark, p, head.num)

\* The next block: made in slot t by the producer scheduled for it, who
\* confirms it and the c blocks before it; while the block executes the
\* schedule s (<<>>: none) is proposed.
next(t, c, s) ==
    /\ head.num < MaxBlock
    /\ t > slot
    /\ LET p == get_scheduled_producer(head.active, t)
       IN  /\ MayConfirm(head, p, c)
           /\ faults' = faults + (t - slot - 1)
                        + (IF c <= Confirmable(p) THEN Confirmable(p) - c ELSE 1)
           /\ faults' <= MaxFaults
    /\ slot' = t
    /\ LET p    == get_scheduled_producer(head.active, t)
           num  == head.num + 1
           b    == start_block(head, proposed, p, c)
       IN  /\ head' = b.header
           /\ proposed' = Propose(s, b.header, b.proposed)
           /\ watermark' = Assign(Overlay(Installed(b.header, t, Producer), watermark), p, num)
           /\ confirmations' = [n \in 1 .. MaxBlock |->
                 IF num - c <= n /\ n <= num THEN confirmations[n] \cup {<<p, num, c>>}
                                            ELSE confirmations[n]]
           /\ built' = [built EXCEPT ![p] = head.dpos]

\* The counts a header may name: the check of next decides, also on what no
\* node of this code would put in it.
Attempts == 0 .. head.num + 1 \cup Overclaims

Next ==
    \E t \in slot + 1 .. slot + 1 + MaxFaults - faults, s \in Schedules \cup {<<>>} :
        \E c \in Attempts : next(t, c, s)

Spec == Init /\ [][Next]_vars

-----------------------------------------------------------------------------
(* Properties. *)

\* A header that names more blocks than there are: the subtraction of the
\* double-confirm check wraps, and the check lets it pass.
Wraps(e) == e[3] > e[2]

\* With schedules of one size, the count kept for a block is the number of
\* confirmations it lacks: the byte counters of confirm_count, their shifts
\* and truncations never lose track of the block they belong to, whatever
\* headers claim.  And no producer is counted for a block again ("double-confirming
\* known range"), but by a header that wraps the check.
CountsMatchConfirmations ==
    /\ TypeOK
    /\ \A i \in 1 .. Len(head.counts) :
          head.counts[i] + Cardinality(confirmations[head.num - Len(head.counts) + i])
              = required_confs(head.active)
    /\ \A n \in 1 .. MaxBlock : \A e, f \in confirmations[n] :
          e[1] = f[1] /\ e[2] < f[2] => Wraps(f)

\* With schedules of one size, a block is proposed irreversible only when more than
\* two thirds of the producers of a schedule have confirmed it; a header that
\* wraps the check is worth one producer, and no more.
ProposedByTwoThirds ==
    head.dpos > 0 =>
        LET conf  == confirmations[head.dpos]
            sound == {e \in conf : ~Wraps(e)}
        IN  3 * (Cardinality({e[1] : e \in sound}) + Cardinality(conf \ sound))
                > 2 * Len(head.active.producers)

\* With schedules of one size, the irreversible block number rises only to a
\* number that was already proposed where more than two thirds of the active
\* producers built a block ("2/3 must be greater").  A producer that joined
\* the schedule is given an implied number without having built anything: it
\* never decides.
LibByBuilders ==
    [][head'.lib > head.lib =>
          3 * Cardinality({p \in ToSet(head.active.producers) : built'[p] >= head'.lib})
              > 2 * Len(head.active.producers)]_vars

\* The irreversible block number of a chain never falls, across changes of
\* schedule too.  The fork database ranks a block by this number, then by its
\* own: this is what makes a new block outrank its parent and become the head,
\* as commit_block asserts.
LibNeverFalls == [][head'.lib >= head.lib /\ head'.dpos >= head.dpos]_vars

\* The version assertion of set_new_producers holds when a proposed schedule
\* gets its turn, whatever was pending when it was proposed.
VersionsLineUp ==
    proposed # NoProposal =>
        proposed.version = (IF head.pending.producers = <<>> THEN head.active ELSE head.pending).version + 1

===============================================================================
