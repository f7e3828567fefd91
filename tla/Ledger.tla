-------------------------------- MODULE Ledger --------------------------------
(***************************************************************************)
(* What a node promises to keep on disk: a log of irreversible blocks that *)
(* only grows, and a tip above it that moves one block at a time.          *)
(*                                                                         *)
(* The tip may retract (a fork is abandoned) but never below the end of    *)
(* the log, only valid blocks are ever built upon, and a crash changes     *)
(* neither variable.  The module Controller is shown to implement this.    *)
(***************************************************************************)
EXTENDS Integers, Sequences

CONSTANTS Block,     \* block ids
          Genesis,   \* the first block
          Parent,    \* Parent[b]: the id in b's header.previous
          Bad        \* blocks that fail validation

VARIABLES log,   \* the irreversible blocks, oldest first
          tip    \* the last block whose effects are kept

vars == <<log, tip>>

\* The blocks from the genesis block to b.
Chain[b \in Block] == IF b = Genesis THEN <<b>> ELSE Append(Chain[Parent[b]], b)

Init == log = <<Genesis>> /\ tip = Genesis

\* A valid block is built on the tip.
Extend(b) ==
    /\ b \notin Bad \cup {Genesis}
    /\ Parent[b] = tip
    /\ tip' = b
    /\ UNCHANGED log

\* The tip is given up for its parent: only above the end of the log.
Retract ==
    /\ tip # log[Len(log)]
    /\ tip' = Parent[tip]
    /\ UNCHANGED log

\* The next block on the way to the tip becomes irreversible.
Finalize ==
    /\ Len(log) < Len(Chain[tip])
    /\ log' = Append(log, Chain[tip][Len(log) + 1])
    /\ UNCHANGED tip

Next == (\E b \in Block : Extend(b)) \/ Retract \/ Finalize

Spec == Init /\ [][Next]_vars

===============================================================================
