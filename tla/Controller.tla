------------------------------ MODULE Controller ------------------------------
(***************************************************************************)
(* The controller of one node and its fork database                        *)
(* (libraries/chain/controller.cpp, libraries/chain/fork_database.cpp):    *)
(* how blocks are added, forks switched, blocks made irreversible, and how *)
(* the node comes back after a shutdown or a crash.                        *)
(*                                                                         *)
(* The blocks that exist in the network form a tree given by constants;    *)
(* a block's header fixes its parent and the irreversible block number it  *)
(* implies, its content decides whether applying it succeeds.  Every write *)
(* to one of the two durable stores (the block log and the table of        *)
(* reversible blocks) is a step of its own, because the node may crash     *)
(* between any two of them; pc says where in its handlers the node is.     *)
(*                                                                         *)
(* The chain state is the sequence of blocks whose effects it holds; how   *)
(* the tables undo a block is the subject of the module UndoIndex.         *)
(***************************************************************************)
EXTENDS Integers, Sequences, FiniteSets, SequencesExt

CONSTANTS Block,      \* block ids
          Genesis,    \* the genesis block
          Parent,     \* header.previous
          Num,        \* block_num
          Lib,        \* dpos_irreversible_blocknum of the block's header state
          Bad,        \* blocks apply_block rejects
          Own,        \* blocks this node may produce itself
          MaxRestart  \* bound: crashes and clean restarts of the node

\* Every block but the genesis block has a parent, one number lower.
ASSUME TreeAssumption ==
    /\ Genesis \in Block \ Bad /\ Own \subseteq Block \ Bad
    /\ Num \in [Block -> Nat \ {0}] /\ Num[Genesis] = 1
    /\ \A b \in Block \ {Genesis} : Parent[b] \in Block /\ Num[b] = Num[Parent[b]] + 1

\* What DPOS headers provide: a block never makes itself irreversible, the
\* irreversible number never falls along a branch.
ASSUME LibAssumption ==
    /\ Lib \in [Block -> Nat]
    /\ \A b \in Block : Lib[b] < Num[b]
    /\ \A b \in Block \ {Genesis} : Lib[Parent[b]] <= Lib[b]

ASSUME MaxRestartAssumption == MaxRestart \in Nat

\* The blocks from the genesis block to b, so that Chain[b][n] has number n.
Chain[b \in Block] == IF b = Genesis THEN <<b>> ELSE Append(Chain[Parent[b]], b)

Ancestors(b) == {Chain[b][i] : i \in 1 .. Num[b]}

\* Two blocks agree up to the block of this number.
ForkPoint(x, y) ==
    CHOOSE n \in 1 .. Num[x] :
        /\ n <= Num[y] /\ Chain[x][n] = Chain[y][n]
        /\ \A m \in n + 1 .. Num[x] : m <= Num[y] => Chain[x][m] # Chain[y][m]

\* The order of fork_multi_index_type by_lib_block_num.
Better(x, y) == Lib[x] > Lib[y] \/ (Lib[x] = Lib[y] /\ Num[x] > Num[y])

\* DPOS finality is gradual: before a block makes one above its fork with
\* another branch irreversible, its branch outranks the other one.  Hence of two
\* branches at most one makes blocks above their fork irreversible.  Without it
\* fork_database::add could prune the fork point before the controller has
\* switched, and pop_block would assert.
ASSUME GradualAssumption ==
    \A x \in Block \ {Genesis}, y \in Block :
        Lib[x] > ForkPoint(x, y) => Better(Parent[x], y)

VARIABLES order,     \* fork_db.index, in order of insertion
          inChain,   \* the blocks with in_current_chain set
          fhead,     \* fork_db.head
          head,      \* controller_impl::head
          db,        \* the blocks whose effects the chain state holds
          base,      \* number of the last block that can no longer be undone
          rev,       \* rows of reversible_blocks (durable)
          blog,      \* the block log (durable)
          pc,        \* where the node is
          call,      \* the caller of fork_db.add: push, produce, replay or close
          cur,       \* the block being added
          victim,    \* the block being pruned
          oldb,      \* branches.second of maybe_switch_forks, head first
          newb,      \* branches.first, head first
          pos,       \* position of the loop over one of the branches
          failed,    \* the assertions of the code that have fired
          restarts   \* crashes and clean restarts so far

forkdb  == <<order, inChain, fhead>>
state   == <<head, db, base>>
durable == <<rev, blog>>
switch  == <<oldb, newb, pos>>
vars    == <<forkdb, state, durable, pc, call, cur, victim, switch, failed, restarts>>

Phase == {"idle", "log", "trim", "switch", "commit", "pop", "apply", "unwind",
          "reapply", "replay", "load", "check"}

TypeOK ==
    /\ order \in Seq(Block) /\ inChain \subseteq Block /\ fhead \in Block
    /\ head \in Block /\ db \in Seq(Block) /\ base \in Nat
    /\ rev \subseteq Block /\ blog \in Seq(Block)
    /\ pc \in Phase /\ call \in {"push", "produce", "replay", "close"}
    /\ cur \in Block /\ victim \in Block
    /\ oldb \in Seq(Block) /\ newb \in Seq(Block) /\ pos \in Nat
    /\ failed \subseteq {"link", "row", "sync", "pop", "commit", "startup"}
    /\ restarts \in 0 .. MaxRestart

Init ==
    /\ order = <<Genesis>> /\ inChain = {} /\ fhead = Genesis
    /\ head = Genesis /\ db = <<Genesis>> /\ base = 1
    /\ rev = {} /\ blog = <<Genesis>>
    /\ pc = "idle" /\ call = "push" /\ cur = Genesis /\ victim = Genesis
    /\ oldb = <<>> /\ newb = <<>> /\ pos = 0
    /\ failed = {} /\ restarts = 0

-----------------------------------------------------------------------------
(* The fork database. *)

Index == ToSet(order)

\* begin() of by_lib_block_num; among equals the one inserted first.
Best(o) ==
    o[CHOOSE i \in DOMAIN o : \A j \in DOMAIN o :
          ~Better(o[j], o[i]) /\ (j < i => Better(o[i], o[j]))]

\* begin() of by_block_num: the lowest number, current chain first.
Oldest(o, marked) ==
    LET lowest == {b \in ToSet(o) : \A c \in ToSet(o) : Num[b] <= Num[c]}
    IN  IF lowest \cap marked # {} THEN lowest \cap marked ELSE lowest

\* What is left of o, in its order.
Without(o, gone) ==
    LET keep[i \in 0 .. Len(o)] ==
            IF i = 0 THEN <<>>
            ELSE IF o[i] \in gone THEN keep[i - 1] ELSE Append(keep[i - 1], o[i])
    IN  keep[Len(o)]

Subtree(b) == {x \in Block : b \in Ancestors(x)}

\* Mutant: the head is not looked up again.
remove_keeps_head(b) ==
    /\ order' = Without(order, Subtree(b))
    /\ UNCHANGED <<fhead, inChain>>

\* fork_database::remove, the invalid branch of set_validity.
remove(b) ==
    /\ order' = Without(order, Subtree(b))
    /\ fhead' = Best(order')
    /\ UNCHANGED inChain

\* An assertion of the code fires and its exception leaves the handler.
Throw(a) ==
    /\ failed' = failed \cup {a}
    /\ pc' = "idle"
    /\ UNCHANGED <<durable, call, cur, victim, switch, restarts>>

\* What the callers of fork_db.add do next.
AfterAdd(caller) ==
    CASE caller = "produce" -> "commit"
      [] caller = "close"   -> "load"
      [] OTHER              -> "switch"

\* Mutant: the last irreversible block itself is pruned.
add_prunes_lib(b, caller) ==
    /\ order' = Append(order, b)
    /\ fhead' = Best(order')
    /\ call' = caller /\ cur' = b
    /\ \E o \in Oldest(order', inChain') :
          IF Num[o] <= Lib[fhead']
          THEN pc' = "log" /\ victim' = o
          ELSE pc' = AfterAdd(caller) /\ UNCHANGED victim

\* fork_database::add: insert, choose the new head, and prune the oldest
\* block when the head's irreversible number has passed it.
add(b, caller) ==
    /\ order' = Append(order, b)
    /\ fhead' = Best(order')
    /\ call' = caller /\ cur' = b
    /\ \E o \in Oldest(order', inChain') :
          IF Num[o] < Lib[fhead']
          THEN pc' = "log" /\ victim' = o
          ELSE pc' = AfterAdd(caller) /\ UNCHANGED victim

-----------------------------------------------------------------------------
(* A block arrives from a peer, or is produced here. *)

\* Mutant: only the child of the current head is accepted.
push_block_linear(b) ==
    /\ pc = "idle"
    /\ b \notin Index /\ b # Genesis /\ Parent[b] = head
    /\ UNCHANGED inChain
    /\ add(b, "push")
    /\ UNCHANGED <<state, durable, switch, failed, restarts>>

\* create_block_state_future and push_block, up to the end of fork_db.add.
push_block(b) ==
    /\ pc = "idle"
    /\ b \notin Index /\ b # Genesis /\ Parent[b] \in Index
    /\ UNCHANGED inChain
    /\ add(b, "push")
    /\ UNCHANGED <<state, durable, switch, failed, restarts>>

\* start_block .. commit_block(true): the pending block is built on head.
produce_block(b) ==
    /\ pc = "idle"
    /\ b \in Own \ Index /\ b # Genesis /\ Parent[b] = head
    /\ Len(db) = Num[head]
    /\ inChain' = inChain \cup {b}
    /\ add(b, "produce")
    /\ UNCHANGED <<state, durable, switch, failed, restarts>>

\* Mutant: a block already in the log has to link to its end as well.
LogBlock_relinks ==
    /\ pc = "log"
    /\ IF Parent[victim] # Last(blog)
       THEN Throw("link") /\ UNCHANGED <<forkdb, state>>
       ELSE /\ base' = Max({base, Min({Num[victim], Len(db)})})
            /\ blog' = Append(blog, victim)
            /\ pc' = "trim"
            /\ UNCHANGED <<forkdb, head, db, rev, call, cur, victim, switch, failed, restarts>>

\* Mutant: the log is appended to whether or not it has the block.
LogBlock_always ==
    /\ pc = "log"
    /\ base' = Max({base, Min({Num[victim], Len(db)})})
    /\ blog' = Append(blog, victim)
    /\ pc' = "trim"
    /\ UNCHANGED <<forkdb, head, db, rev, call, cur, victim, switch, failed, restarts>>

\* on_irreversible, up to the write to the block log.
LogBlock ==
    /\ pc = "log"
    /\ IF Num[victim] > Len(blog)
          /\ (Num[victim] # Len(blog) + 1 \/ Parent[victim] # Last(blog))
       THEN Throw("link") /\ UNCHANGED <<forkdb, state>>
       ELSE /\ base' = Max({base, Min({Num[victim], Len(db)})})
            /\ blog' = IF Num[victim] > Len(blog) THEN Append(blog, victim) ELSE blog
            /\ pc' = "trim"
            /\ UNCHANGED <<forkdb, head, db, rev, call, cur, victim, switch, failed, restarts>>

LowestRow == CHOOSE r \in rev : \A s \in rev : Num[r] <= Num[s]

\* Mutant: the loop runs one row too far.
Trimmable_next == rev # {} /\ Num[LowestRow] <= Num[victim] + 1

\* The loop of on_irreversible over the reversible rows has work to do.
Trimmable == rev # {} /\ Num[LowestRow] <= Num[victim]

\* Mutant: the rows are removed from the other end.
TrimRow_highest ==
    /\ pc = "trim" /\ Trimmable
    /\ rev' = rev \ {CHOOSE r \in rev : \A s \in rev : Num[s] <= Num[r]}
    /\ UNCHANGED <<forkdb, state, blog, pc, call, cur, victim, switch, failed, restarts>>

TrimRow ==
    /\ pc = "trim" /\ Trimmable
    /\ rev' = rev \ {LowestRow}
    /\ UNCHANGED <<forkdb, state, blog, pc, call, cur, victim, switch, failed, restarts>>

\* The rest of prune: the block and every other block of its number leave
\* the index (at shutdown the index has been written before).
EndPrune ==
    /\ pc = "trim" /\ ~Trimmable
    /\ IF call = "close" THEN UNCHANGED <<order, fhead>> ELSE
       LET rivals == {b \in Index \ {victim} : Num[b] = Num[victim]}
       IN  /\ order' = Without(order, {victim} \cup UNION {Subtree(b) : b \in rivals})
           /\ fhead' = IF rivals = {} THEN fhead ELSE Best(order')
    /\ pc' = AfterAdd(call)
    /\ UNCHANGED <<inChain, state, durable, call, cur, victim, switch, failed, restarts>>

-----------------------------------------------------------------------------
(* Applying and popping one block. *)

\* Irreversible blocks are replayed without undo sessions.
SkipSession(b) == call = "replay" /\ Num[b] <= Len(blog)

\* What apply_block needs to succeed: a valid block on top of head, and a
\* state at the revision of head.
Applies(b) ==
    b \notin Bad /\ Parent[b] = head /\ (SkipSession(b) \/ Len(db) = Num[head])

RowFree(b) == call = "replay" \/ \A r \in rev : Num[r] # Num[b]

\* apply_block through commit_block(false), then head is set by the caller.
apply_block(b) ==
    /\ head' = b
    /\ db' = Append(db, b)
    /\ base' = IF SkipSession(b) THEN Num[b] ELSE base
    /\ rev' = IF call = "replay" THEN rev ELSE rev \cup {b}
    /\ inChain' = inChain \cup {b}
    /\ UNCHANGED <<order, fhead, blog, call, cur, victim, failed, restarts>>

\* mark_in_current_chain(false) and pop_block both look the fork database up.
Poppable(b) == b \in Index /\ Parent[head] \in Index

\* Mutant: the state of the popped block is kept.
pop_block_keeps_state(b) ==
    /\ inChain' = inChain \ {b}
    /\ rev' = {r \in rev : Num[r] # Num[head]}
    /\ head' = Parent[head]
    /\ UNCHANGED <<db, base, order, fhead, blog, call, cur, victim, oldb, newb, failed, restarts>>

pop_block(b) ==
    /\ inChain' = inChain \ {b}
    /\ rev' = {r \in rev : Num[r] # Num[head]}
    /\ head' = Parent[head]
    /\ db' = IF Len(db) > base THEN SubSeq(db, 1, Len(db) - 1) ELSE db
    /\ UNCHANGED <<base, order, fhead, blog, call, cur, victim, oldb, newb, failed, restarts>>

-----------------------------------------------------------------------------
(* maybe_switch_forks. *)

\* Mutant: after a switch the fork database is asked for its head again.
Return_again == "switch"

\* Where a handler goes when it is done.
Return == IF call = "replay" THEN "replay" ELSE "idle"

\* The new head is the old one.
KeepHead ==
    /\ pc = "switch" /\ fhead = head
    /\ pc' = Return
    /\ UNCHANGED <<forkdb, state, durable, call, cur, victim, switch, failed, restarts>>

Extends == pc = "switch" /\ fhead # Genesis /\ Parent[fhead] = head

\* The new head extends the chain and can be applied.
ExtendHead ==
    /\ Extends /\ Applies(fhead)
    /\ IF RowFree(fhead)
       THEN apply_block(fhead) /\ pc' = Return /\ UNCHANGED switch
       ELSE Throw("row") /\ UNCHANGED <<forkdb, state>>

\* The new head extends the chain and is rejected: set_validity(false).
RejectHead ==
    /\ Extends /\ ~Applies(fhead)
    /\ remove(fhead)
    /\ pc' = "idle"
    /\ UNCHANGED <<state, durable, call, cur, victim, switch, failed, restarts>>

\* fetch_branch_from stops below the last block the two chains share, or
\* below the parent of the lower block when one chain contains the other.
Branch(x, y) ==
    LET shared == {n \in 1 .. Num[x] - 1 : n < Num[y] /\ Chain[x][n] = Chain[y][n]}
        k      == IF shared = {} THEN 0 ELSE CHOOSE n \in shared : \A m \in shared : m <= n
    IN  Reverse(SubSeq(Chain[x], k + 1, Num[x]))

BeginSwitch ==
    /\ pc = "switch" /\ fhead # head /\ ~Extends
    /\ LET first  == Branch(fhead, head)
           second == Branch(head, fhead)
       IN  IF ToSet(first) \cup ToSet(second) \subseteq Index
           THEN /\ newb' = first /\ oldb' = second /\ pos' = 1 /\ pc' = "pop"
                /\ UNCHANGED <<forkdb, state, durable, call, cur, victim, failed, restarts>>
           ELSE Throw("sync") /\ UNCHANGED <<forkdb, state>>

PopOld ==
    /\ pc = "pop"
    /\ IF ~Poppable(oldb[pos])
       THEN /\ Throw("pop")
            /\ inChain' = inChain \ {oldb[pos]}
            /\ UNCHANGED <<order, fhead, state>>
       ELSE /\ pop_block(oldb[pos])
            /\ IF pos < Len(oldb) THEN pos' = pos + 1 /\ pc' = "pop"
                                  ELSE pos' = Len(newb) /\ pc' = "apply"

\* One block of a branch done: go on with the block above it, or leave.
Advance(loop, exit) ==
    IF pos = 1
    THEN pc' = exit /\ pos' = 0 /\ newb' = <<>> /\ oldb' = <<>>
    ELSE pc' = loop /\ pos' = pos - 1 /\ UNCHANGED <<newb, oldb>>

\* The new branch is applied from its lowest block upwards.
ApplyNew ==
    /\ pc = "apply" /\ Applies(newb[pos])
    /\ IF RowFree(newb[pos])
       THEN apply_block(newb[pos]) /\ Advance("apply", Return)
       ELSE Throw("row") /\ UNCHANGED <<forkdb, state>>

\* A block of the new branch is rejected; the blocks applied before it are
\* newb[pos+1] .. newb[Len(newb)].
RejectNew ==
    /\ pc = "apply"
    /\ ~Applies(newb[pos])
    /\ remove(newb[pos])
    /\ IF pos < Len(newb) THEN pos' = pos + 1 /\ pc' = "unwind"
                          ELSE pos' = Len(oldb) /\ pc' = "reapply"
    /\ UNCHANGED <<state, durable, call, cur, victim, oldb, newb, failed, restarts>>

UnwindNew ==
    /\ pc = "unwind"
    /\ IF ~Poppable(newb[pos])
       THEN /\ Throw("pop")
            /\ inChain' = inChain \ {newb[pos]}
            /\ UNCHANGED <<order, fhead, state>>
       ELSE /\ pop_block(newb[pos])
            /\ IF pos < Len(newb) THEN pos' = pos + 1 /\ pc' = "unwind"
                                  ELSE pos' = Len(oldb) /\ pc' = "reapply"

\* Mutant: the reversal restores the state but not the marks.
ReapplyOld_unmarked ==
    /\ pc = "reapply"
    /\ head' = oldb[pos]
    /\ db' = Append(db, oldb[pos])
    /\ rev' = rev \cup {oldb[pos]}
    /\ Advance("reapply", "idle")
    /\ UNCHANGED <<inChain, order, fhead, base, blog, call, cur, victim, failed, restarts>>

\* The old branch comes back and the exception is thrown again.
ReapplyOld ==
    /\ pc = "reapply"
    /\ IF Applies(oldb[pos]) /\ RowFree(oldb[pos])
       THEN apply_block(oldb[pos]) /\ Advance("reapply", "idle")
       ELSE Throw("row") /\ UNCHANGED <<forkdb, state>>

\* commit_block(true) after fork_db.add: head moves before the assertion.
CommitProduced ==
    /\ pc = "commit"
    /\ head' = fhead
    /\ IF fhead # cur
       THEN Throw("commit") /\ UNCHANGED <<forkdb, db, base>>
       ELSE IF \A r \in rev : Num[r] # Num[cur]
       THEN /\ db' = Append(db, cur)
            /\ rev' = rev \cup {cur}
            /\ pc' = "idle"
            /\ UNCHANGED <<forkdb, base, blog, call, cur, victim, switch, failed, restarts>>
       ELSE Throw("row") /\ UNCHANGED <<forkdb, db, base>>

-----------------------------------------------------------------------------
(* Shutdown, crash and start. *)

\* fork_database::close writes the index as it is, then prunes the oldest
\* block if it is irreversible.
close ==
    /\ pc = "idle" /\ restarts < MaxRestart
    /\ restarts' = restarts + 1
    /\ call' = "close"
    /\ \E o \in Oldest(order, inChain) :
          /\ victim' = o
          /\ pc' = IF Num[o] <= Lib[fhead] THEN "log" ELSE "load"
    /\ UNCHANGED <<forkdb, state, durable, cur, switch, failed>>

\* The orders in which the hashed index may give the blocks: only the order
\* among blocks of one number matters.
ReadBack(S) ==
    FoldLeft(LAMBDA orders, n :
                 {s \o t : s \in orders, t \in SetToSeqs({b \in S : Num[b] = n})},
             {<<>>}, SetToSortSeq({Num[b] : b \in S}, <))

\* Mutant: the head is the highest block read, as set leaves it.
load_highest ==
    /\ pc = "load"
    /\ order' \in ReadBack(Index)
    /\ fhead' = CHOOSE b \in Index : \A c \in Index : Num[c] <= Num[b]
    /\ head' = fhead'
    /\ pc' = "check"
    /\ UNCHANGED <<inChain, db, base, durable, call, cur, victim, switch, failed, restarts>>

\* The fork database is read back in the order of the hashed index; the
\* controller takes its head from it.
load ==
    /\ pc = "load"
    /\ order' \in ReadBack(Index)
    /\ head' = fhead
    /\ pc' = "check"
    /\ UNCHANGED <<inChain, fhead, db, base, durable, call, cur, victim, switch, failed, restarts>>

\* The node dies.  The state is dirty, so it is deleted and rebuilt from the
\* block log and the reversible rows, starting with the genesis state.
Crash ==
    /\ restarts < MaxRestart
    /\ restarts' = restarts + 1
    /\ order' = <<Genesis>> /\ inChain' = {} /\ fhead' = Genesis
    /\ head' = Genesis /\ db' = <<Genesis>> /\ base' = 1
    /\ pc' = IF Len(blog) > 1 THEN "replay" ELSE "check"
    /\ call' = "replay" /\ cur' = Genesis /\ victim' = Genesis
    /\ oldb' = <<>> /\ newb' = <<>> /\ pos' = 0
    /\ UNCHANGED <<durable, failed>>

RowAbove == {r \in rev : Num[r] = Num[head] + 1}

\* The next block to replay: from the log, then from the reversible rows.
Replayable ==
    IF Num[head] < Len(blog) THEN {blog[Num[head] + 1]} ELSE RowAbove

replay_push_block ==
    /\ pc = "replay"
    /\ \E b \in Replayable :
          /\ b \notin Index /\ Parent[b] \in Index
          /\ UNCHANGED inChain
          /\ add(b, "replay")
    /\ UNCHANGED <<state, durable, switch, failed, restarts>>

EndReplay ==
    /\ pc = "replay" /\ Replayable = {}
    /\ pc' = "check"
    /\ UNCHANGED <<forkdb, state, durable, call, cur, victim, switch, failed, restarts>>

\* The assertions at the end of init.
StartupOK ==
    /\ IF rev # {}
       THEN \E r \in rev : Num[r] = Num[head] /\ \A s \in rev : Num[s] <= Num[r]
       ELSE Len(blog) = Num[head]
    /\ Len(db) >= Num[head]

check ==
    /\ pc = "check"
    /\ IF StartupOK
       THEN /\ db' = SubSeq(db, 1, IF Num[head] > base THEN Num[head] ELSE base)
            /\ pc' = "idle" /\ call' = "push"
            /\ UNCHANGED <<forkdb, head, base, durable, cur, victim, switch, failed, restarts>>
       ELSE Throw("startup") /\ UNCHANGED <<forkdb, state>>

-----------------------------------------------------------------------------
Step ==
    \/ LogBlock \/ TrimRow \/ EndPrune
    \/ KeepHead \/ ExtendHead \/ RejectHead \/ BeginSwitch
    \/ PopOld \/ ApplyNew \/ RejectNew \/ UnwindNew \/ ReapplyOld
    \/ CommitProduced
    \/ load \/ replay_push_block \/ EndReplay \/ check

Input == \E b \in Block : push_block(b) \/ produce_block(b)

\* A running node that may crash once the log holds more than the genesis block
\* (before that init does not replay and its checks fail).
Next == Input \/ Step \/ (Len(blog) > 1 /\ Crash)

Spec == Init /\ [][Next]_vars

\* Crashes may fall anywhere but between the steps of a switch: after one there
\* the blocks on disk need not outrank those that fork off below the log.
SteadyCrash ==
    Len(blog) > 1 /\ pc \notin {"pop", "apply", "unwind", "reapply"} /\ Crash

SteadySpec == Init /\ [][Input \/ Step \/ SteadyCrash]_vars

\* A node that may be shut down and started again as well.
RestartSpec == Init /\ [][Next \/ close]_vars

\* Handlers run to completion on the one application thread, and peers offer
\* their blocks again until the node has them.
Fairness == WF_vars(Step) /\ \A b \in Block : SF_vars(push_block(b))

FairSpec == RestartSpec /\ Fairness

-----------------------------------------------------------------------------
(* Properties. *)

\* The chain state holds exactly the effects of the chain that ends in head,
\* at every step of a switch, a reversal and a replay (start_block compares
\* only the revision number), and nothing is committed that is not logged.
StateSynced == TypeOK /\ db = Chain[head] /\ base <= Len(blog)

\* The block a replay of the durable stores ends at.
Tip ==
    LET above == {r \in rev : Num[r] > Len(blog)}
    IN  IF above = {} THEN Last(blog)
        ELSE CHOOSE r \in above : \A s \in above : Num[s] <= Num[r]

\* The block log and the rows above it are one chain of valid blocks without
\* gap or rival, whatever step the node is interrupted at, and between two
\* handlers a replay would lead back to the current head.
Replays ==
    /\ IsPrefix(blog, Chain[Tip])
    /\ {r \in rev : Num[r] > Len(blog)} = Ancestors(Tip) \ ToSet(blog)
    /\ Ancestors(Tip) \cap Bad = {}
    /\ pc = "idle" => Tip = head

\* No assertion of the controller fires: a block popped has its parent in
\* the fork database, a produced block becomes the head, an irreversible
\* block links to the log, a row number is free, the start-up checks pass.
AssertionsHold == failed = {}

\* Between two handlers the node is on the best block it knows.
OnBestFork == pc = "idle" => head = fhead /\ \A b \in Index : ~Better(b, head)

\* Between two handlers the blocks marked in_current_chain are those of the
\* chain of head: get_block_in_current_chain_by_num answers for head's chain.
MarksFollowHead ==
    pc = "idle" => inChain \cap Index = (Ancestors(head) \ {Genesis}) \cap Index

\* Read as a ledger on disk, the node extends, retracts and finalizes one
\* block at a time; crash and replay leave the ledger alone.
LedgerOnDisk == INSTANCE Ledger WITH log <- blog, tip <- Tip

ImplementsLedger == LedgerOnDisk!Spec

\* The best block whose chain has no bad block.
BestValid ==
    LET valid == {b \in Block : Ancestors(b) \cap Bad = {}}
    IN  CHOOSE b \in valid : \A c \in valid : ~Better(c, b)

\* Every switch, reversal, replay and start comes to an end.
HandlersEnd == pc # "idle" ~> pc = "idle"

\* However blocks arrive, bad ones included, and wherever it crashes, the
\* node keeps coming back to the best valid block.
Converges == []<>(pc = "idle" /\ head = BestValid)

===============================================================================
