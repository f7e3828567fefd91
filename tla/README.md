# A verification project for the bacc chain node and its system contracts

The repository is a fork of EOSIO and EOSForce: a node (`nodeos`) that keeps the
chain state in memory-mapped tables, produces and validates blocks under
delegated proof of stake (DPOS) and runs WASM contracts, together with the
chain's own system contracts (`noc.system`, `noc.token`, `noc.msig`).  This
directory holds TLA+ models of its core, the TLC runs that check them on small
instances, and proofs checked by TLAPS.

## 1. Inventory

How the parts interact: the net plugin fetches blocks from peers and hands them
to the controller; the controller asks the block header state for the header
state that follows the block's parent, puts it into the fork database, and, if
that makes another block the best one, applies blocks to or pops them from the
chain state, which is a set of chainbase tables with one undo session per block.
Blocks the header state makes irreversible leave the fork database for the block
log, and their undo sessions are committed.  The producer plugin makes blocks with
the same controller and remembers which numbers it has signed.  Inside a block,
transactions run contracts once the authority checker has found that they may;
`onblock` of the system contract, first in every block, pays rewards and proposes
the next schedule, which comes back to the header state.  The token contract reads
the system contract's tables to know which tokens are locked, and the
multisignature contract calls the authority checker and sends deferred
transactions.  Everything that changes chain state, and every handler of the net
plugin, runs on one application thread; the hard behaviour comes from forks,
invalid blocks in the middle of a branch, crashes between two durable writes,
restarts, schedules that change while confirmations are under way, peers that fall
silent or answer late, authorities that change between approval and use, and long
sequences of contract actions on shared tables.

| Part | State | Operations | What makes it correct | Status |
|---|---|---|---|---|
| chainbase table (`libraries/chainbase`) | rows, next id, undo stack, revision | emplace, modify, remove, start session, undo, squash, commit, undo_all, set_revision | undo and squash are exact; undo never fails halfway; revisions name versions | modelled and proved |
| fork database (`fork_database.cpp`) | index of block states, head, marks | add, remove, set_validity, mark, prune, fetch_branch_from, close, load | head is the best block; what is needed for a switch is still there | modelled, without BFT confirmations |
| controller, blocks (`controller.cpp`) | head, chain state, reversible rows, block log | push_block, produce, maybe_switch_forks, apply, pop, on_irreversible, init, replay | state and head agree at every step; what is on disk can be replayed; the best valid block is reached | modelled |
| block header state (`block_header_state.cpp`) | schedules, confirmation counts, last produced, implied irreversible numbers | generate_next, next, set_confirmed, maybe_promote_pending, set_new_producers | irreversibility rests on more than two thirds of the producers, is never taken back and differs on no two forks | modelled, without signatures |
| producer plugin | pending block mode, watermarks, blacklist, unapplied transactions | start_block, produce, on_block, on_incoming_block, on_incoming_transaction | never confirms a block twice; what it accepted is kept but for what a lost block of a peer took; its blocks are valid for others | modelled, without the timers of the loop |
| net plugin (`net_plugin.cpp`) | connections, their handshakes, write queues and timers; the sync manager's state, source and numbers | connect, close, handlers of handshake, notice, request, sync request and block; timers, monitor | no block is skipped; somebody is asked as long as something lacks; every node catches up | modelled, without transactions and go_away |
| authorization manager and authority checker | permissions | check_authorization, satisfied, updateauth | accepts exactly those who can show the weight | modelled, one permission for each account |
| multisignature contract | proposals, approvals, deferred transactions | propose, approve, unapprove, cancel, exec | sends only what stands approved, once; what waits is not replaced | modelled |
| transactions in a block (`controller.cpp`, `transaction_context.cpp`, `apply_context.cpp`) | pending state, deferred transactions, known inputs, usage | push_transaction, push_scheduled_transaction, on-error, apply_block, abort_block | executed once, failures leave no trace, validators agree with the producer | modelled, without fees |
| system contract, stake | freezed, votes, voterinfo, bps | freeze, unfreeze, vote, votestatic, quitsvote, claim, votebyreward, bppawn, bpredeem, bpclaim, removebp, onblock | sums agree, locked tokens are owned, rewards are funded | modelled |
| token contract | accounts, stat | create, issue, transfer, fee | locked tokens are not spent | transfer and fee modelled |
| native contract | accounts, permissions, code | newaccount, setcode, updateauth, deleteauth, linkauth | | updateauth modelled |
| system contract, election | schedules table | update_elected_bps | the schedule is the top producers | not modelled |
| resource limits, block log, fees | see `PROJECT.json` | | | in part |
| bnet plugin, WASM, ABI, wallets, history, database and API plugins, programs | | | | not modelled: see section 7 |

The hazards, each at the line where it bites and with the properties that would
catch it, are the list `hazards` of `PROJECT.json`.

## 2. Modules

| Module | Models |
|---|---|
| `UndoIndex` | one `generic_index` of chainbase with its undo stack |
| `VersionedTable` | what such a table promises: a stack of full versions |
| `UndoIndexProofs` | the theorems about the two |
| `Controller` | controller and fork database of one node |
| `Ledger` | what the node promises to keep on disk |
| `ControllerProofs` | lemmas about block trees and the theorems about the two |
| `HeaderState` | the functions that give a block's header state, and the number of blocks a producer confirms |
| `DposHeader` | header states along one chain of blocks (extends `HeaderState`) |
| `Finality` | producers and their watermarks on forks (extends `HeaderState`) |
| `DposProofs` | the theorems about the two |
| `SyncManager` | the net plugins of several nodes |
| `SyncManagerProofs` | the theorem about them |
| `Authority` | authorities, the authority checker and what it should decide |
| `Msig` | the multisignature contract, updateauth and deferred transactions (extends `Authority`) |
| `MsigProofs` | the theorems about the two |
| `NocStake` | freezing, voting, rewards and pawns, with the token balances |
| `NocStakeProofs` | the theorems about it |
| `Transactions` | transactions in the blocks of one node: pending block, deferred transactions, producer plugin |
| `TransactionsProofs` | the theorems about it |
| `Induction` | induction over sets of numbers and over finite sets, sums, and the elements of a set in order, for the proofs |
| `MC...` | instances for TLC |

Definitions keep the names of the source.  Operators whose comment begins with
"Mutant" are deliberately wrong variants: each shows that some property notices
the bug it contains.  Each module has a `TypeOK` (`ForksTypeOK` in `Finality`); it is a conjunct of one of the
invariants of the module's run.

### UndoIndex and VersionedTable

A table is a function from ids to rows; a row is a unique key and the rest of its
fields.  An undo state has the fields of the code.  `emplace`, `modify`, `remove`
call `on_create`, `on_modify`, `on_remove` on the top undo state; `Merge` is the
table of compositions in `squash`.  An emplace with a taken key throws and
changes nothing; a modify that makes a key collide makes the container erase the
row.  `undo` works in the code's order, so the module can say when it would meet a
collision halfway (`RestoreCollides`).  `Spec` is the table as the chain uses it:
no modifier assigns a unique key.
`saved` is a history variable holding the full table at the start of each
session; `VersionedTable`, over `rows`, `next_id`, `revision` and `saved`, is the
abstract specification, in which undo simply returns to the last version.

### Controller and Ledger

The blocks of the network are a constant tree with a number, an irreversible
number and a validity for each; every order of arrival is explored.  `pc` names
the place in the handler, and every durable write is a step of its own, so that
`Crash` can fall between any two.  `db` is the sequence of blocks whose effects
the state holds and `base` the part that is committed; that one undo removes
exactly one block's effects is what `UndoIndex` establishes.  Assertions that
fire are collected in `failed`.

`RestartSpec` adds clean shutdowns (`close`) to `Spec`.  The next start reads the
fork database file back: `ReadBack` gives the orders in which its blocks may be
inserted then, parents before children.

The constants satisfy what DPOS headers provide.  Irreversible numbers do not fall
along a branch (`LibAssumption`; `LibNeverFalls` of `DposHeader` is about it).
Finality is gradual (`GradualAssumption`; it excludes the case in which the fork database prunes the fork point of a switch to come, so `AssertionsHold` says nothing of that one): before a block makes one above its fork
with another branch irreversible, its parent already outranks that branch.
Irreversible numbers rise a producer's turn at a time and lag two rounds behind the
head, so a branch outranks the other one long before they pass the fork; it follows that
two branches never both make blocks above their fork irreversible, which is what
`Finality` is about.  Section 5 says what happens without it.  Crashes begin once
the log holds more than the genesis block, for the reason given there too.
`SteadySpec`, which the theorems are about, has no crash between the steps of a
switch (section 5 again); `Spec` and the runs have crashes everywhere.

`Ledger` says what the disk promises: a log that only grows and a tip above it
that moves one valid block at a time, untouched by a crash.

### HeaderState, DposHeader and Finality

`HeaderState` has no variables.  `start_block` combines `generate_next`, the
promotion of the pending schedule, `set_confirmed` and the controller's promotion
of a proposed schedule; `Propose` is a proposal by the system contract while the
block runs; `blocks_to_confirm` follows the watermarks of the producer plugin.

`DposHeader` is one chain: one step is one block.  Producers miss slots and
confirm less than they could; every count a header may claim up to one more than its
number is tried too (`Attempts`), and so are counts beyond it (`Overclaims`); the check of
`next` (`MayConfirm`), in unsigned arithmetic, decides.  `confirmations` (who has
confirmed a block, in which header and with which claim) and `built` (the proposed
number on which a producer built last) are history variables.

`Finality` is a tree of blocks.  Each producer has a node with a head, a
watermark, the last block it has signed and the time it started.  `Produce(p, j)`
is what happens between two of its slots: the blocks of a better chain that ends in
`j` have reached the node (or none has), they are applied with the confirmations
and watermarks of `on_block`, and `p` makes a block on `j` if the schedule there
names it and `start_block` lets it.  The network may deliver as late as it likes, any
number of slots is missed, and a `Restart` loses what is kept in memory only.  A
node may switch to every better chain, also to one its fork database would have
pruned, so there are more behaviours than the code's, never fewer.  Forks begin at
the end of a chain without forks (`Starts`), so that the confirmations of a
steady network are there to be contradicted.

### SyncManager

All nodes run the same code.  A node has a head, the variables of `sync_manager`
and a connection for each peer; the operators take a node's state and return it
after the call, in the order of the calls in the code, and one action is one
handler of the event loop: a message read (`Receive`), a write completed
(`WriteNext`), a timer (`Timeout`, `LateAnswer`), an end of file or an error
(`ReadEof`, `ConnectionLost`), the monitor (`Connect`, `EraseConnection`), a block
produced here (`AcceptProduced`).  A socket is a sequence of messages, in order
and without loss until it closes.  While the blocks of a request are written, other messages
wait behind them (`waiting`), as in `enqueue_sync_block` and `do_queue_write`.  A block
that is asked for and not there is skipped, and if nothing else waits the writing
stops (`idle`): the next message, or the `time_message` of the ticker, makes it go on.

Abstractions.  There is one chain, so a block is its number, a block that
does not follow the head is unlinkable, and the last irreversible block is `Lag`
behind the head; forks are the business of `Controller`.  The response timer
expires when nothing more is on its way; that it expires although an answer is, is
a fault (`LateAnswer`), and counted as one.  A connection that was accepted and is
closed is replaced when the peer dials again, which it does once both ends are
closed.  Messages outside a running request go to the socket at once.  A timer
handler that is queued when its timer is cancelled is not modelled, nor are the
messages `go_away`, `time` and those about transactions.

### Authority and Msig

`Authority` is the checker: `satisfied` is the recursion through the factors of
an authority in the order of `meta_permission_comparator`, with the cache, the
depth limit, the threshold at which it stops and the keys it marks as used;
`check_authorization` runs it for every declared account.  `Granted` is what it
should decide: the least set of accounts that can show the weight, whatever the
order.  `Msig` lets accounts change their authorities, propose, approve, withdraw, cancel
and execute; `consent` is a history variable, who stands by a proposal at this
moment.  Requested and provided approvals are lists in the code and counts per
account here (`Levels`): an account that is named twice may approve twice, and `unapprove`
takes back one of the two.  The check of `exec` reads the list as a set (`Named`).

Abstractions.  An account has one permission, so the tree of permissions, `linkauth`
and `deleteauth` are left out.  A proposed transaction is an `updateauth`: what it
does matters to the other proposals.  A delay at or above the configured maximum
is a delay like others.  `require_auth` of a contract holds when some set of keys
passes the check.  The contract is privileged, so the deferred transaction is not
checked again when it runs.

### NocStake

One action of the module is one action of a contract; an assertion that fails
reverts everything, so assertions are guards.  `onblock` is modelled with the
rewards of one halving cycle; when the code would convert a quotient by zero, or
issue nothing, the action fails and the block goes on without it.  `unfreeze`,
`votebyreward`, `quitsvote` and `vote` break the accounting as section 5 describes.  Four history
variables measure by how much: `ended`, the static votes that ended; `reinvested`,
the rewards voted with; `repaid`, what `unfreeze` has paid; `excess`, the age that
`vote` settled for the voter and not for the producer.  The properties are
about every action and say that the sums agree with these differences and no others.

A row of votes (`VoteInfo`) is changed by one operator per operation: `Voted`,
`append_static_vote`, `Quitted`, `Restart`, `Reinvested`.  Units follow the code:
rows hold votes and power in units (`Unit`, 10000 to the token), producers hold
power in tokens, ages are tokens times blocks, and every division of the code is
there.  `AmountAssumption` says what the code fixes (positive unit, positive pawns in
the tables of `vote` and `votestatic`) and `AccountAssumption` that the contract's
accounts are different from each other where it matters and from voters and
producers.

### Transactions

One node that produces in turn with its peers.  Its chain is a sequence of blocks
with the state after each; the pending block has a mode, a copy of the state, the
receipts so far and the place in the two loops of `start_block`.  Unlike
`Controller`, which treats a block as valid or not, this module looks inside.

A `transaction_context` is a record, and the operators on it are functions of the
state, so the same `push_transaction` and `push_scheduled_transaction` serve the
producer and whoever validates: the first chooses the time a run takes and what
cuts it short (`Cuts`: the billing timer once it has passed, the deadline of the
caller at any time), the second takes the CPU time from the receipt and runs no
timer.  `ApplyReceipts` is `apply_block`, a recursion over the receipts.  A failure restores the state
before it, as the undo sessions of the code do (`UndoIndex`); what does not fail is
squashed.

`Data` says what each transaction does: its cost, whether its code throws, what it
sends or cancels, whether its sender's error handler succeeds.  Peers' blocks hold
at most one receipt, at any CPU time of `PeerCpu`; a receipt the node refuses gives
a rejected block.  Peers run this code too, so none of their blocks replaces a
deferred transaction: their inputs do not, and what they record of a row is what a
node that makes a block gets for it (`PeerContext`).  `switch_forks` replaces the head by two blocks of a peer.
A block has the inputs its `block_state` holds (`trxs`), which are those of the node's own blocks
only, and, as history, those that ran in it (`inputs`).  `owed`, `sent` and
`cancelled` are history, too.

The build is the default of `build.sh` (`RESOURCE_MODEL_DELEGATE`), without the fee
actions; the read mode is `SPECULATIVE`, the default.  Usage of accounts grows
and does not decay, so an allowance is what an account may use in all blocks of an
instance; net usage, the lists of accounts, maintenance mode and `onblock` are left
out.

## 3. Runs

| Run | Instance | Shows |
|---|---|---|
| `undo_index` | 3 ids, 2 keys, 2 data, 3 nested sessions | undo states are exact differences, undo is total, refinement of `VersionedTable` |
| `controller_fork` | 15 blocks, 3 branches, 2 bad blocks, 2 produced here, 2 crashes | state, marks, disk, assertions; refinement of `Ledger` |
| `controller_live` | 11 blocks without ties, a bad block with a successor, 2 crashes or clean restarts | the same across shutdown and start; handlers end; the node keeps returning to the best valid block |
| `dpos_header` | 4 producers, schedules that replace one, 17 blocks, window of 5, 2 faults, one of which may be a claim of 20 blocks | counts, two thirds, who decides irreversibility, versions of schedules |
| `dpos_shrink` | 4 producers, then 3 | finding: the irreversible number falls |
| `finality` | forks of 4 blocks after three chains: 4 producers, one about to be replaced, 2 about to be 3; 1 restart | nobody confirms a number twice unless installed once more; no two forks propose different blocks of a number |
| `noc_stake` | 2 voters, 2 producers, 7 actions, symmetric | powers, ages, locks, `voteall` and funding, with what each is off by |
| `transactions` | 3 inputs (one delayed), 2 deferred, 3 block times | validators agree, nothing runs twice, inputs are kept, RAM matches |
| `transactions_fail` | the same, with a handler that fails | finding: a validator rejects the producer's block |
| `sync_notice` | node 1 at block 2 dials nodes at blocks 3 and 5; the third makes a sixth; chunks of 2; 1 fault | finding: a node waits for blocks it has not asked for |
| `sync_live` | node 1 at block 2 dials two nodes at block 5 and may make a sixth itself; chunks of 2; 1 fault | no block is skipped; after any fault every irreversible block arrives; without one every block does |
| `msig` | 3 accounts, one of which may be asked twice, 2 keys, depth 2, 3 proposals or updates, 3 times | the checker against its reference; what is sent is consented to, once, and waits until due |

## 4. Bounds and fairness

Why the bounds are enough.  Three nested sessions are the depth at which a squash
lands on a state that was itself squashed, and three ids let a row be new,
updated and removed in each.  The controller trees hold every pattern of the
fork logic: a longer and a better branch, ties, a bad block at the end and in the
middle of a branch, a branch off a branch, and enough irreversible blocks for a
log of seven.  Seventeen blocks of four producers are four rounds: confirm,
propose, make irreversible, with counts dropped from a window of five (the code's
is 1024; `Word` stands for 2^32, and only a claim of more blocks than there are makes
the check wrap), and a schedule that is proposed early becomes active, with
blocks counted under both.  Four blocks after a fork are enough for two branches
of two, for a producer to make a block on each, and for a schedule to become
active on one of them only.

Seven contract actions over five blocks are enough to freeze, pawn, vote, earn, change,
claim and withdraw.  Amounts are whole tokens and locks last a block; `Amounts`,
`MaxBlock`, `MaxStatic` and `MaxActions` are bounds of the instances only.

Three block times are enough to send, run and retire a deferred transaction that
sends another, to lose the block and to see an input expire; the costs and limits
are small numbers on both sides of every comparison (`MaxTrxCpu`, `MaxBlockCpu`,
`max_cpu`, allowance, leeway): every way to run out of CPU time occurs, for inputs
and for deferred transactions.  `MaxSlot` and `PeerCpu` are the bounds.

Three blocks behind, with chunks of two, node 1 asks for two chunks and then for a
branch; with two peers a fetch can be given from one to the other, and back.
`MaxHead` and `MaxFaults` are the bounds.  Three accounts and three changes make
chains longer than the depth of two, circles of two and three accounts, and a
proposal whose name is used again while its transaction waits; `MaxTime` and
`MaxChanges` are the bounds.

Deadlock is not checked where the model may rest: a node that knows all blocks,
a chain or a contract at its bound, a network in which everything has arrived.

Fairness is used in two runs.  In `controller_live` handlers run to completion on
the one application thread (`WF` of a step), and peers offer a block again until
the node has it (`SF` of `push_block`), as the net plugin does after each
handshake.  In `sync_live` the event loops serve reads, completed writes, timers
and the monitor: `WF` of the disjunction of all of them, the least one can ask, for
it does not even say which node runs.  The monitor's removal of closed
connections, faults and new blocks need not happen.  Crashes and faults are
limited by their bounds and need no fairness.

## 5. Findings

With a run each (`PROJECT.json` quotes the lines):

- a shrinking schedule lets the irreversible number fall, and the block in which
  it falls does not become the head (`dpos_shrink`);
- a deferred transaction that runs out of CPU time, and whose error handler then
  fails, is recorded as a hard failure with the limit as its CPU time; the other
  nodes, at exactly the limit, see it succeed and reject the block
  (`transactions_fail`);
- a `last_irr_catch_up` notice that reaches a node in `head_catchup` starts a fetch
  (`net_plugin.cpp:1472` changes the state only from `in_sync`); the next block of the
  branch ends `head_catchup` and forgets the source but not
  `sync_last_requested_num`, so that a later fetch up to the same number asks for
  nothing (`net_plugin.cpp:1436`) and the node waits in `lib_catchup` without a
  request or a timer, until some other message wakes it.  `protocol.hpp:217` wants "a constant queue of
  requests in flight" (`sync_notice`).  The nodes of `sync_live` are behind all
  their peers, where this does not occur.

Met while modelling, and the reason for the restriction of a specification, an
instance or a property rather than a run:

- Ties and restarts.  The fork database file keeps blocks in the order of their hashes, so that
  after a clean restart another one of two blocks that rank the same may become the
  head while the state is on the first (`controller.cpp:2049`); the checks of
  `init` and `startup` (`controller.cpp:404`, `414`) compare numbers only.  The
  tree of `controller_live` has no ties.
- Crashes begin once the log holds more than the genesis block: before that `init`
  (`controller.cpp:393`) does not replay, and its check at `controller.cpp:404`
  finds the reversible rows above the head and refuses to start.
- The trees have gradual finality: otherwise `fork_db.add` prunes the fork point
  (`fork_database.cpp:145`) before the switch, and `pop_block` throws "attempt to
  pop beyond last irreversible block" (`controller.cpp:176`).
- A crash in the middle of a switch.  `maybe_switch_forks` has popped blocks of the
  old branch and the log holds them, or soon will: after the replay the node is on
  a lower block than before, and a branch that forks off below the end of the log
  may outrank it.  The switch to that branch pops a block that is in the log, whose
  effects cannot be undone any more, and the state is a block ahead of the head.  It
  takes three branches, a crash in the switch to the best and the third
  arriving before the others come again; the trees of the runs do not have it (crashes may
  fall anywhere there), the theorems exclude the crash (`SteadyCrash`).
- Watermarks are in memory only.  `producer_plugin.cpp:1086` says "to make sure we
  don't double sign after a crash"; a producer that restarts confirms nothing before
  its next block, but may sign a block of a number it has signed before on another
  fork.  `ConfirmsOnce` is therefore about nodes that keep running; `ProposedOnce`
  holds with the restart.  The number of blocks to confirm is truncated to 16 bits
  there: after a very long absence a producer confirms fewer, which is harmless.
- A watermark can fall.  `on_block` (`producer_plugin.cpp:241`) sets the watermark of a
  producer that the next block installs to the number of the block, also when the
  producer works already and its watermark is higher.  On the chain `Replace` with one
  block more (four producers, the next block puts p5 in the place of p4), p1 makes block 20 and p5
  the blocks 21 and 22 of a branch that no other node has seen; p2 and p3 make other
  blocks 20 and 21, after which the schedule names p5 again: its node switches, its
  watermark falls from 22 to 21, and after p4's last block 22 p5's block 23 confirms 22
  and 23, so that p5 has confirmed two blocks numbered 22.  `ConfirmsOnce` states the exception
  (`Reinstalled`): it takes a schedule that changes while a branch is hidden.
- Newest blocks.  `ReachesHead` is checked with no blocks produced meanwhile but those of the node
  that catches up.  With one of a peer (`MaxHead` 6, no fault) a node may stay a block behind until the
  next block or handshake: `verify_catchup` answers "none" when some connection has announced
  that head (`net_plugin.cpp:1568`), but the announced head outlives the connection
  (`close` does not clear it), and `recv_block` (`net_plugin.cpp:1645`) clears that
  of the block's sender instead of that of the connection it looks at.
- A late `last_irr_catch_up` notice after `sync_last_requested_num` was reset
  (`net_plugin.cpp:1364`) puts a node that lacks nothing into `lib_catchup`, where
  it waits for nobody; `WaitsForSomeone` is about nodes that lack blocks.
- The authority checker is incomplete where authorities refer to each other in a
  circle, or deeper than the limit: "not satisfied", found for an account while
  another was being evaluated, stays in the cache and is used again
  (`authority_checker.hpp:237`).  `CheckerComplete` is about the other tables.  Keys
  used for an account that is satisfied are taken back when the account above it is
  not (`authority_checker.hpp:183`), and not marked again when the cache answers, so
  that a transaction may be refused for a signature it needs.
- A header that wraps the check.  `block_header_state.cpp:156` compares in unsigned arithmetic: a
  header that claims more blocks than its number passes "producer ${prod}
  double-confirming known range", and `set_confirmed` counts its producer again for every
  block in the window.  `CountsMatchConfirmations` and `ProposedByTwoThirds` say
  how far this goes: each such header counts once.  The plain reading, more than two
  thirds of different producers, is false: with four producers, one of
  which confirms nothing, the second one's block 6 that claims 20 makes block
  2 proposed with the confirmations of two producers.  The property
  with `Cardinality({e[1] : e \in conf})` alone, under `MCDposHeader.cfg`, gives that
  trace of six states; with `Overclaims = {}` it holds.
- Ages.  `doc/system_vote.md:115` and `126` give a vote's age as its votepower times
  blocks.  Changing a vote (`contracts/noc.system/voting.cpp:77`) settles the
  voter's age with `vote.amount / 10000`, ten times the votepower the producer's total and
  `claim` use, so the shares of a pool add up to more than the pool, and the claim
  of a voter whose share alone is more fails.  `AgesAccounted` adds the
  difference (`excess`); without it TLC refutes the equality in seconds.
- Inputs of peers' blocks.  `block_state.hpp:25` says that `trxs` "facilitates recapturing transactions when
  we pop a block".  `push_transaction` (`controller.cpp:1350`) fills it in the pending block_state,
  which `commit_block(false)` discards for a received block; the head is the fork database's block_state
  (`controller.cpp:1648`, `1669`), whose `trxs` is empty, and `pop_block`
  (`controller.cpp:185`) recovers nothing.  An input this node had accepted is taken from the unapplied ones
  when the peer's block is applied, and is gone when that block is lost
  (`LostWithHead`).  `AcceptedKept` has this exception; with `owed' = owed
  \cup acc.trxs` in `apply_branch` TLC shows the loss.
- Approvals asked for twice.  `propose` (`noc.msig.cpp:58`) stores the list as given.
  With an account named twice, two `approve` and one `unapprove` leave
  it among the provided approvals, and `exec` counts it.  `SentConsented` counts approvals
  minus withdrawals.
- Three actions lose track of tokens.
  `unfreeze` (`voting.cpp:331`) leaves the amount it pays in `unstaking`, so that
  it is paid again by the next call (`doc/system_vote.md:26`, `39`); `RewardsFunded`
  counts what it has paid (`repaid`).
  `quitsvote` (`voting.cpp:236`) subtracts from `voteall`
  through a reference into the row it has just zeroed, so `voteall` never falls and the tokens
  stay locked (`ended`);
  `votebyreward` (`voting.cpp:316`) adds the reward to `voteall` without paying it
  to the balance on which it is locked (`reinvested`), and (`voting.cpp:318`) adds votes to a
  producer whose pawn is gone.  Without these terms TLC refutes `VoteallAdds`,
  `LockedOwned` and `RewardsFunded` within seconds; that a producer with votes has a pawn
  is false and stated nowhere.
- `UndoIndex` keeps unique keys fixed in `modify`: if modifiers hand a key from one
  row to another, `undo` (`chainbase.hpp:322`) collides with a row not yet put back
  and throws with part of the rows restored.  The chain itself never does this.

## 6. Proofs

All theorems hold for every value of the constants that satisfies the named
assumptions: any block tree, any number of nodes, producers, rows, keys and
blocks.  Each inductive invariant was checked by TLC on an instance of its run
before it was proved, except `BlocksOK` of `TransactionsProofs`, which quantifies
over unbounded sets of sequences: TLC checks the properties it implies.

### The chainbase table (`UndoIndexProofs`)

- `Invariance`: `Spec => []IInv`.  `UndoTotal`, the property of interest, is not
  inductive: whether undo succeeds after a squash or another undo depends on what
  the lower undo states say.  `IInv` therefore states for every session still open
  that its undo state `Describes` the difference between the table at its start
  and at the start of the next: each row is new, updated, removed or untouched,
  and exactly one of the four.  Ids at or above `next_id` are unused in every
  version, revisions are consecutive, and keys are unique in every version.
- `RevisionsStayConsecutive` and `UndoAlwaysTotal` follow from it.  `UndoTotal` is about the
  loop that puts old values back (`chainbase.hpp:321`); that the loops after it, which erase new
  rows and insert removed ones, find what they expect is in `IInv` (the new ids of a
  state are rows of the table, keys are unique in the version returned to).
- `Refinement`: `Spec => ImplementsVersions`.  Each step of the table is a step of
  `VersionedTable` or a stutter; undo is exact by `RestoreGivesBack`, squash by
  `MergeDescribes`.

The lemmas `OnCreateDescribes`, `OnModifyDescribes`, `OnRemoveDescribes` and
`MergeDescribes` are about the operators alone; one lemma per action lifts them
to `IInv`.  Assumptions: `Null` is not a row, the bounds are natural numbers.

### The controller (`ControllerProofs`)

- `Invariant`: `SteadySpec => []IInv`.
- From it `StateFollowsHead` (`StateSynced`), `StoresReplay` (`Replays`),
  `HeadIsBest` (`OnBestFork`) and `MarksAreTheChain` (`MarksFollowHead`).
  `AssertionsHold` is left to the runs: `GradualAssumption` excludes the one assertion
  that can fire.
- `NodeImplementsLedger`: `SteadySpec => ImplementsLedger`.

`IInv` has a part for each place of the handlers (`AtRest`, `InAdd`, and those of
the switch), because a handler breaks most of what holds between handlers and
repairs it: the index is ranked but for the block being added, the marks follow the
head but for the block being made, the state follows the head always.  It speaks
of two things no variable holds: `r`, up to which the fork database has been
pruned, and `t`, the block to which log and reversible rows lead (the head, except
during a replay).  What carries the proof is `Settled`: a block enters the log only when every branch
that leaves the chain below it is outranked for good, so that no later switch pops
a block of the log.  That is where `GradualAssumption` is used, and why the
theorems are about `SteadySpec`: a crash in the middle of a switch puts the head
below blocks that outranked the other branches.  The module begins with what is
needed of trees: that the recursive `Chain` exists and leads from the genesis
block to its argument, how two branches agree up to their fork, what adding and
pruning do to the order of insertion.  Assumptions: `TreeAssumption`,
`LibAssumption`, `GradualAssumption`, `MaxRestartAssumption`.

### Header states (`DposProofs`)

- `Invariant`: `OneSize /\ Spec => []IInv`, and from it `CountsAreRight`,
  `TwoThirdsPropose` and the action properties `BuildersDecide` and `LibMonotone`, for
  schedules of one size (`OneSize`; the run `dpos_shrink` shows that the last is
  false without it), any number of producers, window, repetitions and chain, whatever
  headers claim.
- `VersionsInLine`: `Spec => []VersionsLineUp`, for schedules of any size.

None of the properties is inductive.  That no
producer confirms a block twice, but by a header that wraps the check (`Distinct`), depends on what the header remembers
of the producers, and a change of schedule makes it forget some and take in others.  The part
`Confirmed` of the invariant says what is enough: whom the header remembers has confirmed
nothing above the number it remembers, and anybody else nothing above the block
that made the pending schedule pending, so that the irreversible number, at which
a producer new to the schedule starts, is not below anything it confirmed before.
That the irreversible number never falls depends on `Irreversible`: at most a
third of the producers lag behind it.  Who decides depends on `Builds`: an implied number
above the irreversible one is that of a block the producer built, since a schedule that
becomes active gives newcomers the irreversible number itself.  `SmallestIs` says what the sorted list
of the code gives (an order statistic), `GrowCounts` and `ConfirmCounts` what
happens to the window; one lemma per step of a block lifts them.  Assumptions:
`HeaderAssumption`, `ScheduleAssumption`, `ClaimAssumption`, `BoundAssumption` (block numbers stay below `Word`,
2^32 in the code).

### Producers on forks (`DposProofs`)

- `ProducersConfirmOnce`: `ForksSpec => []ConfirmsOnce`, for any schedules at the
  start, proposed ones too, any delays, missed slots, lengths and restarts.
- `BranchesProposeOnce`: `StaysFirst /\ ForksSpec => []ProposedOnce`.  `StaysFirst`
  says that no chain of `Starts` proposes another schedule and that fewer nodes restart than two
  quotas of confirmations have producers in common (2(2n/3 + 1) - n; for four producers
  one restart, for 21 eight).

`ConfirmsOnce` is not inductive: it is about blocks, and what a producer does next depends on
its watermark and on the chain its node is on.  `FInv` adds both.  `MarkInv`: for each block of
a producer, its node has started since, or its watermark is at least the block's number, or it was
installed once more since.  `HeadInv`: the node of a producer is on the chain of a block of its
own that is not older, which is why a watermark that `on_block` sets to a lower
number was set by a block that installs the producer on a branch it had left (the exception),
never by one it has produced on already.  The rest is arithmetic of `blocks_to_confirm`:
a block confirms numbers above the watermark only.  The chains of `Starts` satisfy the invariant by
induction over their length (`ChainStraight`).

`ProposedOnce` needs numbers.  `SInv` adds to `FInv` that the confirmations a header still waits
for and the blocks of its chain that confirm the number come to a quota or more
(`Steadily`), so that a proposed block has a quota of confirming blocks among its
successors; and that all blocks of all branches that confirm a number are no more than the
producers that have confirmed it since they started, and one for each restart
(`CountInv`, from `ConfirmsOnce`, whose exception a schedule that stays rules out).
Two branches that propose different blocks of a number have no successor of them in
common, so twice the quota would be at most n plus the restarts, against `StaysFirst`.
The hypothesis is needed for the argument, not only for the proof: quotas of different schedules need not have
a producer in common, and a producer installed once more confirms twice.  The run
`finality` checks `ProposedOnce` across two changes of schedule on small instances.
Assumptions: `HeaderAssumption`, `FinalityAssumption`.

### Multisignature contract (`MsigProofs`)

- About the checker of `Authority` alone, for every table of authorities, cyclic ones
  too: whom it accepts could act with the given keys and permissions (`AcceptedCanAct`), and a
  transaction passes `check_authorization` only if every account it declares could
  (`CheckedCanAct`).  Where the references are not deeper than the limit and not
  circular (`Shallow`), who could act is accepted (`CanActAccepted`).
- `MsigInvariant`: `Spec => [](TypeOK /\ Consents)`, for any accounts, keys,
  actions, delays and number of changes.
- From these `CheckerIsSound` (`CheckerSound`), `CheckerIsComplete`
  (`CheckerComplete`), and the action properties `SendsConsented`
  (`SentConsented`) and `WaitingStays` (`WaitsUntilDue`).

Who can act (`Granted`) is found in rounds: whoever has enough weight with the
accounts found before.  The checker is a recursion with a cache that it fills on the way
and that counts an account whose visit has not ended as one that cannot act.  Soundness is by induction on the depth left:
what the cache calls satisfied can act, and the weight the loop has added up is held.
Completeness needs an order in which an unfinished visit does no harm: accounts
have heights that fall along the references, the accounts being visited are all
higher than the one asked for, so that its answer depends on none of them, and there are
levels enough for its height (`Fair`).
`Consents` is what makes a proposal executed the one approved: proposals have distinct serials, the
approvals a proposal keeps are exactly the consent to its serial, account by account and as often as given,
and there is no consent
to a serial not given out yet, so cancelling a proposal and making another of the same
name inherits nothing.  Assumptions: `AuthorityAssumption`, `MsigAssumption`.

### The sync manager (`SyncManagerProofs`)

- `Invariant`: `Spec => []IInv`, and from it `NoBlockSkipped`
  (`NothingSkipped`).

The invariant adds to the property what the messages under way may say: a block
is one of the chain, a request starts at a block or cancels.  There is one lemma
per operator, in the order of the calls in the code.

### The system contract (`NocStakeProofs`)

- `Invariant`: `Spec => []IInv`, for any voters, producers, tables of pawns and
  static votes, unit, amounts and number of actions.
- From it `PowersAlwaysAdd` (`PowersAdd`), `AgesAlwaysAccounted` (`AgesAccounted`),
  `VoteallAlwaysAdds` (`VoteallAdds`), `LockedAlwaysOwned` (`LockedOwned`) and
  `RewardsAlwaysFunded` (`RewardsFunded`): all five properties of the run, through every action.

`PowersAdd` and `AgesAccounted` are not inductive.  Rows keep power in units, producers
in tokens, and each settles its age by itself with truncating divisions, so they agree
only when every division is exact.  `RowsOK` says so: the power of a row and of each static
vote is a whole number of tokens, a vote is ten times its power, nothing was
settled in the future, and a vote that has ended has neither power nor tokens.
Then a row has some number of tokens of power, its age grows by that number with every
block (`RowSums`), and one lemma per operator says what it does to power, age and
votes of a row (`VotedRow`, `AppendedRow`, `QuittedRow`, `RestartRow`,
`ReinvestedRow`).  `RowChanges` lifts any of them to the sums over voters;
the excess of `AgesAccounted` is what `VotedRow` says of a changed vote.  `SharesFunded` is the
arithmetic of `reward_bps_and_user`: truncated shares of a reward, by votes among
all and among scheduled producers, come to no more than the reward (`SharesSum`).  Sums are
those of the community modules; `Induction` shows that this fold, defined with
`CHOOSE`, is the sum in any order (`SumRemove`, `SumUpdate`, `SumPlus`, `SumLeq`).
Assumptions: `AmountAssumption`, `AccountAssumption`.

### Transactions (`TransactionsProofs`)

- `BlocksAlwaysOK`: `Spec => []BlocksOK`, for any transactions, costs, limits and
  number of blocks; blocks of peers hold at most one receipt, as in the model.
- From it `NoReceiptTwice` (`NoneTwice`), `DeferredAccounted` (`RetiredByReceipt`)
  and, with one more step, `AcceptedAlwaysKept` (`AcceptedKept`, with its exception).

`NoneTwice` is not inductive: it says nothing of the tables that keep a transaction
from running again.  `Ok` relates those of one state to the ids that have a receipt up to
there: an input with a receipt is remembered or has expired (`DoneOK`); a
deferred transaction with one is no longer in the table and was sent before this
block, so that one sent now, whose id depends on the block, is another;
a delayed input was stored only with its own receipt (`SentOK`); what was sent is in the table, cancelled or
done (`Accounted`).  Because a switch of branches goes back to the state of an earlier
block, `Chain` says this of every block of the chain, with the receipts up to
that block, and `Fits` of the pending one.  The lemmas follow the calls of the
code: what sending, replacing, cancelling and retiring a row do to `Ok`
(`OkSent`, `OkReplaced`, `OkCancelled`, `OkRetired`), what `exec`, `push_transaction`,
`push_scheduled_transaction` with its error handler and `apply_block` do to a
state (`ExecGood`, `PushGood`, `ScheduledGood`, `ApplyGood`), and one lemma per
action.  The proof of `DeferredAccounted` depends on the rule that nothing runs in the block it was
sent in (`published < slot`), and `NoReceiptTwice` on `clear_expired_input_transactions`
forgetting an input only when `validate_expiration` refuses it.

- `StateAlwaysOK`: `Spec => []StateOK`, and from it `RamAlwaysMatches`
  (`RamMatchesRows`).

`RamMatchesRows` looks at the current state only, and a switch of branches continues
from an earlier one, so `StateOK` states usage, numbers of rows and RAM (`Fine`) of the
state after every block.  What could break it is a replacement, which bills the new
row and does not give the old one back.  `ExecRam` says exactly when a transaction
replaces, `RowKeeps` that it does not on a node that makes the block, and `PeerFine`
that the same receipt of a peer was not made by a replacement either.  The CPU time
within the limit of the block comes from `finalize` (`RunPays`), and for hard failures
from the assertions of `add_transaction_usage`.

- `ValidatorsAlwaysAgree`: `Handled /\ Spec => []ValidatorsAgree`.

The proof compares two runs of the same code, one with a clock and one that bills what
the receipt says (`Twins`), for each kind of receipt.  An input or a row that ran:
what is billed is within every limit that `finalize` looks at, so the other node
finds nothing to object to (`TwinRun`).  A row whose handler ran: the bill is that of
row and handler together, so on the other node the row runs out of the same limit,
or throws the same exception, and not for a reason of that node (`TwinFault`), and
its handler runs (`CheckedHandled`).  A row that failed for good: only an exception of
its code does that (`Faulty`, `CheckedFailed`), since running out of time is not
recorded by a producer.  The exception is a row that ran out of time and
whose handler failed with an assertion: it is recorded, with a bill at which the other node may
see it succeed.  `Handled` (a transaction whose handler fails always fails itself)
excludes it; the transactions of the run `transactions` satisfy it, those of
`transactions_fail` do not, and there TLC finds `ValidatorsAgree` violated.
`Replays` says that one more receipt is repeated, and induction over the receipts
(`ApplyMore`) carries it over the block.  Assumption of all: `DataAssumption`.

### Only model-checked

Liveness (`HandlersEnd`, `Converges`, `CatchesUp`, `ReachesHead`), which is out of
the prover's reach, `AssertionsHold`, and `ProposedOnce` across changes of schedule.
Recursive definitions as such are
not out of reach: the library's induction theorems, which take an operator as a
parameter, cannot be used, but `Induction` states induction for sets of numbers and for sets of finite sets.

## 7. Not modelled

- In modelled parts: BFT confirmations (no code path of this fork sends them), the
  irreversible read mode, snapshots, a shutdown requested during a replay, the
  `validated` flag (which only decides whether checks are repeated); fees, net
  usage, persisted transactions; signatures and merkle roots of headers; the relay
  of transactions; the tree of permissions.  The lock of `sub_balance` also
  applies to transfers of other symbols than the core token; only the core token is
  modelled.
- The election (`update_elected_bps`, `producer.cpp:179`): a sort of the producers by votes
  that reads past the end of a short list; its result is any schedule in
  `DposHeader`.
- The lists of blocked accounts (`controller.cpp:1232`), which live in memory and in
  the state at once: configuration that no property here depends on.
- Resource averages and elastic limits (`resource_limits.cpp:24`): 128-bit integer
  arithmetic whose interesting values are out of reach of small instances.
- bandwidth and votes for RAM: separate tables of the system contract.
- chainbase's registry of tables and its mapped file, the WASM interface, the ABI
  serializer, wallets, history, state history, mongo and notify plugins, API
  plugins, programs, the application framework: interpreters, formats and I/O.  The
  bnet plugin is a second, optional exchange of blocks which the nodes of this
  chain do not use.  Vendored libraries (`externals`, `libraries/wabt`,
  `libraries/wasm-jit`, `libraries/fc`, `contracts/libc++` and `musl`) are the larger
  part of the repository's lines and not its subject.

## 8. Plan

1. Proofs: `ProposedOnce` for schedules that replace few producers at a time, whose
   quotas still meet; blocks of peers with any number of receipts.
2. More of the system: the election composed with `DposHeader`; fees, decay of usage
   and `onblock` in `Transactions`; two chainbase tables under one session; the tree
   of permissions in `Authority`.
