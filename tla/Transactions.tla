----------------------------- MODULE Transactions -----------------------------
(***************************************************************************)
(* Transactions inside the blocks of one node that produces in turn with   *)
(* its peers: the pending block of the controller, input and deferred      *)
(* transactions with their error handlers, the table that keeps inputs     *)
(* from running twice, the transactions taken back from lost blocks, and   *)
(* what the producer plugin does with all of them.  Another node that      *)
(* validates a block runs the same operators with the CPU times of the     *)
(* receipts in place of its own clock.                                     *)
(*                                                                         *)
(* The build modelled is the default of build.sh, in which accounts pay    *)
(* with staked resources and not with fees.                                *)
(***************************************************************************)
EXTENDS Integers, Sequences, FiniteSets, FiniteSetsExt, SequencesExt

CONSTANTS
    Account,
    Trx,            \* names of transactions
    Input,          \* the ones that are signed and sent in; the rest is deferred
    Data,           \* what each does, see DataAssumption
    Allowance,      \* account_resource_limit::max, in units of CPU time
    MaxTrxCpu, MinTrxCpu, MaxBlockCpu,
    Leeway,         \* subjective_cpu_leeway, of inputs and error handlers
    Window,         \* deferred_trx_expiration_window
    Lifetime,       \* max_transaction_lifetime
    PeerCpu,        \* CPU times that peers' receipts may name
    MaxSlot         \* bound: block times of the instance

None == "none"

\* expiration, delay, max_cpu, payer: header fields and the account billed;
\* cost: the CPU times its run may take here; asserts: its code throws;
\* send, replace, cancel: the deferred transactions its code sends or cancels;
\* sender: the contract that sends it, if deferred; handler: whether that
\* contract's onerror succeeds; handler_cost: the time onerror takes.
ASSUME DataAssumption ==
    /\ Input \subseteq Trx
    /\ \A t \in Trx :
        /\ Data[t].payer \in Account
        /\ Data[t].send \in (Trx \ Input) \cup {None}
        /\ Data[t].cancel \in (Trx \ Input) \cup {None}
        /\ Data[t].sender \in Account \cup {None}
        /\ t \notin Input => Data[t].sender # None
        /\ {Data[t].expiration, Data[t].delay, Data[t].max_cpu} \subseteq Nat
        /\ Data[t].cost \cup Data[t].handler_cost \subseteq Nat
    \* ids of packed transactions are told from those of generated ones by this name
    /\ "packed" \notin Trx
    /\ Allowance \in [Account -> Nat]
    /\ {MaxTrxCpu, MinTrxCpu, MaxBlockCpu, Leeway, Window, Lifetime, MaxSlot} \cup PeerCpu \subseteq Nat

VARIABLES
    blocks,         \* the chain: time, state and receipts of each block, its
                    \* block_state::trxs and, as history, the inputs that ran in it
    pending,        \* the pending block; its mode is None if there is none
    unapplied,      \* controller_impl::unapplied_transactions
    blacklist,      \* producer_plugin_impl::_blacklisted_transactions
    owed            \* history: inputs that ran here and have not failed, expired or been
                    \* lost with a peer's block since

vars == <<blocks, pending, unapplied, blacklist, owed>>

head == Last(blocks)

(***************************************************************************)
(* The chain state.  dedup: transaction_object by id; gto: the generated   *)
(* transactions; ram, cpu: usage of accounts; block_cpu:                   *)
(* pending_cpu_usage; next: the id of the next generated transaction; ran: *)
(* what contracts did.  sent, cancelled: history.                          *)
(***************************************************************************)
GenesisState ==
    [dedup |-> {}, gto |-> {}, ram |-> [a \in Account |-> 0], cpu |-> [a \in Account |-> 0],
     block_cpu |-> 0, next |-> 0, ran |-> <<>>, sent |-> {}, cancelled |-> {}]

IsState(s) ==
    /\ DOMAIN s = DOMAIN GenesisState
    /\ s.dedup \subseteq Input /\ {row.trx : row \in s.gto} \subseteq Trx
    /\ s.ram \in [Account -> Nat] /\ s.cpu \in [Account -> Nat] /\ s.block_cpu \in 0..MaxBlockCpu
    /\ \A row \in s.gto : row.no < s.next
    /\ {id[1] : id \in s.sent} \subseteq Trx /\ s.cancelled \subseteq s.sent

NoPending ==
    [mode |-> None, slot |-> 0, db |-> GenesisState, trxs |-> {}, receipts |-> <<>>,
     todo |-> {}, cursor |-> <<0, 0>>, open |-> FALSE]

TypeOK ==
    /\ \A i \in 1..Len(blocks) :
          IsState(blocks[i].db) /\ blocks[i].slot \in 0..MaxSlot /\ blocks[i].trxs \subseteq Input
    /\ pending.mode \in {None, "producing", "speculating"} /\ IsState(pending.db)
    /\ pending.slot \in 0..MaxSlot /\ pending.trxs \cup pending.todo \subseteq Input
    /\ unapplied \cup owed \subseteq Input /\ {b.id[1] : b \in blacklist} \subseteq Trx

Init ==
    /\ blocks = <<[slot |-> 0, db |-> GenesisState, trxs |-> {}, inputs |-> {}, receipts |-> <<>>]>>
    /\ pending = NoPending
    /\ unapplied = {} /\ blacklist = {} /\ owed = {}

(***************************************************************************)
(* Resources.                                                              *)
(***************************************************************************)
get_account_cpu_limit(s, a) == Max({0, Allowance[a] - s.cpu[a]})
get_block_cpu_limit(s)      == MaxBlockCpu - s.block_cpu

add_transaction_usage(s, accounts, cpu) ==
    [s EXCEPT !.cpu = [a \in Account |-> @[a] + IF a \in accounts THEN cpu ELSE 0],
              !.block_cpu = @ + cpu]

\* The assertions of add_transaction_usage.  After finalize they hold anyway.
UsageAllowed(s, accounts, cpu) ==
    /\ \A a \in accounts : s.cpu[a] + cpu <= Allowance[a]
    /\ s.block_cpu + cpu <= MaxBlockCpu

\* One generated transaction is one unit of RAM.
add_ram_usage(s, a, delta) == [s EXCEPT !.ram[a] = @ + delta]

(***************************************************************************)
(* Generated transactions.                                                 *)
(***************************************************************************)
\* The row a transaction t sent at time now is stored in.  The id of what a
\* contract sends depends on the block it is sent in, a delayed input keeps
\* its own.
Generated(t, now, no) ==
    [trx_id |-> IF t \in Input THEN <<t, 0>> ELSE <<t, now>>, trx |-> t, no |-> no,
     sender |-> Data[t].sender, payer |-> Data[t].payer, published |-> now,
     delay_until |-> now + Data[t].delay, expiration |-> now + Data[t].delay + Window]

create_generated(s, t, now) ==
    LET row == Generated(t, now, s.next)
    IN  add_ram_usage([s EXCEPT !.gto = @ \cup {row}, !.next = @ + 1,
                                !.sent = @ \cup {row.trx_id}, !.cancelled = @ \ {row.trx_id}],
                      row.payer, 1)

remove_scheduled_transaction(s, row) ==
    add_ram_usage([s EXCEPT !.gto = @ \ {row}], row.payer, -1)

SentRows(s, t) == {row \in s.gto : row.sender # None /\ row.trx = t}

\* The row keeps its id, and the RAM of the old one is not given back.
ReplaceRow(s, t, now) ==
    LET old == CHOOSE row \in SentRows(s, t) : TRUE
        new == [Generated(t, now, old.no) EXCEPT !.trx_id = old.trx_id]
    IN  add_ram_usage([s EXCEPT !.gto = (@ \ {old}) \cup {new}], new.payer, 1)

\* Mutant: the producer replaces, too.
schedule_deferred_replaces(s, t, replace, now, producing) ==
    IF SentRows(s, t) = {} THEN [exc |-> None, s |-> create_generated(s, t, now)]
    ELSE IF ~replace THEN [exc |-> "duplicate", s |-> s]
    ELSE [exc |-> None, s |-> ReplaceRow(s, t, now)]

schedule_deferred_transaction(s, t, replace, now, producing) ==
    IF SentRows(s, t) = {} THEN [exc |-> None, s |-> create_generated(s, t, now)]
    ELSE IF ~replace THEN [exc |-> "duplicate", s |-> s]
    ELSE IF producing THEN [exc |-> "subjective", s |-> s]
    ELSE [exc |-> None, s |-> ReplaceRow(s, t, now)]

cancel_deferred_transaction(s, t) ==
    IF SentRows(s, t) = {} THEN s
    ELSE LET row == CHOOSE r \in SentRows(s, t) : TRUE
         IN  [remove_scheduled_transaction(s, row) EXCEPT !.cancelled = @ \cup {row.trx_id}]

(***************************************************************************)
(* One transaction_context.  c.explicit: the CPU time is billed as a       *)
(* receipt says and no timer runs; c.producing: is_producing_block; c.pre: *)
(* an exception thrown before init.                                        *)
(***************************************************************************)
Context(t, payer, max_cpu, slot, explicit, billed) ==
    [trx |-> t, payer |-> payer, max_cpu |-> max_cpu, now |-> slot, explicit |-> explicit,
     producing |-> ~explicit, billed |-> billed, leeway |-> 0, pre |-> None]

\* The actions of a transaction.
exec(c, s) ==
    LET d  == Data[c.trx]
        s1 == [s EXCEPT !.ran = Append(@, <<"run", c.trx, c.now>>)]
        s2 == IF d.cancel = None THEN s1 ELSE cancel_deferred_transaction(s1, d.cancel)
    IN  IF d.asserts THEN [exc |-> "assert", s |-> s]
        ELSE IF d.send = None THEN [exc |-> None, s |-> s2]
        ELSE schedule_deferred_transaction(s2, d.send, d.replace, c.now, c.producing)

\* record_transaction, then the actions or, if delayed, a generated transaction.
exec_input(c, s) ==
    LET s1 == [s EXCEPT !.dedup = @ \cup {c.trx}]
    IN  IF c.trx \in s.dedup THEN [exc |-> "tx_duplicate", s |-> s]
        ELSE IF Data[c.trx].delay = 0 THEN exec(c, s1)
        ELSE [exc |-> None, s |-> create_generated(s1, c.trx, c.now)]

TrxCpuLimit(c) == Min({MaxTrxCpu} \cup ({c.max_cpu} \ {0}))

initial_objective_duration_limit(c, s) == Min({get_block_cpu_limit(s), TrxCpuLimit(c)})

billing_timer_exception_code(c, s) ==
    IF get_block_cpu_limit(s) < TrxCpuLimit(c) THEN "block_cpu" ELSE "tx_cpu"

\* init: where the timer stands, and what it throws.
AccountBound(c, s) == get_account_cpu_limit(s, c.payer) + c.leeway
Timer(c, s) ==
    IF AccountBound(c, s) <= initial_objective_duration_limit(c, s)
    THEN [at |-> AccountBound(c, s), code |-> "leeway"]
    ELSE [at |-> initial_objective_duration_limit(c, s), code |-> billing_timer_exception_code(c, s)]

\* What may cut a run of e units short: the timer, if it is polled after it
\* has passed, and the deadline of the caller at any time, which is that of the
\* block or the longest time the node gives to one transaction.
Cuts(c, s, e) ==
    IF c.explicit THEN {None}
    ELSE {None, "block_deadline", "deadline"} \cup (IF e > Timer(c, s).at THEN {Timer(c, s).code} ELSE {})

update_billed_cpu_time(c, e) == IF c.explicit THEN c.billed ELSE Max({e, MinTrxCpu})

\* The exception finalize throws when it has lowered limit to what the account
\* can pay, or None.
BillingFailure(c, s, billed, account, limit) ==
    CASE billed < MinTrxCpu -> "min_cpu"
      [] billed >= MinTrxCpu /\ account <= limit /\ billed > account -> "tx_cpu"
      [] billed >= MinTrxCpu /\ account > limit /\ billed > limit -> billing_timer_exception_code(c, s)
      [] OTHER -> None

finalize(c, s, e) ==
    BillingFailure(c, s, update_billed_cpu_time(c, e), get_account_cpu_limit(s, c.payer),
                   initial_objective_duration_limit(c, s))

\* The exception a context throws whose actions give body in e units of time.
Failure(c, s, body, e, cut, early) ==
    CASE c.pre # None -> c.pre
      [] c.pre = None /\ early -> billing_timer_exception_code(c, s)
      [] c.pre = None /\ ~early /\ cut # None -> cut
      [] c.pre = None /\ ~early /\ cut = None /\ body.exc # None -> body.exc
      [] OTHER -> finalize(c, s, e)

Finished(c, s, body, billed, early, exc) ==
    [exc |-> exc, billed |-> billed,
     bill_to |-> IF c.pre # None \/ early THEN {} ELSE {c.payer},
     s |-> IF exc = None THEN add_transaction_usage(body.s, {c.payer}, billed) ELSE s]

\* The whole of a context, init to finalize: the exception, the state if there
\* is none, the time billed and to whom.  early: init finds the receipt's time
\* too long, before it knows whom to bill.
Run(c, s, body, e, cut) ==
    LET early == c.billed > initial_objective_duration_limit(c, s)
    IN  Finished(c, s, body, update_billed_cpu_time(c, e), early, Failure(c, s, body, e, cut, early))

(***************************************************************************)
(* The controller.                                                         *)
(***************************************************************************)
failure_is_subjective(exc) ==
    exc \in {"subjective", "block_cpu", "block_deadline", "deadline", "leeway"}
scheduled_failure_is_subjective(exc) == exc = "tx_cpu" \/ failure_is_subjective(exc)

\* The trace of a transaction, the state it leaves, the receipt it adds.
Outcome(exc, s, receipts) == [exc |-> exc, s |-> s, receipts |-> receipts]

Receipt(id, status, cpu) == [id |-> id, status |-> status, cpu |-> cpu]
Packed(t) == <<"packed", t>>

validate_expiration(t, now) ==
    IF Data[t].expiration < now THEN "expired"
    ELSE IF Data[t].expiration > now + Lifetime THEN "too_far" ELSE None

InputContext(t, now, explicit, billed) ==
    [Context(t, Data[t].payer, Data[t].max_cpu, now, explicit, billed)
        EXCEPT !.pre = validate_expiration(t, now), !.leeway = Leeway]

InputStatus(t) == IF Data[t].delay = 0 THEN "executed" ELSE "delayed"

InputOutcome(t, r) ==
    Outcome(r.exc, r.s,
            IF r.exc = None THEN <<Receipt(Packed(t), InputStatus(t), r.billed)>> ELSE <<>>)

push_transaction(c, s, e, cut) == InputOutcome(c.trx, Run(c, s, exec_input(c, s), e, cut))

RowContext(row, now, explicit, billed) ==
    Context(row.trx, row.payer, Data[row.trx].max_cpu, now, explicit, billed)

HandlerContext(row, c) == [c EXCEPT !.payer = row.sender, !.max_cpu = 0, !.leeway = Leeway]

\* The onerror action of the sender, in elapsed units of time.
RunHandler(row, c, s, elapsed, cut) ==
    LET body == IF Data[row.trx].handler
                THEN [exc |-> None, s |-> [s EXCEPT !.ran = Append(@, <<"onerror", row.trx, c.now>>)]]
                ELSE [exc |-> "assert", s |-> s]
    IN  Run(HandlerContext(row, c), s, body, elapsed, cut)

\* Mutant: the handler is billed for its own time only.
apply_onerror_fresh(row, c, s, e, h, cut) == RunHandler(row, c, s, h, cut)

\* The handler's clock starts when that of the failed transaction did.
apply_onerror(row, c, s, e, h, cut) == RunHandler(row, c, s, e + h, cut)

\* What a hard failure bills: s is the state without the row.
HardFailCpu(c, s, cpu_time_to_bill) ==
    IF c.explicit THEN cpu_time_to_bill
    ELSE Min({cpu_time_to_bill, get_account_cpu_limit(s, c.payer),
              initial_objective_duration_limit(c, s)})

\* What has failed, in the end with exc: given up for now, or a hard failure.
GiveUp(row, c, s, s1, bill_to, bill, exc) ==
    IF failure_is_subjective(exc) \/ (~c.explicit /\ scheduled_failure_is_subjective(exc))
    THEN Outcome(exc, s, <<>>)
    ELSE IF ~UsageAllowed(s1, bill_to, bill) THEN Outcome("usage", s, <<>>)
    ELSE Outcome(exc, add_transaction_usage(s1, bill_to, bill),
                 <<Receipt(row.trx_id, "hard_fail", bill)>>)

\* Mutant: what fails for a reason of this node is removed all the same.
Retire_squashed(row, c, s, s1, r, o) ==
    IF r.exc = None THEN Outcome(None, r.s, <<Receipt(row.trx_id, "executed", r.billed)>>)
    ELSE IF row.sender # None /\ ~failure_is_subjective(r.exc) /\ o.exc = None
         THEN Outcome(None, o.s, <<Receipt(row.trx_id, "soft_fail", o.billed)>>)
    ELSE Outcome(r.exc, s1, <<>>)

\* The row ran with r, and its error handler, if it is called, with o.
Retire(row, c, s, s1, r, o) ==
    IF r.exc = None THEN Outcome(None, r.s, <<Receipt(row.trx_id, "executed", r.billed)>>)
    ELSE IF row.sender = None \/ failure_is_subjective(r.exc)
         THEN GiveUp(row, c, s, s1, r.bill_to, HardFailCpu(c, s1, r.billed), r.exc)
    ELSE IF o.exc = None
         THEN Outcome(None, o.s, <<Receipt(row.trx_id, "soft_fail", o.billed)>>)
    ELSE GiveUp(row, c, s, s1, r.bill_to, HardFailCpu(c, s1, o.billed), o.exc)

push_scheduled_transaction(row, c, s, e, cut, h, hcut) ==
    LET s1 == remove_scheduled_transaction(s, row)
    IN  IF row.delay_until > c.now THEN Outcome("not_ready", s, <<>>)
        ELSE IF row.expiration < c.now
             THEN Outcome(None, s1, <<Receipt(row.trx_id, "expired", c.billed)>>)
        ELSE Retire(row, c, s, s1, Run(c, s1, exec(c, s1), e, cut),
                    apply_onerror(row, c, s1, e, h, hcut))

\* Mutant: forgets a transaction in the last block that may hold it.
clear_expired_early(s, now) ==
    [s EXCEPT !.dedup = {t \in @ : Data[t].expiration > now}]

clear_expired_input_transactions(s, now) ==
    [s EXCEPT !.dedup = {t \in @ : Data[t].expiration >= now}]

\* The onblock transaction is not modelled.
start_block(s, now) == clear_expired_input_transactions(s, now)

\* process_block_usage.
finalize_block(s) == [s EXCEPT !.block_cpu = 0]

(***************************************************************************)
(* apply_block: the receipts of a block one by one.  ok: no exception so   *)
(* far; trxs: inputs applied; failed: the input that failed, if that takes *)
(* it from the unapplied ones.                                             *)
(***************************************************************************)
Rows(s, id) == {row \in s.gto : row.trx_id = id}

OutcomeOf(s, receipt, now) ==
    IF receipt.id[1] = "packed"
    THEN push_transaction(InputContext(receipt.id[2], now, TRUE, receipt.cpu), s, 0, None)
    ELSE IF Rows(s, receipt.id) = {} THEN Outcome("unknown", s, <<>>)
    ELSE LET row == CHOOSE r \in Rows(s, receipt.id) : TRUE
         IN  push_scheduled_transaction(row, RowContext(row, now, TRUE, receipt.cpu), s, 0, None, 0, None)

CheckReceipt(acc, receipt, o) ==
    LET inputs   == {t \in Input : receipt.id = Packed(t)}
        can_fail == receipt.status = "hard_fail" /\ inputs = {}
    IN  [ok |-> (o.exc = None \/ can_fail) /\ o.receipts = <<receipt>>,
         s |-> o.s,
         trxs   |-> acc.trxs \cup (IF o.exc = None THEN inputs ELSE {}),
         failed |-> IF o.exc = None \/ failure_is_subjective(o.exc) THEN {} ELSE inputs]

ApplyReceipt(acc, receipt, now) ==
    IF acc.ok THEN CheckReceipt(acc, receipt, OutcomeOf(acc.s, receipt, now)) ELSE acc

ApplyReceipts(s, receipts, now) ==
    LET acc[k \in 0..Len(receipts)] ==
            IF k = 0 THEN [ok |-> TRUE, s |-> start_block(s, now), trxs |-> {}, failed |-> {}]
            ELSE ApplyReceipt(acc[k - 1], receipts[k], now)
    IN  acc[Len(receipts)]

\* A peer's block as the fork database keeps it.  push_transaction notes the
\* inputs in the pending block_state only, which commit_block discards: the
\* head's trxs stay empty.
Block(slot, acc, receipts) ==
    [slot |-> slot, db |-> finalize_block(acc.s), trxs |-> {}, inputs |-> acc.trxs,
     receipts |-> receipts]

\* abort_block: the inputs of the pending block are unapplied again.
PendingTrxs == IF pending.mode = None THEN {} ELSE pending.trxs

(***************************************************************************)
(* The producer plugin.                                                    *)
(***************************************************************************)
\* schedule_production_loop after a block or when a speculative block's time
\* is over: abort_block and start_block.
Start(mode, slot) ==
    /\ pending.mode # None => pending.mode = "speculating" /\ slot >= pending.slot
    /\ slot > head.slot
    /\ unapplied' = unapplied \cup PendingTrxs
    /\ pending' = [mode |-> mode, slot |-> slot, db |-> start_block(head.db, slot), trxs |-> {},
                   receipts |-> <<>>, todo |-> unapplied', cursor |-> <<0, 0>>, open |-> FALSE]
    /\ blacklist' = IF mode = "producing" THEN {b \in blacklist : b.expiry > slot} ELSE blacklist
    /\ UNCHANGED <<blocks, owed>>

\* The failure_is_subjective of the plugin: there is no room left in the block.
Exhausting(exc) == exc \in {"block_cpu", "block_deadline"}

\* An input that ran, one that failed.
Took(t, o) ==
    /\ pending' = [pending EXCEPT !.db = o.s, !.receipts = @ \o o.receipts, !.trxs = @ \cup {t},
                                  !.todo = @ \ {t}]
    /\ unapplied' = unapplied \ {t}
    /\ owed' = owed \cup {t}
    /\ UNCHANGED <<blocks, blacklist>>

Drop(t) ==
    /\ pending' = [pending EXCEPT !.todo = @ \ {t}]
    /\ unapplied' = unapplied \ {t}
    /\ owed' = owed \ {t}
    /\ UNCHANGED <<blocks, blacklist>>

Preparing == pending.mode # None /\ ~pending.open

ExpireUnapplied(t) ==
    /\ Preparing /\ t \in pending.todo
    /\ Data[t].expiration < pending.slot
    /\ Drop(t)

\* A speculative block does not run what only waits to be produced.
SkipUnapplied(t) ==
    /\ Preparing /\ t \in pending.todo
    /\ Data[t].expiration >= pending.slot
    /\ pending.mode = "speculating"
    /\ pending' = [pending EXCEPT !.todo = @ \ {t}]
    /\ UNCHANGED <<blocks, unapplied, blacklist, owed>>

RetryUnapplied(t) ==
    /\ Preparing /\ t \in pending.todo
    /\ Data[t].expiration >= pending.slot
    /\ pending.mode = "producing"
    /\ LET c == InputContext(t, pending.slot, FALSE, 0) IN
       \E e \in Data[t].cost : \E cut \in Cuts(c, pending.db, e) :
          LET o == push_transaction(c, pending.db, e, cut) IN
          \/ o.exc = None /\ Took(t, o)
          \/ o.exc # None /\ ~Exhausting(o.exc) /\ Drop(t)
          \/ /\ o.exc # None /\ Exhausting(o.exc)
             /\ pending' = [pending EXCEPT !.open = TRUE]
             /\ UNCHANGED <<blocks, unapplied, blacklist, owed>>

\* The rows due, in the order of the index by_delay, behind the last one tried.
Key(row) == <<row.delay_until, row.no>>
Before(k, l) == k[1] < l[1] \/ (k[1] = l[1] /\ k[2] < l[2])
Due == {row \in pending.db.gto :
            /\ row.delay_until <= pending.slot /\ row.published < pending.slot
            /\ \A b \in blacklist : b.id # row.trx_id
            /\ pending.cursor = <<0, 0>> \/ Before(pending.cursor, Key(row))}

\* A row was pushed: what fails is not tried again for a while.
Tried(row, o) ==
    /\ pending' = [pending EXCEPT !.db = o.s, !.receipts = @ \o o.receipts,
                                  !.cursor = Key(row), !.open = Exhausting(o.exc)]
    /\ blacklist' = IF o.exc = None \/ Exhausting(o.exc) THEN blacklist
                    ELSE blacklist \cup {[id |-> row.trx_id, expiry |-> pending.slot + Window]}
    /\ UNCHANGED <<blocks, unapplied, owed>>

RunScheduled ==
    /\ Preparing /\ pending.todo = {} /\ pending.mode = "producing"
    /\ \E row \in Due :
       /\ \A other \in Due \ {row} : Before(Key(row), Key(other))
       /\ LET c  == RowContext(row, pending.slot, FALSE, 0)
              s1 == remove_scheduled_transaction(pending.db, row)
              hc == HandlerContext(row, c)
          IN
          \E e \in Data[row.trx].cost, h \in Data[row.trx].handler_cost :
          \E cut \in Cuts(c, s1, e) :
          \E hcut \in IF row.sender = None THEN {None} ELSE Cuts(hc, s1, e + h) :
             Tried(row, push_scheduled_transaction(row, c, pending.db, e, cut, h, hcut))

\* The loops of start_block end, or the time for them does.
Open ==
    /\ Preparing
    /\ pending' = [pending EXCEPT !.open = TRUE]
    /\ UNCHANGED <<blocks, unapplied, blacklist, owed>>

on_incoming_transaction(t) ==
    /\ pending.mode # None /\ (pending.open \/ pending.todo = {})
    /\ Data[t].expiration >= pending.slot
    /\ t \notin pending.db.dedup
    /\ LET c == InputContext(t, pending.slot, FALSE, 0) IN
       \E e \in Data[t].cost : \E cut \in Cuts(c, pending.db, e) :
          LET o == push_transaction(c, pending.db, e, cut) IN
          \/ o.exc = None /\ Took(t, o)
          \/ /\ o.exc # None /\ ~Exhausting(o.exc)
             /\ IF failure_is_subjective(o.exc) THEN UNCHANGED <<unapplied, owed>>
                ELSE unapplied' = unapplied \ {t} /\ owed' = owed \ {t}
             /\ UNCHANGED <<blocks, pending, blacklist>>

produce_block ==
    /\ pending.mode # None /\ pending.mode = "producing" /\ pending.open
    /\ blocks' = Append(blocks, [slot |-> pending.slot, db |-> finalize_block(pending.db),
                                 trxs |-> pending.trxs, inputs |-> pending.trxs,
                                 receipts |-> pending.receipts])
    /\ pending' = NoPending
    /\ UNCHANGED <<unapplied, blacklist, owed>>

(***************************************************************************)
(* Blocks of peers: at most one receipt, of an input or of a row of the    *)
(* table.  Peers run this code, so they too refuse to replace a row.       *)
(***************************************************************************)
Replaces(s, t) == exec_input(InputContext(t, 0, FALSE, 0), s).exc = "subjective"

\* The receipt a peer makes for a row at a time and a cost.
PeerContext(row, slot, cpu) == [RowContext(row, slot, TRUE, cpu) EXCEPT !.producing = TRUE]
RowReceipts(s, row, slot, cpu) ==
    push_scheduled_transaction(row, PeerContext(row, slot, cpu), s, 0, None, 0, None).receipts

PeerReceipts(s, slot) ==
    {<<>>} \cup
    {<<Receipt(Packed(t), InputStatus(t), cpu)>> :
        t \in {u \in Input : ~Replaces(s, u)}, cpu \in PeerCpu} \cup
    {RowReceipts(start_block(s, slot), row, slot, cpu) : row \in s.gto, cpu \in PeerCpu}

\* What applying receipts gave, after abort_block: on failure apply_block aborts.
apply_block(slot, receipts, acc) ==
    /\ blocks' = IF acc.ok THEN Append(blocks, Block(slot, acc, receipts)) ELSE blocks
    /\ unapplied' = IF acc.ok THEN (unapplied \cup PendingTrxs) \ acc.trxs
                    ELSE ((unapplied \cup PendingTrxs) \ acc.failed) \cup acc.trxs
    /\ owed' = (owed \ acc.failed) \cup acc.trxs
    /\ pending' = NoPending
    /\ UNCHANGED blacklist

\* A block on the head.
on_incoming_block(slot) ==
    /\ slot > head.slot
    /\ \E receipts \in PeerReceipts(head.db, slot) :
          apply_block(slot, receipts, ApplyReceipts(head.db, receipts, slot))

\* Mutant: they are not.
pop_block_forgets(trxs) == trxs

\* pop_block: the inputs the head's block_state holds are unapplied again.
pop_block(trxs) == trxs \cup head.trxs

\* Those it does not hold, because a peer made the block, are not.
LostWithHead == head.inputs \ head.trxs

\* The block after first, without a receipt.
EmptyAfter(first) ==
    Block(first.slot + 1,
          [s |-> start_block(first.db, first.slot + 1), trxs |-> {}], <<>>)

apply_branch(slot, receipts, acc) ==
    LET first == Block(slot, acc, receipts) IN
    /\ acc.ok
    /\ blocks' = Front(blocks) \o <<first, EmptyAfter(first)>>
    /\ unapplied' = pop_block(unapplied \cup PendingTrxs) \ acc.trxs
    /\ owed' = (owed \ LostWithHead) \cup acc.trxs
    /\ pending' = NoPending
    /\ UNCHANGED blacklist

\* A switch to a branch of two blocks in place of the head, the second empty.
switch_forks(slot) ==
    /\ Len(blocks) > 1
    /\ LET prev == blocks[Len(blocks) - 1] IN
       /\ slot > prev.slot
       /\ \E receipts \in PeerReceipts(prev.db, slot) :
             apply_branch(slot, receipts, ApplyReceipts(prev.db, receipts, slot))

Next ==
    \/ \E mode \in {"producing", "speculating"}, slot \in 1..MaxSlot : Start(mode, slot)
    \/ \E t \in Input : ExpireUnapplied(t)
    \/ \E t \in Input : SkipUnapplied(t)
    \/ \E t \in Input : RetryUnapplied(t)
    \/ RunScheduled
    \/ Open
    \/ \E t \in Input : on_incoming_transaction(t)
    \/ produce_block
    \/ \E slot \in 1..MaxSlot : on_incoming_block(slot)
    \/ \E slot \in 1..MaxSlot - 1 : switch_forks(slot)

Spec == Init /\ [][Next]_vars

(***************************************************************************)
(* Properties.                                                             *)
(***************************************************************************)
\* Whatever the node has put into its pending block, another node that
\* applies the receipts to the same head passes every check of apply_block
\* and reaches the same state: what failed here, for whatever reason, left no
\* trace, and what is billed makes the other node take the same path.
ValidatorsAgree ==
    pending.mode # None =>
        LET acc == ApplyReceipts(head.db, pending.receipts, pending.slot)
        IN  acc.ok /\ acc.s = pending.db

CurrentState == IF pending.mode = None THEN head.db ELSE pending.db

\* The blocks of the chain and the pending one, and the receipts in them.
AllBlocks == Append(blocks, pending)
Places == UNION {{i} \X DOMAIN AllBlocks[i].receipts : i \in DOMAIN AllBlocks}
ReceiptAt(p) == AllBlocks[p[1]].receipts[p[2]]

\* No transaction has two receipts on the chain, although the table that
\* remembers inputs is cleared of expired ones and lost blocks give theirs
\* back (record_transaction, clear_expired_input_transactions, abort_block).
NoneTwice == \A p, q \in Places : ReceiptAt(p).id = ReceiptAt(q).id => p = q

\* A deferred transaction is in the table, or cancelled, or retired by a
\* receipt, and only one of these (push_scheduled_transaction).
RetiredByReceipt ==
    LET rows    == {row.trx_id : row \in CurrentState.gto}
        retired == {ReceiptAt(p).id : p \in Places} \cap CurrentState.sent
    IN  /\ CurrentState.sent = rows \cup CurrentState.cancelled \cup retired
        /\ rows \cap retired = {} /\ rows \cap CurrentState.cancelled = {}
        /\ retired \cap CurrentState.cancelled = {}

\* The RAM billed for deferred transactions is that of the rows in the table
\* (add_ram_usage, remove_scheduled_transaction, the replacement that does not
\* give back and is refused by producers).
RamMatchesRows ==
    /\ TypeOK
    /\ \A a \in Account : CurrentState.ram[a] = Cardinality({row \in CurrentState.gto : row.payer = a})

\* An input that ran is on the chain, in the pending block or waits, until it
\* fails or has expired when it is tried again, through aborted blocks and lost
\* ones (abort_block, pop_block, the loop of start_block).  The one exception is
\* an input that a peer's block took and that is lost with that block, which
\* the node does not take back although block_state.hpp:25-26 says it can.
AcceptedKept ==
    \A t \in owed :
        \/ t \in unapplied \cup PendingTrxs
        \/ \E i \in 1..Len(blocks) : t \in blocks[i].inputs

===============================================================================
