--------------------------------- MODULE Msig ---------------------------------
(***************************************************************************)
(* The multisignature contract (noc.msig.cpp) on the authorities of        *)
(* accounts (Authority) and the deferred transactions it sends             *)
(* (apply_context.cpp).  A proposed transaction is an updateauth: what it  *)
(* does matters to the other proposals.                                    *)
(*                                                                         *)
(* Authorities change while approvals are collected and between exec and   *)
(* the run of the deferred transaction.  The contract is privileged: what  *)
(* it sends is not checked again.                                          *)
(***************************************************************************)
EXTENDS Authority

CONSTANTS Proposer,       \* accounts that propose
          Name,           \* proposal names
          Initial,        \* the authorities at first
          Updates,        \* updateauth actions: [account, auth]
          Drafts,         \* those of them that are proposed
          Asked,          \* lists of accounts whose approval is requested
          Delays,         \* delay_sec of proposed transactions
          Lifetime,       \* how far ahead a proposed transaction expires
          MaxTime,        \* bound: seconds
          MaxChanges      \* bound: proposals, and updates of authorities by their accounts

ASSUME MsigAssumption ==
    /\ IsTable(Initial) /\ \A a \in Account : Valid(Initial[a])
    /\ Proposer \subseteq Account /\ Asked \subseteq [Account -> Nat] /\ Delays \subseteq Nat
    /\ Drafts \subseteq Updates
    /\ \A u \in Updates : u.account \in Account /\ IsAuthority(u.auth)
    /\ {Lifetime, MaxTime, MaxChanges} \subseteq Nat

VARIABLES table,      \* the authority of each account
          proposal,   \* the tables proposals and approvals of the contract
          deferred,   \* generated transactions of the contract, by sender_id
          now,        \* the time of the block
          updates,    \* updates by the accounts themselves so far
          serial,     \* history: proposals made so far
          consent     \* history: approvals of each proposal given and not withdrawn, until it is executed

vars == <<table, proposal, deferred, now, updates, serial, consent>>

Transaction == [account : Account, auth : {u.auth : u \in Drafts}, delay : Delays, expiration : Nat]
\* A vector of permission levels, which may name one twice: how often it names
\* each.  The order has no effect, and what is read of it is a flat_set.
Levels == [Account -> Nat]
Named(levels) == {a \in Account : levels[a] > 0}
Nobody == [a \in Account |-> 0]
Proposal == [trx : Transaction, requested : Levels, provided : Levels, serial : 1 .. MaxChanges]
Id == Proposer \X Name

TypeOK ==
    /\ IsTable(table) /\ \A a \in Account : Valid(table[a])
    /\ DOMAIN proposal \subseteq Id /\ \A i \in DOMAIN proposal : proposal[i] \in Proposal
    /\ DOMAIN deferred \subseteq Id
    /\ \A i \in DOMAIN deferred :
          deferred[i] \in [trx : Transaction, delay_until : Nat, serial : 1 .. MaxChanges]
    /\ now \in 0 .. MaxTime /\ {updates, serial, updates + serial} \subseteq 0 .. MaxChanges
    /\ consent \in [1 .. MaxChanges -> Levels]

Init ==
    /\ table = Initial /\ proposal = <<>> /\ deferred = <<>> /\ now = 0 /\ updates = 0
    /\ serial = 0 /\ consent = [n \in 1 .. MaxChanges |-> Nobody]

-----------------------------------------------------------------------------
Without(f, i) == [j \in DOMAIN f \ {i} |-> f[j]]

\* A transaction declares the authority of a and some keys sign it.
require_auth(a) == \E keys \in SUBSET Key : check_authorization(table, {a}, keys, {}, 0)

\* What the permissions in S, and no keys, may do.
check_transaction_authorization(trx, S) ==
    check_authorization(table, {trx.account}, {}, S, trx.delay)

propose(i, requested, trx) ==
    /\ updates + serial < MaxChanges
    /\ trx.expiration >= now /\ i \notin DOMAIN proposal
    /\ require_auth(i[1])
    /\ check_transaction_authorization(trx, Named(requested))
    /\ serial' = serial + 1
    /\ proposal' = Put(proposal, i, [trx |-> trx, requested |-> requested, provided |-> Nobody,
                                    serial |-> serial + 1])
    /\ UNCHANGED <<table, deferred, now, updates, consent>>

approve(i, level) ==
    /\ i \in DOMAIN proposal /\ proposal[i].requested[level] > 0
    /\ require_auth(level)
    /\ proposal' = [proposal EXCEPT ![i].provided[level] = @ + 1,
                                    ![i].requested[level] = @ - 1]
    /\ consent' = [consent EXCEPT ![proposal[i].serial][level] = @ + 1]
    /\ UNCHANGED <<table, deferred, now, updates, serial>>

\* Mutant: the approval is requested again and stays.
Withdrawn_kept(p, level) == [p EXCEPT !.requested[level] = @ + 1]

Withdrawn(p, level) ==
    [p EXCEPT !.requested[level] = @ + 1, !.provided[level] = @ - 1]

unapprove(i, level) ==
    /\ i \in DOMAIN proposal /\ proposal[i].provided[level] > 0
    /\ require_auth(level)
    /\ proposal' = [proposal EXCEPT ![i] = Withdrawn(@, level)]
    /\ consent' = [consent EXCEPT ![proposal[i].serial][level] = @ - 1]
    /\ UNCHANGED <<table, deferred, now, updates, serial>>

cancel(i, canceler) ==
    /\ i \in DOMAIN proposal
    /\ canceler = i[1] \/ proposal[i].trx.expiration < now
    /\ require_auth(canceler)
    /\ proposal' = Without(proposal, i)
    /\ consent' = [consent EXCEPT ![proposal[i].serial] = Nobody]
    /\ UNCHANGED <<table, deferred, now, updates, serial>>

\* Mutant: a transaction that waits is replaced.
MaySchedule_replace(i) == TRUE

\* schedule_deferred_transaction does not replace one of the same sender_id.
MaySchedule(i) == i \notin DOMAIN deferred

exec(i) ==
    /\ i \in DOMAIN proposal
    /\ \E executer \in Account : require_auth(executer)
    /\ proposal[i].trx.expiration >= now
    /\ check_transaction_authorization(proposal[i].trx, Named(proposal[i].provided))
    /\ MaySchedule(i)
    /\ deferred' = Put(deferred, i, [trx |-> proposal[i].trx,
                                    delay_until |-> now + proposal[i].trx.delay,
                                    serial |-> proposal[i].serial])
    /\ proposal' = Without(proposal, i)
    /\ consent' = [consent EXCEPT ![proposal[i].serial] = Nobody]
    /\ UNCHANGED <<table, now, updates, serial>>

\* apply_system_native_updateauth
Updated(a, auth) == IF Valid(auth) THEN [table EXCEPT ![a] = auth] ELSE table

\* A deferred transaction is due; no authority is checked, and one that fails
\* is retired as well.
push_scheduled_transaction(i) ==
    /\ i \in DOMAIN deferred /\ deferred[i].delay_until <= now
    /\ deferred' = Without(deferred, i)
    /\ table' = Updated(deferred[i].trx.account, deferred[i].trx.auth)
    /\ UNCHANGED <<proposal, now, updates, serial, consent>>

updateauth(a, auth) ==
    /\ updates + serial < MaxChanges /\ updates' = updates + 1
    /\ require_auth(a) /\ Valid(auth)
    /\ table' = Updated(a, auth)
    /\ UNCHANGED <<proposal, deferred, now, serial, consent>>

Tick ==
    /\ now < MaxTime /\ now' = now + 1
    /\ UNCHANGED <<table, proposal, deferred, updates, serial, consent>>

Next ==
    \/ \E i \in Id :
        \/ \E S \in Asked, u \in Drafts, d \in Delays :
              propose(i, S, [account |-> u.account, auth |-> u.auth, delay |-> d,
                             expiration |-> now + Lifetime])
        \/ \E a \in Account : approve(i, a) \/ unapprove(i, a) \/ cancel(i, a)
        \/ exec(i) \/ push_scheduled_transaction(i)
    \/ \E u \in Updates : updateauth(u.account, u.auth)
    \/ Tick

Spec == Init /\ [][Next]_vars

-----------------------------------------------------------------------------
(* Properties. *)

Accepted(t, keys, perms, delay) == {a \in Account : Accepts(t, a, keys, perms, delay)}

\* Whatever authorities the accounts give each other, round a circle too, the
\* checker accepts nobody who could not show the weight: its cache, shared by
\* all branches of the recursion, never counts an account for itself.  (What the
\* checker says depends on the authorities only, and proposals lead to none that
\* the accounts could not choose themselves.)
CheckerSound ==
    /\ TypeOK
    /\ serial = 0 => \A k \in SUBSET Key, p \in SUBSET Account, d \in Delays :
          Accepted(table, k, p, d) \subseteq Granted(table, k, p, d)

\* Where no account refers back to itself and max_authority_depth is not
\* exceeded, the checker accepts everybody it should: stopping at the threshold,
\* the order by weight and what the cache says of accounts seen before do not
\* lose an authority.
CheckerComplete ==
    serial = 0 /\ Shallow(table) => \A k \in SUBSET Key, p \in SUBSET Account, d \in Delays :
        Granted(table, k, p, d) \subseteq Accepted(table, k, p, d)

\* The transactions a step adds to those that wait.
New == {i \in DOMAIN deferred' : i \notin DOMAIN deferred \/ deferred'[i] # deferred[i]}

\* What exec sends has the consent of accounts who together could act for the
\* account at that moment, and has it once: approvals withdrawn as often as they
\* were given, given to an earlier proposal of the same name, used for a
\* transaction sent before, or no longer enough since an authority changed do
\* not count.  (An account that a proposal names twice can approve twice; when it
\* withdraws once, it still counts.)
SentConsented ==
    [][\A i \in New : deferred'[i].trx.account \in
          Granted(table, {}, Named(consent[deferred'[i].serial]), deferred'[i].trx.delay)]_vars

\* A transaction that waits for its delay is never replaced by the one of a new
\* proposal of the same name, which has the same sender_id, and leaves only when
\* it is due.
WaitsUntilDue ==
    [][\A i \in DOMAIN deferred :
          \/ i \in DOMAIN deferred' /\ deferred'[i] = deferred[i]
          \/ i \notin DOMAIN deferred' /\ deferred[i].delay_until <= now]_vars
================================================================================
