---------------------------- MODULE MCTransactions ----------------------------
(***************************************************************************)
(* Transactions for the module Transactions.                               *)
(***************************************************************************)
EXTENDS Transactions

Plain == [expiration |-> 3, delay |-> 0, max_cpu |-> 0, payer |-> "user", cost |-> {1},
          asserts |-> FALSE, send |-> None, replace |-> FALSE, cancel |-> None,
          sender |-> None, handler |-> TRUE, handler_cost |-> {0}]

\* send and resend have the contract send ping, which may take longer than it
\* says; pong, which ping sends, always fails, and so does its handler; later
\* is delayed.
Deferred ==
    [send   |-> [Plain EXCEPT !.send = "ping", !.cost = {1, 2}],
     resend |-> [Plain EXCEPT !.send = "ping", !.replace = TRUE, !.cancel = "pong", !.expiration = 2,
                              !.cost = {2}],
     later  |-> [Plain EXCEPT !.delay = 1, !.payer = "dapp"],
     ping   |-> [Plain EXCEPT !.payer = "dapp", !.sender = "dapp", !.cost = {1, 3}, !.max_cpu = 2,
                              !.send = "pong"],
     pong   |-> [Plain EXCEPT !.payer = "dapp", !.sender = "dapp", !.asserts = TRUE, !.handler = FALSE]]

\* As above, but the handler of ping fails.
Failing == [Deferred EXCEPT !.ping.handler = FALSE]

Allowances == [a \in Account |-> IF a = "user" THEN 2 ELSE 5]
===============================================================================
