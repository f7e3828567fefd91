-------------------------------- MODULE MCMsig --------------------------------
(* Instances of Msig: three accounts, two keys. *)
EXTENDS Msig

Auth(threshold, factors) == [threshold |-> threshold, factors |-> factors]
ByKey(k, w) == [kind |-> "key", what |-> k, weight |-> w]
ByAccount(a, w) == [kind |-> "account", what |-> a, weight |-> w]
AfterWait(s, w) == [kind |-> "wait", what |-> s, weight |-> w]

\* Accounts 1 and 2 sign with their keys; both must agree to act for 3.
MCInitial ==
    (1 :> Auth(1, {ByKey(1, 1)})) @@ (2 :> Auth(1, {ByKey(2, 1)})) @@
    (3 :> Auth(2, {ByAccount(1, 1), ByAccount(2, 1)}))

\* Accounts come to trust each other, in circles and in chains too deep for the
\* checker, or a delay.
MCDrafts ==
    {[account |-> 3, auth |-> Auth(1, {ByAccount(2, 1)})],
     [account |-> 3, auth |-> Auth(2, {ByAccount(1, 1), ByAccount(2, 1), AfterWait(1, 1)})]}
MCUpdates ==
    MCDrafts \cup
    {[account |-> 1, auth |-> Auth(1, {ByKey(1, 1), ByAccount(3, 1)})],
     [account |-> 1, auth |-> Auth(2, {ByKey(1, 1), ByKey(2, 1)})],
     [account |-> 2, auth |-> Auth(2, {ByKey(2, 1), ByAccount(1, 2), ByAccount(3, 1)})],
     [account |-> 2, auth |-> Auth(2, {ByKey(2, 1), AfterWait(1, 1)})],
     [account |-> 2, auth |-> Auth(3, {ByKey(2, 1), ByAccount(1, 1)})]}

\* Whose approval is asked for; the last list names account 1 twice.
Once(S) == [a \in Account |-> IF a \in S THEN 1 ELSE 0]
MCAsked == {Once({1, 2}), Once({2, 3}), [Once({1, 2}) EXCEPT ![1] = 2]}
================================================================================
