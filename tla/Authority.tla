------------------------------- MODULE Authority -------------------------------
(***************************************************************************)
(* Who may act for an account (authority_checker.hpp and                   *)
(* authorization_manager.cpp).  An account has one permission; its         *)
(* authority is a threshold and a set of factors with weights: keys that   *)
(* signed, accounts whose own authority is satisfied, and the seconds the  *)
(* transaction is delayed.                                                 *)
(***************************************************************************)
EXTENDS Integers, Sequences, FiniteSets, Functions, TLC

CONSTANTS Account,    \* account names, numbers in the order of the names
          Key,        \* public keys, numbers in their order
          MaxDepth    \* configuration.max_authority_depth

ASSUME AuthorityAssumption ==
    /\ IsFiniteSet(Account) /\ IsFiniteSet(Key) /\ Account \cup Key \subseteq Nat
    /\ MaxDepth \in Nat \ {0}

Kind == {"wait", "key", "account"}
Factor == [kind : Kind, what : Nat, weight : Nat]
IsAuthority(a) ==
    /\ DOMAIN a = {"threshold", "factors"} /\ a.threshold \in Nat
    /\ a.factors \subseteq Factor /\ IsFiniteSet(a.factors)

\* The authorities of all the accounts.
IsTable(t) == DOMAIN t = Account /\ \A a \in Account : IsAuthority(t[a])

Weights(F) == SumFunctionOnSet([f \in F |-> f.weight], F)

\* No two factors are the same key, account or wait, and together they suffice.
validate(a) ==
    /\ a.threshold > 0
    /\ \A f, g \in a.factors : f.kind = g.kind /\ f.what = g.what => f = g
    /\ \A f \in a.factors : f.kind = "wait" => f.what > 0
    /\ Weights(a.factors) >= a.threshold

\* The accounts exist.
validate_authority_precondition(a) ==
    \A f \in a.factors : f.kind = "account" => f.what \in Account

Valid(a) == validate(a) /\ validate_authority_precondition(a)

\* A map with an entry assigned.
Put(f, k, v) == [j \in DOMAIN f \cup {k} |-> IF j = k THEN v ELSE f[j]]

-----------------------------------------------------------------------------
(* authority_checker *)

\* meta_permission_comparator: heavy factors first; waits, keys, then accounts.
Rank == [wait |-> 1, key |-> 2, account |-> 3]
Precedes(f, g) ==
    \/ f.weight > g.weight
    \/ f.weight = g.weight /\ Rank[f.kind] < Rank[g.kind]
    \/ f.weight = g.weight /\ f.kind = g.kind /\ f.what < g.what
Sorted(F) ==
    [n \in 1 .. Cardinality(F) |->
        CHOOSE f \in F : Cardinality({g \in F : Precedes(g, f)}) = n - 1]

\* permission_cache_type
Status == {"being_evaluated", "unsatisfied", "satisfied"}
Cache == UNION {[known -> Status] : known \in SUBSET Account}

\* Mutant: an account that is being evaluated counts for itself.
Counts_loop(status) == status # "unsatisfied"

Counts(status) == status = "satisfied"

\* Mutant: one level less than the limit allows.
WithinLimit_less(depth) == depth + 1 < MaxDepth

WithinLimit(depth) == depth < MaxDepth

\* A question to the checker: whether an account that is so deep in the
\* recursion is satisfied, with what is known and the keys used before.
Question == [of : Account, depth : 0 .. MaxDepth, cache : Cache, used : SUBSET Key]

\* weight_tally_visitor: what the factor f adds to s, the weight, cache and keys
\* used so far; visit answers for the accounts one level deeper.
tally(visit, keys, delay, depth, s, f) ==
    CASE f.kind = "account" ->
           LET r == visit[[of |-> f.what, depth |-> depth + 1, cache |-> s.cache, used |-> s.used]]
           IN  [weight |-> s.weight + (IF r.ok THEN f.weight ELSE 0), cache |-> r.cache, used |-> r.used]
      [] f.kind = "key" /\ f.what \in keys ->
           [s EXCEPT !.weight = @ + f.weight, !.used = @ \cup {f.what}]
      [] f.kind = "wait" /\ f.what <= delay ->
           [s EXCEPT !.weight = @ + f.weight]
      [] OTHER -> s

\* The loop of satisfied over the factors, which ends at the threshold.
loop(visit, auth, keys, delay, x) ==
    LET factors == Sorted(auth.factors)
        run[n \in 0 .. Cardinality(auth.factors)] ==
            IF n = 0
            THEN [weight |-> 0, cache |-> Put(x.cache, x.of, "being_evaluated"), used |-> x.used]
            ELSE LET s == run[n - 1]
                 IN  IF s.weight >= auth.threshold THEN s
                     ELSE tally(visit, keys, delay, x.depth, s, factors[n])
    IN  run[Cardinality(auth.factors)]

\* Whether the account is satisfied, what was found out about the accounts on
\* the way, and the keys used: those used in vain for an authority that is not
\* satisfied do not count.
answer(visit, table, keys, delay, x) ==
    IF x.of \in DOMAIN x.cache
    THEN [ok |-> Counts(x.cache[x.of]), cache |-> x.cache, used |-> x.used]
    ELSE IF ~WithinLimit(x.depth)
    THEN [ok |-> FALSE, cache |-> x.cache, used |-> x.used]
    ELSE LET end == loop(visit, table[x.of], keys, delay, x)
             ok  == end.weight >= table[x.of].threshold
         IN  [ok    |-> ok,
              cache |-> Put(end.cache, x.of, IF ok THEN "satisfied" ELSE "unsatisfied"),
              used  |-> IF ok THEN end.used ELSE x.used]

satisfied(table, keys, delay, a, cache, used) ==
    LET visit[x \in Question] == answer(visit, table, keys, delay, x)
    IN  visit[[of |-> a, depth |-> 0, cache |-> cache, used |-> used]]

\* check_authorization: every declared account must be satisfied, each with a
\* cache of its own that begins with the permissions provided, and all the keys
\* provided must have been used.
check_authorization(table, declared, keys, provided, delay) ==
    LET known    == [a \in provided |-> "satisfied"]
        in_order == [n \in 1 .. Cardinality(declared) |->
                        CHOOSE a \in declared : Cardinality({b \in declared : b < a}) = n - 1]
        run[n \in 0 .. Cardinality(declared)] ==
            IF n = 0 THEN [ok |-> TRUE, used |-> {}]
            ELSE LET s == run[n - 1]
                     r == satisfied(table, keys, delay, in_order[n], known, s.used)
                 IN  [ok |-> s.ok /\ r.ok, used |-> r.used]
        end == run[Cardinality(declared)]
    IN  end.ok /\ end.used = keys

-----------------------------------------------------------------------------
(* What the checker decides, without its order, its cache and its limit. *)

Held(f, keys, S, delay) ==
    CASE f.kind = "key"     -> f.what \in keys
      [] f.kind = "account" -> f.what \in S
      [] f.kind = "wait"    -> f.what <= delay

\* The accounts that act, found in rounds: first the provided ones, then those
\* who show the weight with the accounts found before.
Granted(table, keys, provided, delay) ==
    LET acts[n \in 0 .. Cardinality(Account)] ==
            IF n = 0 THEN provided
            ELSE LET S == acts[n - 1]
                 IN  S \cup {a \in Account :
                         Weights({f \in table[a].factors : Held(f, keys, S, delay)})
                             >= table[a].threshold}
    IN  acts[Cardinality(Account)]

\* No account refers to itself, and no chain of references is longer than the limit.
Shallow(table) ==
    \E height \in [Account -> 0 .. MaxDepth - 1] :
        \A a \in Account : \A f \in table[a].factors :
            f.kind = "account" => height[f.what] < height[a]

Accepts(table, a, keys, provided, delay) ==
    satisfied(table, keys, delay, a, [p \in provided |-> "satisfied"], {}).ok
================================================================================
