------------------------------ MODULE MCFinality ------------------------------
(***************************************************************************)
(* Chains for the module Finality.                                         *)
(***************************************************************************)
EXTENDS Finality

Two     == <<"p1", "p2">>
Three   == <<"p1", "p2", "p3">>
Four    == <<"p1", "p2", "p3", "p4">>

\* Four producers at work.
Steady  == [first |-> Four, next |-> <<>>, at |-> 0, length |-> 12]

\* The next block installs a producer: in the place of another, or as a third.
Replace == [first |-> Four, next |-> <<"p1", "p2", "p5", "p3">>, at |-> 10, length |-> 18]
Grow    == [first |-> Two, next |-> Three, at |-> 5, length |-> 9]

All     == {Steady, Replace, Grow}

===============================================================================
