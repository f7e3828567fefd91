----------------------------- MODULE MCDposHeader -----------------------------
(***************************************************************************)
(* Schedules for the module DposHeader.                                    *)
(***************************************************************************)
EXTENDS DposHeader

Three     == <<"p1", "p2", "p3">>
Four      == <<"p1", "p2", "p3", "p4">>

\* One producer of four is replaced, and may come back; a schedule of four loses
\* a producer.
Fours     == {Four, <<"p1", "p2", "p5", "p3">>}
Shrunk    == {Three}

===============================================================================
