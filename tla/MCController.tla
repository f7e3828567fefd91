----------------------------- MODULE MCController -----------------------------
(***************************************************************************)
(* Block trees for the module Controller.                                  *)
(***************************************************************************)
EXTENDS Controller

\* A tree from a list of <<block, parent, number, irreversible number>>.
BlocksOf(t)  == {r[1] : r \in t}
ParentOf(t)  == [b \in BlocksOf(t) |-> (CHOOSE r \in t : r[1] = b)[2]]
NumOf(t)     == [b \in BlocksOf(t) |-> (CHOOSE r \in t : r[1] = b)[3]]
LibOf(t)     == [b \in BlocksOf(t) |-> (CHOOSE r \in t : r[1] = b)[4]]

\* Branches a and b fork at p4, c off a at a5.  They tie at 5 and 6, a
\* leads from 7 on and makes its own blocks irreversible.  Two bad blocks are
\* the best known for a while: x8 at the end of b, y6 with c7 built on it.
Fork == {<<"g", "g", 1, 0>>, <<"p2", "g", 2, 1>>, <<"p3", "p2", 3, 2>>, <<"p4", "p3", 4, 3>>,
         <<"a5", "p4", 5, 3>>, <<"a6", "a5", 6, 3>>, <<"a7", "a6", 7, 4>>,
         <<"a8", "a7", 8, 5>>, <<"a9", "a8", 9, 7>>,
         <<"b5", "p4", 5, 3>>, <<"b6", "b5", 6, 3>>, <<"b7", "b6", 7, 3>>, <<"x8", "b7", 8, 3>>,
         <<"y6", "a5", 6, 3>>, <<"c7", "y6", 7, 3>>}
ForkBlock  == BlocksOf(Fork)
ForkParent == ParentOf(Fork)
ForkNum    == NumOf(Fork)
ForkLib    == LibOf(Fork)

\* No two blocks rank the same; the bad block x6, with a block built on it,
\* races the valid branch a.
Race == {<<"g", "g", 1, 0>>, <<"p2", "g", 2, 1>>, <<"p3", "p2", 3, 2>>, <<"p4", "p3", 4, 3>>,
         <<"a5", "p4", 5, 4>>, <<"a6", "a5", 6, 4>>, <<"a7", "a6", 7, 4>>, <<"a8", "a7", 8, 5>>,
         <<"b5", "p4", 5, 3>>, <<"x6", "b5", 6, 3>>, <<"c7", "x6", 7, 3>>}
RaceBlock  == BlocksOf(Race)
RaceParent == ParentOf(Race)
RaceNum    == NumOf(Race)
RaceLib    == LibOf(Race)

===============================================================================
