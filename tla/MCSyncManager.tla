----------------------------- MODULE MCSyncManager -----------------------------
(* Instances of SyncManager: node 1 is behind and dials the others. *)
EXTENDS SyncManager, TLC

MCNodes == {1, 2, 3}
MCDials == {<<1, 2>>, <<1, 3>>}
MCInitHead == (1 :> 2) @@ (2 :> 5) @@ (3 :> 5)

\* Node 2 is ahead by a block that is not irreversible, node 3 by more.
UnequalHeads == (1 :> 2) @@ (2 :> 3) @@ (3 :> 5)
================================================================================
