--------------------------- MODULE VersionedTable ---------------------------
(***************************************************************************)
(* What a chainbase table promises its callers, stated without an undo     *)
(* log: the table is a stack of complete versions.  Opening a session      *)
(* pushes a copy of the table, undo returns to the copy on top, squash     *)
(* forgets the copy on top, commit forgets copies at the bottom.           *)
(* Module UndoIndex, which keeps differences instead of copies, implements *)
(* this specification.                                                     *)
(***************************************************************************)
EXTENDS Integers, Sequences

CONSTANTS Key, Data, Null, MaxId

VARIABLES rows, next_id, versions, revision

vvars == <<rows, next_id, versions, revision>>

VRow == [key : Key, data : Data]

VIds == 0 .. MaxId - 1

VInit ==
    /\ rows = [i \in VIds |-> Null]
    /\ next_id = 0
    /\ versions = <<>>
    /\ revision = 0

Create ==
    /\ next_id \in VIds
    /\ \E v \in VRow : rows' = [rows EXCEPT ![next_id] = v]
    /\ next_id' = next_id + 1
    /\ UNCHANGED <<versions, revision>>

Update ==
    /\ \E id \in VIds : rows[id] # Null /\ \E v \in VRow : rows' = [rows EXCEPT ![id] = v]
    /\ UNCHANGED <<next_id, versions, revision>>

Delete ==
    /\ \E id \in VIds : rows' = [rows EXCEPT ![id] = Null]
    /\ UNCHANGED <<next_id, versions, revision>>

Begin ==
    /\ versions' = Append(versions, [rows |-> rows, next_id |-> next_id])
    /\ revision' = revision + 1
    /\ UNCHANGED <<rows, next_id>>

DropLast == versions # <<>> /\ versions' = SubSeq(versions, 1, Len(versions) - 1)

Undo ==
    /\ DropLast
    /\ rows' = versions[Len(versions)].rows
    /\ next_id' = versions[Len(versions)].next_id
    /\ revision' = revision - 1

Squash ==
    /\ DropLast
    /\ revision' = revision - 1
    /\ UNCHANGED <<rows, next_id>>

\* The oldest versions are forgotten: exactly those of revisions up to r.  The
\* oldest version is the one that revision - Len(versions) + 1 would undo to.
Commit ==
    /\ \E r \in 0 .. revision :
         LET first == r - (revision - Len(versions)) + 1
         IN versions' = SubSeq(versions, IF first < 1 THEN 1 ELSE first, Len(versions))
    /\ UNCHANGED <<rows, next_id, revision>>

SetRevision ==
    /\ versions = <<>>
    /\ revision' \in Nat
    /\ UNCHANGED <<rows, next_id, versions>>

VNext == Create \/ Update \/ Delete \/ Begin \/ Undo \/ Squash \/ Commit \/ SetRevision

Spec == VInit /\ [][VNext]_vvars

=============================================================================
