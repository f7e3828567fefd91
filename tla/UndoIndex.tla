------------------------------ MODULE UndoIndex ------------------------------
(***************************************************************************)
(* One chainbase table, generic_index<MultiIndexType>, with its undo       *)
(* stack (libraries/chainbase/include/chainbase/chainbase.hpp).            *)
(*                                                                         *)
(* Every piece of chain state lives in such tables.  The controller opens  *)
(* one undo session per block, one per transaction and one per             *)
(* speculative execution, and relies on undo, squash and commit to return  *)
(* to exactly the state of an earlier revision when a transaction fails or *)
(* a fork is abandoned.                                                    *)
(*                                                                         *)
(* A row is a unique secondary key together with its other fields.  The    *)
(* variable saved is a history variable: saved[i] is what the table held   *)
(* when the session of stack[i] was opened.  No action reads it to decide  *)
(* anything; it is what the undo stack is supposed to remember.            *)
(***************************************************************************)
EXTENDS Integers, Sequences, FiniteSets

CONSTANTS Key,          \* values of the unique secondary key
          Data,         \* values of the remaining fields of a row
          Null,         \* "no row"
          MaxId,        \* bound: ids 0 .. MaxId-1 can be allocated
          MaxDepth,     \* bound: undo states on the stack
          MaxRevision   \* bound: revision numbers

Row == [key : Key, data : Data]

ASSUME NullAssumption == Null \notin Row
ASSUME BoundAssumption == MaxId \in Nat /\ MaxDepth \in Nat /\ MaxRevision \in Nat

Ids == 0 .. MaxId - 1

Table == [Ids -> Row \cup {Null}]

VARIABLES rows,       \* _indices: the live rows, by id
          next_id,    \* _next_id
          stack,      \* _stack: the undo states, oldest first
          revision,   \* _revision
          unwinding,  \* TRUE while the loop of undo_all is running
          saved       \* history: the table at the start of each session

vars == <<rows, next_id, stack, revision, unwinding, saved>>

UndoState == [old_values : Table, removed_values : Table, new_ids : SUBSET Ids,
              old_next_id : Nat, revision : Nat]

Version == [rows : Table, next_id : Nat]

TypeOK ==
    /\ rows \in Table
    /\ next_id \in 0 .. MaxId
    /\ stack \in Seq(UndoState)
    /\ revision \in Nat
    /\ unwinding \in BOOLEAN
    /\ saved \in Seq(Version)

-----------------------------------------------------------------------------
Empty == [i \in Ids |-> Null]

enabled == stack # <<>>

Top == stack[Len(stack)]

\* The stack with its last undo state replaced.
SetTop(h) == [stack EXCEPT ![Len(stack)] = h]

Front(s) == SubSeq(s, 1, Len(s) - 1)

KeyTaken(table, k, id) == \E j \in Ids \ {id} : table[j] # Null /\ table[j].key = k

\* Mutant: every modification overwrites the recorded old value.
on_modify_last(h, id, v) ==
    IF id \in h.new_ids THEN h ELSE [h EXCEPT !.old_values[id] = v]

\* The first touch of a row in a session records the value it had.
on_modify(h, id, v) ==
    IF id \in h.new_ids \/ h.old_values[id] # Null
    THEN h
    ELSE [h EXCEPT !.old_values[id] = v]

\* Mutant: a row updated and then removed keeps its old value too.
on_remove_keeps_old(h, id, v) ==
    IF id \in h.new_ids THEN [h EXCEPT !.new_ids = @ \ {id}]
    ELSE IF h.old_values[id] # Null THEN [h EXCEPT !.removed_values[id] = h.old_values[id]]
    ELSE [h EXCEPT !.removed_values[id] = v]

on_remove(h, id, v) ==
    CASE id \in h.new_ids ->
            [h EXCEPT !.new_ids = @ \ {id}]
      [] id \notin h.new_ids /\ h.old_values[id] # Null ->
            [h EXCEPT !.removed_values[id] = h.old_values[id],
                      !.old_values[id] = Null]
      [] id \notin h.new_ids /\ h.old_values[id] = Null /\ h.removed_values[id] # Null ->
            h
      [] OTHER ->
            [h EXCEPT !.removed_values[id] = v]

on_create(h, id) == [h EXCEPT !.new_ids = @ \cup {id}]

\* The table undo() leaves behind: old values are put back, rows created in
\* the session are erased, removed rows are inserted again.
Restore(h, table) ==
    [i \in Ids |-> IF h.removed_values[i] # Null THEN h.removed_values[i]
                   ELSE IF i \in h.new_ids THEN Null
                   ELSE IF h.old_values[i] # Null THEN h.old_values[i]
                   ELSE table[i]]

\* undo() puts the old values back one row at a time, in id order, before the
\* new rows are erased.  The table just before row id is put back:
RestoredBelow(h, table, id) ==
    [i \in Ids |-> IF i < id /\ h.old_values[i] # Null THEN h.old_values[i] ELSE table[i]]

\* Putting row id back collides with another row: multi_index erases the row
\* it was asked to modify and undo() throws, halfway through.
RestoreCollides(h, table, id) ==
    /\ h.old_values[id] # Null
    /\ KeyTaken(RestoredBelow(h, table, id), h.old_values[id].key, id)

\* Mutant: upd + upd keeps the later old value.
MergeLater(prev, state) ==
    [prev EXCEPT !.new_ids = @ \cup state.new_ids,
                 !.old_values = [i \in Ids |-> IF state.old_values[i] # Null /\ i \notin prev.new_ids
                                               THEN state.old_values[i] ELSE @[i]],
                 !.removed_values = [i \in Ids |-> IF @[i] # Null THEN @[i]
                                                   ELSE state.removed_values[i]]]

\* squash(): prev becomes the composition of prev and state, the two most
\* recent undo states.
Merge(prev, state) ==
    LET upd == [i \in Ids |->
                  IF /\ state.old_values[i] # Null
                     /\ i \notin prev.new_ids
                     /\ prev.old_values[i] = Null
                  THEN state.old_values[i] ELSE prev.old_values[i]]
        new == prev.new_ids \cup state.new_ids
        del == {i \in Ids : state.removed_values[i] # Null}
    IN  [new_ids |-> new \ del,
         old_values |-> [i \in Ids |-> IF i \in del \ new THEN Null ELSE upd[i]],
         removed_values |->
             [i \in Ids |-> IF i \in new \/ i \notin del \/ prev.removed_values[i] # Null
                            THEN prev.removed_values[i]
                            ELSE IF upd[i] # Null THEN upd[i]
                            ELSE state.removed_values[i]],
         old_next_id |-> prev.old_next_id,
         revision |-> prev.revision]

-----------------------------------------------------------------------------
Init ==
    /\ rows = Empty
    /\ next_id = 0
    /\ stack = <<>>
    /\ revision = 0
    /\ unwinding = FALSE
    /\ saved = <<>>

\* emplace throws, and changes nothing, when the key is taken.
emplace(v) ==
    /\ ~unwinding
    /\ next_id < MaxId
    /\ ~KeyTaken(rows, v.key, next_id)
    /\ rows' = [rows EXCEPT ![next_id] = v]
    /\ next_id' = next_id + 1
    /\ stack' = IF enabled THEN SetTop(on_create(Top, next_id)) ELSE stack
    /\ UNCHANGED <<revision, unwinding, saved>>

\* When the modifier makes the key collide, multi_index erases the row.
modify(id, v) ==
    /\ ~unwinding
    /\ rows[id] # Null
    /\ rows' = [rows EXCEPT ![id] = IF KeyTaken(rows, v.key, id) THEN Null ELSE v]
    /\ stack' = IF enabled THEN SetTop(on_modify(Top, id, rows[id])) ELSE stack
    /\ UNCHANGED <<next_id, revision, unwinding, saved>>

remove(id) ==
    /\ ~unwinding
    /\ rows[id] # Null
    /\ rows' = [rows EXCEPT ![id] = Null]
    /\ stack' = IF enabled THEN SetTop(on_remove(Top, id, rows[id])) ELSE stack
    /\ UNCHANGED <<next_id, revision, unwinding, saved>>

start_undo_session ==
    /\ ~unwinding
    /\ Len(stack) < MaxDepth /\ revision < MaxRevision
    /\ stack' = Append(stack, [old_values |-> Empty, removed_values |-> Empty,
                               new_ids |-> {}, old_next_id |-> next_id,
                               revision |-> revision + 1])
    /\ revision' = revision + 1
    /\ saved' = Append(saved, [rows |-> rows, next_id |-> next_id])
    /\ UNCHANGED <<rows, next_id, unwinding>>

\* undo() gets through the loop that puts old values back: it finds every row
\* whose old value it puts back, and no such row collides with another.  That
\* the loops after it find the new rows and meet no collision is in IInv.
Restorable(h, table) ==
    \A id \in Ids : /\ h.old_values[id] # Null => table[id] # Null
                    /\ ~RestoreCollides(h, table, id)

UndoTop ==
    /\ enabled
    /\ Restorable(Top, rows)
    /\ rows' = Restore(Top, rows)
    /\ next_id' = Top.old_next_id
    /\ stack' = Front(stack)
    /\ revision' = revision - 1
    /\ saved' = Front(saved)

undo == ~unwinding /\ UndoTop /\ UNCHANGED unwinding

squash ==
    /\ ~unwinding
    /\ enabled
    /\ stack' = IF Len(stack) = 1 THEN <<>>
                ELSE [Front(stack) EXCEPT ![Len(stack) - 1] = Merge(@, Top)]
    /\ revision' = revision - 1
    /\ saved' = Front(saved)
    /\ UNCHANGED <<rows, next_id, unwinding>>

\* commit(r) drops the longest prefix of undo states whose revisions are at
\* most r.
Committed(r, n) ==
    /\ \A i \in 1 .. n : stack[i].revision <= r
    /\ n < Len(stack) => stack[n + 1].revision > r

commit(r) ==
    /\ ~unwinding
    /\ \E n \in 1 .. Len(stack) :
         /\ Committed(r, n)
         /\ stack' = SubSeq(stack, n + 1, Len(stack))
         /\ saved' = SubSeq(saved, n + 1, Len(saved))
    /\ UNCHANGED <<rows, next_id, revision, unwinding>>

\* undo_all() calls undo() until the stack is empty.
undo_all ==
    /\ ~unwinding
    /\ enabled
    /\ unwinding' = TRUE
    /\ UNCHANGED <<rows, next_id, stack, revision, saved>>

undo_all_step == unwinding /\ UndoTop /\ UNCHANGED unwinding

undo_all_done ==
    /\ unwinding
    /\ ~enabled
    /\ unwinding' = FALSE
    /\ UNCHANGED <<rows, next_id, stack, revision, saved>>

\* Throws unless the stack is empty.
set_revision(r) ==
    /\ ~unwinding
    /\ ~enabled
    /\ revision' = r
    /\ UNCHANGED <<rows, next_id, stack, unwinding, saved>>

SessionNext ==
    \/ start_undo_session
    \/ undo
    \/ squash
    \/ \E r \in 0 .. MaxRevision : commit(r) \/ set_revision(r)
    \/ undo_all
    \/ undo_all_step
    \/ undo_all_done

\* The chain's own use: a modifier never assigns a field of a unique index.  (The
\* interface allows it; undo may then collide with a row it has not put back yet,
\* and throw halfway.)
SameKey(id, v) == rows[id] # Null /\ rows[id].key = v.key

Next ==
    \/ \E v \in Row : emplace(v)
    \/ \E id \in Ids, v \in Row : SameKey(id, v) /\ modify(id, v)
    \/ \E id \in Ids : remove(id)
    \/ SessionNext

Spec == Init /\ [][Next]_vars

-----------------------------------------------------------------------------
\* What the table held when the session after stack[i] was opened, or holds
\* now when stack[i] is the last.
After(i) == IF i = Len(stack) THEN [rows |-> rows, next_id |-> next_id] ELSE saved[i + 1]

\* Row j's part in undo state h, which leads from table s back from table t:
\* the four relations of the comment in squash() and nothing else.
RowNew(h, s, t, j) == /\ j \in h.new_ids /\ h.old_values[j] = Null /\ h.removed_values[j] = Null
                      /\ s[j] = Null /\ t[j] # Null /\ j >= h.old_next_id
RowUpd(h, s, t, j) == /\ j \notin h.new_ids /\ h.old_values[j] = s[j] /\ h.removed_values[j] = Null
                      /\ s[j] # Null /\ t[j] # Null /\ s[j].key = t[j].key
RowDel(h, s, t, j) == /\ j \notin h.new_ids /\ h.old_values[j] = Null /\ h.removed_values[j] = s[j]
                      /\ s[j] # Null /\ t[j] = Null
RowNop(h, s, t, j) == /\ j \notin h.new_ids /\ h.old_values[j] = Null /\ h.removed_values[j] = Null
                      /\ s[j] = t[j]

Describes(h, s, t) ==
    \A j \in Ids : RowNew(h, s, t, j) \/ RowUpd(h, s, t, j) \/ RowDel(h, s, t, j) \/ RowNop(h, s, t, j)

\* The undo stack remembers every version: each undo state is exactly the
\* difference between the table when its session began and when the next one
\* did (generic_index::on_create, on_modify, on_remove and squash).
StackDescribesHistory ==
    /\ Len(saved) = Len(stack)
    /\ \A i \in 1 .. Len(stack) :
          /\ Describes(stack[i], saved[i].rows, After(i).rows)
          /\ stack[i].old_next_id = saved[i].next_id

\* Ids are allocated upwards and never handed out twice within the history
\* that undo can still return to (_next_id and undo_state::old_next_id).
Fresh(v) == v.next_id \in 0 .. MaxId /\ \A j \in Ids : j >= v.next_id => v.rows[j] = Null

IdsFresh ==
    /\ Fresh([rows |-> rows, next_id |-> next_id])
    /\ \A i \in 1 .. Len(saved) : Fresh(saved[i]) /\ saved[i].next_id <= After(i).next_id

\* The revisions on the stack are consecutive and end at the table's own
\* revision, so that "undo to block n" and "commit block n" name the same
\* state in every table (undo_stack_revision_range, used by add_index).
RevisionsConsecutive ==
    /\ Len(stack) <= revision
    /\ \A i \in 1 .. Len(stack) : stack[i].revision = revision - Len(stack) + i

\* No two live rows share the unique key, now or in any version that undo can
\* return to.
Distinct(table) ==
    \A i, j \in Ids : i # j /\ table[i] # Null /\ table[j] # Null => table[i].key # table[j].key

KeysUnique == Distinct(rows) /\ \A i \in 1 .. Len(saved) : Distinct(saved[i].rows)

\* undo() never dereferences the end iterator and never throws when it puts old
\* values back, leaving part of them in place; IInv says the same of the rows it
\* erases and inserts after that (RowNew, KeysUnique).
UndoTotal == enabled => Restorable(Top, rows)

\* The five conjuncts together are inductive: what an undo state must say about
\* every row for undo and squash to be exact, in every session still open.
IInv ==
    /\ TypeOK
    /\ StackDescribesHistory
    /\ IdsFresh
    /\ RevisionsConsecutive
    /\ KeysUnique

\* What the table promises: a stack of versions (module VersionedTable).
Versions == INSTANCE VersionedTable WITH versions <- saved

ImplementsVersions == Versions!Spec

=============================================================================
