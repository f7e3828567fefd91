--------------------------- MODULE UndoIndexProofs ---------------------------
(***************************************************************************)
(* Proofs about module UndoIndex, for any keys, data and bounds: the undo  *)
(* log always describes the history (IInv), undo always runs to its end    *)
(* (UndoTotal), and a table with an undo log implements a stack of         *)
(* versions (VersionedTable).                                              *)
(***************************************************************************)
EXTENDS UndoIndex, SequenceTheorems, TLAPS

-----------------------------------------------------------------------------
(* Facts about the operators on undo states.                               *)

\* Undoing from t with an undo state that describes the way from s to t gives s
\* back, row by row (generic_index::undo).
LEMMA RestoreGivesBack ==
    ASSUME NEW h \in UndoState, NEW s \in Table, NEW t \in Table, Describes(h, s, t)
    PROVE  Restore(h, t) = s
<1>1. Restore(h, t) \in [Ids -> Row \cup {Null}]
  BY DEF Restore, UndoState, Table
<1>2. ASSUME NEW j \in Ids PROVE Restore(h, t)[j] = s[j]
  BY <1>2 DEF Restore, Describes, RowNew, RowUpd, RowDel, RowNop
<1> QED
  BY <1>1, <1>2 DEF Table

\* Undo neither misses a row nor collides while it puts the old values back,
\* because no session changes a row's unique key.
LEMMA DescribedIsRestorable ==
    ASSUME NEW h \in UndoState, NEW s \in Table, NEW t \in Table,
           Describes(h, s, t), Distinct(t)
    PROVE  Restorable(h, t)
<1> SUFFICES ASSUME NEW id \in Ids, h.old_values[id] # Null
             PROVE  t[id] # Null /\ ~RestoreCollides(h, t, id)
  BY DEF Restorable, RestoreCollides
<1>1. /\ t[id] # Null
      /\ h.old_values[id].key = t[id].key
  BY DEF Describes, RowNew, RowUpd, RowDel, RowNop
<1>2. ASSUME NEW j \in Ids, RestoredBelow(h, t, id)[j] # Null
      PROVE  t[j] # Null /\ RestoredBelow(h, t, id)[j].key = t[j].key
  BY <1>2 DEF RestoredBelow, Describes, RowNew, RowUpd, RowDel, RowNop
<1> QED
  BY <1>1, <1>2 DEF RestoreCollides, KeyTaken, Distinct

\* The three hooks keep the undo state of the current session exact.
LEMMA OnCreateDescribes ==
    ASSUME NEW h \in UndoState, NEW s \in Table, NEW t \in Table,
           NEW id \in Ids, NEW v \in Row,
           Describes(h, s, t), s[id] = Null, t[id] = Null, id >= h.old_next_id
    PROVE  /\ on_create(h, id) \in UndoState
           /\ on_create(h, id).old_next_id = h.old_next_id
           /\ on_create(h, id).revision = h.revision
           /\ Describes(on_create(h, id), s, [t EXCEPT ![id] = v])
<1>1. on_create(h, id) = [old_values |-> h.old_values, removed_values |-> h.removed_values,
                          new_ids |-> h.new_ids \cup {id}, old_next_id |-> h.old_next_id,
                          revision |-> h.revision]
  BY DEF on_create, UndoState
<1> QED
  BY <1>1, NullAssumption DEF UndoState, Table, Describes, RowNew, RowUpd, RowDel, RowNop

LEMMA OnModifyDescribes ==
    ASSUME NEW h \in UndoState, NEW s \in Table, NEW t \in Table,
           NEW id \in Ids, NEW v \in Row,
           Describes(h, s, t), t[id] # Null, t[id].key = v.key
    PROVE  /\ on_modify(h, id, t[id]) \in UndoState
           /\ on_modify(h, id, t[id]).old_next_id = h.old_next_id
           /\ on_modify(h, id, t[id]).revision = h.revision
           /\ Describes(on_modify(h, id, t[id]), s, [t EXCEPT ![id] = v])
<1>1. CASE id \in h.new_ids \/ h.old_values[id] # Null
  <2>1. on_modify(h, id, t[id]) = h
    BY <1>1 DEF on_modify
  <2> QED
    BY <1>1, <2>1, NullAssumption DEF Table, Describes, RowNew, RowUpd, RowDel, RowNop
<1>2. CASE id \notin h.new_ids /\ h.old_values[id] = Null
  <2>1. on_modify(h, id, t[id]) =
          [old_values |-> [h.old_values EXCEPT ![id] = t[id]],
           removed_values |-> h.removed_values, new_ids |-> h.new_ids,
           old_next_id |-> h.old_next_id, revision |-> h.revision]
    BY <1>2 DEF on_modify, UndoState
  <2>2. [h.old_values EXCEPT ![id] = t[id]] \in Table
    BY DEF UndoState, Table
  <2>3. RowNop(h, s, t, id)
    BY <1>2 DEF Describes, RowNew, RowUpd, RowDel, RowNop
  <2> QED
    BY <1>2, <2>1, <2>2, <2>3, NullAssumption
    DEF UndoState, Table, Describes, RowNew, RowUpd, RowDel, RowNop
<1> QED
  BY <1>1, <1>2

LEMMA OnRemoveDescribes ==
    ASSUME NEW h \in UndoState, NEW s \in Table, NEW t \in Table,
           NEW id \in Ids, Describes(h, s, t), t[id] # Null
    PROVE  /\ on_remove(h, id, t[id]) \in UndoState
           /\ on_remove(h, id, t[id]).old_next_id = h.old_next_id
           /\ on_remove(h, id, t[id]).revision = h.revision
           /\ Describes(on_remove(h, id, t[id]), s, [t EXCEPT ![id] = Null])
<1>1. CASE id \in h.new_ids
  <2>1. on_remove(h, id, t[id]) =
          [old_values |-> h.old_values, removed_values |-> h.removed_values,
           new_ids |-> h.new_ids \ {id},
           old_next_id |-> h.old_next_id, revision |-> h.revision]
    BY <1>1 DEF on_remove, UndoState
  <2> QED
    BY <1>1, <2>1 DEF UndoState, Table, Describes, RowNew, RowUpd, RowDel, RowNop
<1>2. CASE id \notin h.new_ids /\ h.old_values[id] # Null
  <2>1. on_remove(h, id, t[id]) =
          [old_values |-> [h.old_values EXCEPT ![id] = Null],
           removed_values |-> [h.removed_values EXCEPT ![id] = h.old_values[id]],
           new_ids |-> h.new_ids,
           old_next_id |-> h.old_next_id, revision |-> h.revision]
    BY <1>2 DEF on_remove, UndoState
  <2>2. [h.old_values EXCEPT ![id] = Null] \in Table
    BY DEF UndoState, Table
  <2>3. [h.removed_values EXCEPT ![id] = h.old_values[id]] \in Table
    BY DEF UndoState, Table
  <2>4. RowUpd(h, s, t, id)
    BY <1>2 DEF Describes, RowNew, RowUpd, RowDel, RowNop
  <2> QED
    BY <1>2, <2>1, <2>2, <2>3, <2>4
    DEF UndoState, Table, Describes, RowNew, RowUpd, RowDel, RowNop
<1>3. CASE id \notin h.new_ids /\ h.old_values[id] = Null
  <2>1. RowNop(h, s, t, id)
    BY <1>3 DEF Describes, RowNew, RowUpd, RowDel, RowNop
  <2>2. on_remove(h, id, t[id]) =
          [old_values |-> h.old_values,
           removed_values |-> [h.removed_values EXCEPT ![id] = t[id]],
           new_ids |-> h.new_ids,
           old_next_id |-> h.old_next_id, revision |-> h.revision]
    BY <1>3, <2>1 DEF on_remove, UndoState, RowNop
  <2>3. [h.removed_values EXCEPT ![id] = t[id]] \in Table
    BY DEF UndoState, Table
  <2> QED
    BY <1>3, <2>1, <2>2, <2>3
    DEF UndoState, Table, Describes, RowNew, RowUpd, RowDel, RowNop
<1> QED
  BY <1>1, <1>2, <1>3

\* squash(): when no id is removed in the first session and created again in
\* the second, the merged undo state leads straight from s to t.
LEMMA MergeDescribes ==
    ASSUME NEW a \in UndoState, NEW b \in UndoState,
           NEW s \in Table, NEW m \in Table, NEW t \in Table,
           Describes(a, s, m), Describes(b, m, t),
           a.old_next_id <= b.old_next_id,
           \A j \in Ids : s[j] # Null /\ m[j] = Null => t[j] = Null
    PROVE  /\ Merge(a, b) \in UndoState
           /\ Merge(a, b).old_next_id = a.old_next_id
           /\ Merge(a, b).revision = a.revision
           /\ Describes(Merge(a, b), s, t)
<1> DEFINE upd == [i \in Ids |->
                     IF b.old_values[i] # Null /\ i \notin a.new_ids /\ a.old_values[i] = Null
                     THEN b.old_values[i] ELSE a.old_values[i]]
           new == a.new_ids \cup b.new_ids
           del == {i \in Ids : b.removed_values[i] # Null}
           old2 == [i \in Ids |-> IF i \in del \ new THEN Null ELSE upd[i]]
           rem2 == [i \in Ids |-> IF i \in new \/ i \notin del \/ a.removed_values[i] # Null
                                  THEN a.removed_values[i]
                                  ELSE IF upd[i] # Null THEN upd[i]
                                  ELSE b.removed_values[i]]
<1>1. Merge(a, b) = [old_values |-> old2, removed_values |-> rem2, new_ids |-> new \ del,
                     old_next_id |-> a.old_next_id, revision |-> a.revision]
  BY DEF Merge, UndoState
<1>2. upd \in Table /\ old2 \in Table /\ rem2 \in Table /\ new \in SUBSET Ids
  BY DEF UndoState, Table
<1>3. ASSUME NEW j \in Ids
      PROVE  LET g == Merge(a, b) IN
             RowNew(g, s, t, j) \/ RowUpd(g, s, t, j) \/ RowDel(g, s, t, j) \/ RowNop(g, s, t, j)
  <2>1. /\ Merge(a, b).old_values[j] = IF j \in del \ new THEN Null ELSE upd[j]
        /\ Merge(a, b).removed_values[j] =
             IF j \in new \/ j \notin del \/ a.removed_values[j] # Null
             THEN a.removed_values[j] ELSE IF upd[j] # Null THEN upd[j] ELSE b.removed_values[j]
        /\ Merge(a, b).new_ids = new \ del
    BY <1>1, <1>3
  <2>2. upd[j] = IF b.old_values[j] # Null /\ j \notin a.new_ids /\ a.old_values[j] = Null
                 THEN b.old_values[j] ELSE a.old_values[j]
    BY <1>3
  <2>3. j \in del <=> b.removed_values[j] # Null
    BY <1>3
  <2>4. RowNew(a, s, m, j) \/ RowUpd(a, s, m, j) \/ RowDel(a, s, m, j) \/ RowNop(a, s, m, j)
    BY <1>3 DEF Describes
  <2>5. RowNew(b, m, t, j) \/ RowUpd(b, m, t, j) \/ RowDel(b, m, t, j) \/ RowNop(b, m, t, j)
    BY <1>3 DEF Describes
  <2> HIDE DEF upd, del
  <2> QED
    BY <1>1, <1>3, <2>1, <2>2, <2>3, <2>4, <2>5 DEF RowNew, RowUpd, RowDel, RowNop, UndoState, Ids
<1> QED
  <2>1. Merge(a, b) \in UndoState
    <3> HIDE DEF upd, old2, rem2
    <3> QED BY <1>1, <1>2 DEF UndoState
  <2>2. Describes(Merge(a, b), s, t)
    <3> DEFINE g == Merge(a, b)
    <3>1. \A j \in Ids : RowNew(g, s, t, j) \/ RowUpd(g, s, t, j) \/ RowDel(g, s, t, j) \/ RowNop(g, s, t, j)
      BY <1>3
    <3> HIDE DEF g
    <3>2. Describes(g, s, t)
      BY <3>1, Zenon DEF Describes
    <3> QED
      BY <3>2 DEF g
  <2>3. Merge(a, b).old_next_id = a.old_next_id /\ Merge(a, b).revision = a.revision
    BY <1>1
  <2> QED
    BY <2>1, <2>2, <2>3

-----------------------------------------------------------------------------
(* The inductive invariant.                                                *)

\* An operation on a row changes the table and the undo state on top, if any.
LEMMA RowStep ==
    ASSUME IInv, NEW h \in UndoState, NEW r \in Table, NEW n \in 0 .. MaxId,
           rows' = r, next_id' = n, UNCHANGED <<revision, unwinding, saved>>,
           stack' = IF enabled THEN SetTop(h) ELSE stack,
           enabled => /\ Describes(h, saved[Len(stack)].rows, r)
                      /\ h.old_next_id = Top.old_next_id
                      /\ h.revision = Top.revision,
           next_id <= n, Fresh([rows |-> r, next_id |-> n]), Distinct(r)
    PROVE  IInv'
<1> USE DEF IInv, TypeOK
<1>1. stack' \in Seq(UndoState) /\ Len(stack') = Len(stack)
  BY DEF SetTop, enabled
<1>2. ASSUME NEW i \in 1 .. Len(stack)
      PROVE  stack'[i] = IF i = Len(stack) THEN h ELSE stack[i]
  BY <1>2 DEF SetTop, enabled
<1>3. TypeOK'
  BY <1>1
<1>4. StackDescribesHistory'
  BY <1>1, <1>2 DEF StackDescribesHistory, After, enabled, Top
<1>5. IdsFresh'
  <2>1. Fresh([rows |-> rows', next_id |-> next_id'])
    OBVIOUS
  <2>2. ASSUME NEW i \in 1 .. Len(saved)
        PROVE Fresh(saved'[i]) /\ saved'[i].next_id <= After(i)'.next_id
    <3>1. saved[i] \in Version /\ (i # Len(saved) => saved[i + 1] \in Version)
      BY <2>2
    <3>2. /\ Fresh(saved[i]) /\ saved[i].next_id <= After(i).next_id
          /\ Len(saved) = Len(stack)
      BY <2>2 DEF IdsFresh, StackDescribesHistory
    <3>3. After(i)' = IF i = Len(stack) THEN [rows |-> r, next_id |-> n] ELSE saved[i + 1]
      BY <1>1 DEF After
    <3> QED BY <3>1, <3>2, <3>3 DEF After, Version
  <2> QED BY <2>1, <2>2 DEF IdsFresh
<1>6. RevisionsConsecutive'
  BY <1>1, <1>2 DEF RevisionsConsecutive, enabled, Top
<1>7. KeysUnique'
  BY DEF KeysUnique
<1> QED BY <1>3, <1>4, <1>5, <1>6, <1>7

LEMMA EmplaceStep == ASSUME IInv, NEW v \in Row, emplace(v) PROVE IInv'
<1> USE DEF IInv, TypeOK
<1>1. next_id \in Ids /\ rows[next_id] = Null
  BY BoundAssumption DEF emplace, Ids, IdsFresh, Fresh
<1> DEFINE r == [rows EXCEPT ![next_id] = v]
           n == next_id + 1
           h == on_create(Top, next_id)
<1>2. r \in Table /\ n \in 0 .. MaxId /\ next_id <= n
  BY <1>1, BoundAssumption DEF Table, Ids
<1>3. Fresh([rows |-> r, next_id |-> n])
  BY <1>1, <1>2 DEF IdsFresh, Fresh, Table
<1>4. Distinct(r)
  BY <1>1 DEF emplace, KeysUnique, Distinct, KeyTaken, Table
<1>5. CASE enabled
  <2>1. Top \in UndoState /\ Len(stack) \in 1 .. Len(saved) /\ saved[Len(stack)] \in Version
    BY <1>5 DEF enabled, Top, StackDescribesHistory
  <2>2. Describes(Top, saved[Len(stack)].rows, rows)
    BY <2>1 DEF StackDescribesHistory, After, Top
  <2>3. saved[Len(stack)].rows[next_id] = Null
    BY <1>1, <2>1 DEF IdsFresh, Fresh, After, StackDescribesHistory, Version, Ids
  <2>4. next_id >= Top.old_next_id
    BY <2>1 DEF IdsFresh, After, StackDescribesHistory, Top
  <2>6. /\ h \in UndoState /\ h.old_next_id = Top.old_next_id /\ h.revision = Top.revision
        /\ Describes(h, saved[Len(stack)].rows, r)
    BY <1>1, <2>1, <2>2, <2>3, <2>4, OnCreateDescribes DEF Version
  <2> HIDE DEF h, r, n
  <2>5. rows' = r /\ next_id' = n /\ stack' = (IF enabled THEN SetTop(h) ELSE stack)
        /\ UNCHANGED <<revision, unwinding, saved>>
    BY DEF emplace, h, r, n
  <2> QED BY <1>2, <1>3, <1>4, <2>6, <2>5, RowStep
<1>6. CASE ~enabled
  <2> DEFINE e == [old_values |-> Empty, removed_values |-> Empty, new_ids |-> {},
                   old_next_id |-> 0, revision |-> 0]
  <2>1. e \in UndoState
    BY DEF UndoState, Table, Empty
  <2> HIDE DEF r, n, e
  <2>2. rows' = r /\ next_id' = n /\ stack' = (IF enabled THEN SetTop(e) ELSE stack)
        /\ UNCHANGED <<revision, unwinding, saved>>
    BY <1>6 DEF emplace, r, n
  <2> QED BY <1>2, <1>3, <1>4, <1>6, <2>1, <2>2, RowStep
<1> QED BY <1>5, <1>6

\* When a session is open, the undo state on top leads from the newest saved
\* version to the table as it is.
LEMMA TopDescribes ==
    ASSUME IInv, enabled
    PROVE  /\ Len(stack) \in 1 .. Len(saved) /\ Len(saved) = Len(stack)
           /\ Top \in UndoState /\ saved[Len(stack)] \in Version
           /\ Describes(Top, saved[Len(stack)].rows, rows)
           /\ Top.old_next_id = saved[Len(stack)].next_id
           /\ saved[Len(stack)].next_id <= next_id
           /\ Top.revision = revision
BY DEF IInv, TypeOK, enabled, Top, StackDescribesHistory, After, IdsFresh, RevisionsConsecutive

LEMMA ModifyStep ==
    ASSUME IInv, NEW id \in Ids, NEW v \in Row, SameKey(id, v), modify(id, v)
    PROVE  IInv'
<1> USE DEF IInv, TypeOK
<1> DEFINE r == [rows EXCEPT ![id] = v]
           h == on_modify(Top, id, rows[id])
           e == [old_values |-> Empty, removed_values |-> Empty, new_ids |-> {},
                 old_next_id |-> 0, revision |-> 0]
<1>1. rows[id] # Null /\ rows[id].key = v.key /\ ~KeyTaken(rows, v.key, id)
  BY DEF SameKey, KeysUnique, Distinct, KeyTaken
<1>2. r \in Table /\ Distinct(r) /\ Fresh([rows |-> r, next_id |-> next_id])
  BY <1>1 DEF Table, KeysUnique, Distinct, IdsFresh, Fresh
<1>3. rows' = r /\ next_id' = next_id /\ UNCHANGED <<revision, unwinding, saved>>
  BY <1>1 DEF modify
<1>4. CASE enabled
  <2>1. /\ h \in UndoState /\ h.old_next_id = Top.old_next_id /\ h.revision = Top.revision
        /\ Describes(h, saved[Len(stack)].rows, r)
    BY <1>1, <1>4, TopDescribes, OnModifyDescribes DEF Version
  <2>2. stack' = (IF enabled THEN SetTop(h) ELSE stack)
    BY <1>4 DEF modify
  <2> HIDE DEF h, r
  <2> QED BY <1>2, <1>3, <2>1, <2>2, RowStep
<1>5. CASE ~enabled
  <2>1. e \in UndoState
    BY DEF UndoState, Table, Empty
  <2>2. stack' = (IF enabled THEN SetTop(e) ELSE stack)
    BY <1>5 DEF modify
  <2> HIDE DEF e, r
  <2> QED BY <1>2, <1>3, <1>5, <2>1, <2>2, RowStep
<1> QED BY <1>4, <1>5

LEMMA RemoveStep == ASSUME IInv, NEW id \in Ids, remove(id) PROVE IInv'
<1> USE DEF IInv, TypeOK
<1> DEFINE r == [rows EXCEPT ![id] = Null]
           h == on_remove(Top, id, rows[id])
           e == [old_values |-> Empty, removed_values |-> Empty, new_ids |-> {},
                 old_next_id |-> 0, revision |-> 0]
<1>1. rows[id] # Null
  BY DEF remove
<1>2. r \in Table /\ Distinct(r) /\ Fresh([rows |-> r, next_id |-> next_id])
  BY DEF Table, KeysUnique, Distinct, IdsFresh, Fresh
<1>3. rows' = r /\ next_id' = next_id /\ UNCHANGED <<revision, unwinding, saved>>
  BY DEF remove
<1>4. CASE enabled
  <2>1. /\ h \in UndoState /\ h.old_next_id = Top.old_next_id /\ h.revision = Top.revision
        /\ Describes(h, saved[Len(stack)].rows, r)
    BY <1>1, <1>4, TopDescribes, OnRemoveDescribes DEF Version
  <2>2. stack' = (IF enabled THEN SetTop(h) ELSE stack)
    BY <1>4 DEF remove
  <2> HIDE DEF h, r
  <2> QED BY <1>2, <1>3, <2>1, <2>2, RowStep
<1>5. CASE ~enabled
  <2>1. e \in UndoState
    BY DEF UndoState, Table, Empty
  <2>2. stack' = (IF enabled THEN SetTop(e) ELSE stack)
    BY <1>5 DEF remove
  <2> HIDE DEF e, r
  <2> QED BY <1>2, <1>3, <1>5, <2>1, <2>2, RowStep
<1> QED BY <1>4, <1>5

LEMMA StartStep == ASSUME IInv, start_undo_session PROVE IInv'
<1>t. /\ rows \in Table /\ next_id \in 0 .. MaxId /\ revision \in Nat /\ unwinding \in BOOLEAN
      /\ stack \in Seq(UndoState) /\ saved \in Seq(Version)
  BY DEF IInv, TypeOK
<1>h. StackDescribesHistory /\ Len(saved) = Len(stack)
  BY DEF IInv, StackDescribesHistory
<1>f. IdsFresh
  BY DEF IInv
<1>c. RevisionsConsecutive
  BY DEF IInv
<1>k. KeysUnique
  BY DEF IInv
<1>1. PICK h : h = [old_values |-> Empty, removed_values |-> Empty, new_ids |-> {},
                    old_next_id |-> next_id, revision |-> revision + 1]
  OBVIOUS
<1>2. PICK v : v = [rows |-> rows, next_id |-> next_id]
  OBVIOUS
<1>3. PICK n \in Nat : n = Len(stack) /\ n = Len(saved)
  BY <1>t, <1>h
<1>4. h \in UndoState /\ v \in Version
  BY <1>t, <1>1, <1>2 DEF UndoState, Version, Table, Empty
<1>5. stack' = Append(stack, h) /\ saved' = Append(saved, v) /\ revision' = revision + 1
      /\ UNCHANGED <<rows, next_id, unwinding>>
  BY <1>1, <1>2 DEF start_undo_session
<1>6. Describes(h, rows, rows)
  BY <1>1 DEF Describes, RowNop, Empty
<1>7. /\ stack' \in Seq(UndoState) /\ Len(stack') = n + 1 /\ stack'[n + 1] = h
      /\ \A i \in 1 .. n : stack'[i] = stack[i]
  <2>1. stack \in Seq(UndoState) /\ h \in UndoState /\ stack' = Append(stack, h) /\ n = Len(stack)
    BY <1>t, <1>3, <1>4, <1>5
  <2> QED BY <2>1
<1>8. /\ saved' \in Seq(Version) /\ Len(saved') = n + 1 /\ saved'[n + 1] = v
      /\ \A i \in 1 .. n : saved'[i] = saved[i]
  BY <1>t, <1>3, <1>4, <1>5
<1>9. ASSUME NEW i \in 1 .. n PROVE After(i)' = After(i)
  BY <1>2, <1>3, <1>5, <1>7, <1>8 DEF After
<1>10. After(n + 1)' = v
  BY <1>2, <1>5, <1>7 DEF After
<1>11. TypeOK'
  BY <1>t, <1>5, <1>7, <1>8 DEF TypeOK
<1>12. StackDescribesHistory'
  <2>1. ASSUME NEW i \in 1 .. n + 1
        PROVE  /\ Describes(stack'[i], saved'[i].rows, After(i)'.rows)
               /\ stack'[i].old_next_id = saved'[i].next_id
    <3>1. CASE i = n + 1
      BY <3>1, <1>1, <1>2, <1>6, <1>7, <1>8, <1>10
    <3>2. CASE i \in 1 .. n
      BY <3>2, <1>h, <1>3, <1>7, <1>8, <1>9 DEF StackDescribesHistory
    <3> QED BY <3>1, <3>2
  <2> QED BY <2>1, <1>7, <1>8 DEF StackDescribesHistory
<1>13. IdsFresh'
  <2>1. ASSUME NEW i \in 1 .. n + 1
        PROVE  Fresh(saved'[i]) /\ saved'[i].next_id <= After(i)'.next_id
    <3>1. CASE i = n + 1
      BY <3>1, <1>t, <1>f, <1>2, <1>8, <1>10 DEF IdsFresh
    <3>2. CASE i \in 1 .. n
      BY <3>2, <1>f, <1>3, <1>8, <1>9 DEF IdsFresh
    <3> QED BY <3>1, <3>2
  <2> QED BY <2>1, <1>f, <1>5, <1>8 DEF IdsFresh
<1>14. RevisionsConsecutive'
  <2>1. ASSUME NEW i \in 1 .. n + 1
        PROVE  stack'[i].revision = revision + 1 - (n + 1) + i
    <3>1. CASE i = n + 1
      BY <3>1, <1>t, <1>1, <1>7
    <3>2. CASE i \in 1 .. n
      BY <3>2, <1>t, <1>c, <1>3, <1>7 DEF RevisionsConsecutive
    <3> QED BY <3>1, <3>2
  <2>2. n + 1 <= revision + 1
    BY <1>t, <1>c, <1>3 DEF RevisionsConsecutive
  <2>3. revision' = revision + 1 /\ Len(stack') = n + 1
    BY <1>5, <1>7
  <2>4. ASSUME NEW i \in 1 .. n + 1 PROVE stack'[i].revision = revision' - Len(stack') + i
    BY <1>t, <2>1, <2>3
  <2>5. Len(stack') <= revision'
    BY <2>2, <2>3
  <2> QED BY <2>3, <2>4, <2>5 DEF RevisionsConsecutive
<1>15. KeysUnique'
  <2>1. ASSUME NEW i \in 1 .. n + 1 PROVE Distinct(saved'[i].rows)
    <3>1. CASE i = n + 1
      BY <3>1, <1>k, <1>2, <1>8 DEF KeysUnique
    <3>2. CASE i \in 1 .. n
      BY <3>2, <1>k, <1>3, <1>8 DEF KeysUnique
    <3> QED BY <3>1, <3>2
  <2> QED BY <1>k, <1>5, <1>8, <2>1 DEF KeysUnique
<1> QED BY <1>11, <1>12, <1>13, <1>14, <1>15 DEF IInv

LEMMA UndoStep == ASSUME IInv, UndoTop, unwinding' \in BOOLEAN PROVE IInv'
<1>t. /\ rows \in Table /\ next_id \in 0 .. MaxId /\ revision \in Nat /\ unwinding \in BOOLEAN
      /\ stack \in Seq(UndoState) /\ saved \in Seq(Version)
  BY DEF IInv, TypeOK
<1>h. StackDescribesHistory /\ Len(saved) = Len(stack)
  BY DEF IInv, StackDescribesHistory
<1>f. IdsFresh
  BY DEF IInv
<1>c. RevisionsConsecutive
  BY DEF IInv
<1>k. KeysUnique
  BY DEF IInv
<1>1. PICK n \in Nat : Len(stack) = n + 1
  <2>1. Len(stack) \in Nat /\ Len(stack) # 0
    BY <1>t DEF UndoTop, enabled
  <2>2. Len(stack) - 1 \in Nat /\ Len(stack) = (Len(stack) - 1) + 1
    BY <2>1
  <2> QED BY <2>2
<1>2. rows' = saved[n + 1].rows /\ next_id' = saved[n + 1].next_id /\ saved[n + 1] \in Version
  <2>1. enabled
    BY DEF UndoTop
  <2>2. /\ Top \in UndoState /\ saved[n + 1] \in Version
        /\ Describes(Top, saved[n + 1].rows, rows)
        /\ Top.old_next_id = saved[n + 1].next_id
    BY <1>1, <2>1, TopDescribes
  <2>3. saved[n + 1].rows \in Table
    BY <2>2 DEF Version
  <2>4. Restore(Top, rows) = saved[n + 1].rows
    BY <1>t, <2>2, <2>3, RestoreGivesBack
  <2> QED BY <2>2, <2>4 DEF UndoTop
<1>3. /\ stack' \in Seq(UndoState) /\ Len(stack') = n
      /\ \A i \in 1 .. n : stack'[i] = stack[i]
  BY <1>t, <1>1 DEF UndoTop, Front
<1>4. /\ saved' \in Seq(Version) /\ Len(saved') = n
      /\ \A i \in 1 .. n : saved'[i] = saved[i]
  BY <1>t, <1>h, <1>1 DEF UndoTop, Front
<1>5. saved[n + 1] = [rows |-> rows', next_id |-> next_id']
  BY <1>2 DEF Version
<1>6. ASSUME NEW i \in 1 .. n PROVE After(i)' = After(i)
  BY <1>1, <1>3, <1>4, <1>5, <1>6 DEF After
<1>7. revision' = revision - 1
  BY DEF UndoTop
<1>8. Fresh(saved[n + 1]) /\ Distinct(saved[n + 1].rows) /\ n + 1 <= revision
  BY <1>1, <1>h, <1>f, <1>k, <1>c DEF IdsFresh, KeysUnique, RevisionsConsecutive
<1>9. TypeOK'
  <2>1. next_id' \in 0 .. MaxId
    BY <1>2, <1>8 DEF Fresh
  <2>2. revision' \in Nat
    BY <1>t, <1>7, <1>8
  <2> QED BY <1>2, <1>3, <1>4, <2>1, <2>2 DEF TypeOK, Version
<1>10. StackDescribesHistory'
  <2>1. \A i \in 1 .. n : i \in 1 .. Len(stack)
    BY <1>1
  <2>2. ASSUME NEW i \in 1 .. n
        PROVE  /\ Describes(stack'[i], saved'[i].rows, After(i)'.rows)
               /\ stack'[i].old_next_id = saved'[i].next_id
    BY <1>h, <1>3, <1>4, <1>6, <2>1 DEF StackDescribesHistory
  <2> QED BY <1>3, <1>4, <2>2 DEF StackDescribesHistory
<1>11. IdsFresh'
  <2>1. ASSUME NEW i \in 1 .. n
        PROVE  Fresh(saved'[i]) /\ saved'[i].next_id <= After(i)'.next_id
    BY <1>f, <1>h, <1>1, <1>4, <1>6 DEF IdsFresh
  <2> QED BY <1>4, <1>5, <1>8, <2>1 DEF IdsFresh
<1>12. RevisionsConsecutive'
  <2>1. ASSUME NEW i \in 1 .. n PROVE stack[i].revision = revision - (n + 1) + i
    BY <1>c, <1>1 DEF RevisionsConsecutive
  <2>2. ASSUME NEW i \in 1 .. n PROVE stack'[i].revision = revision' - n + i
    BY <1>t, <1>3, <1>7, <2>1
  <2> QED BY <1>t, <1>3, <1>7, <1>8, <2>2 DEF RevisionsConsecutive
<1>13. KeysUnique'
  <2>1. ASSUME NEW i \in 1 .. n PROVE Distinct(saved'[i].rows)
    BY <1>k, <1>h, <1>1, <1>4 DEF KeysUnique
  <2> QED BY <1>2, <1>4, <1>8, <2>1 DEF KeysUnique
<1> QED BY <1>9, <1>10, <1>11, <1>12, <1>13 DEF IInv

\* The undo state that squash() leaves on top leads from the version before it
\* to the table as it is.
LEMMA SquashMerges ==
    ASSUME IInv, squash, NEW n \in Nat \ {0}, Len(stack) = n + 1
    PROVE  /\ stack' \in Seq(UndoState) /\ Len(stack') = n
           /\ \A i \in 1 .. n - 1 : stack'[i] = stack[i]
           /\ stack'[n].old_next_id = stack[n].old_next_id
           /\ stack'[n].revision = stack[n].revision
           /\ Describes(stack'[n], saved[n].rows, rows)
           /\ saved[n].next_id <= next_id
<1>t. /\ rows \in Table /\ next_id \in 0 .. MaxId /\ revision \in Nat /\ unwinding \in BOOLEAN
      /\ stack \in Seq(UndoState) /\ saved \in Seq(Version)
  BY DEF IInv, TypeOK
<1>h. StackDescribesHistory /\ Len(saved) = Len(stack)
  BY DEF IInv, StackDescribesHistory
<1>f. IdsFresh
  BY DEF IInv
<1>c. RevisionsConsecutive
  BY DEF IInv
<1>k. KeysUnique
  BY DEF IInv
<1>1. /\ stack[n] \in UndoState /\ stack[n + 1] \in UndoState
      /\ saved[n] \in Version /\ saved[n + 1] \in Version
      /\ n \in 1 .. Len(stack) /\ n + 1 \in 1 .. Len(stack)
  BY <1>t, <1>h
<1>2. After(n) = saved[n + 1] /\ After(n + 1) = [rows |-> rows, next_id |-> next_id]
  BY DEF After
<1>3. /\ Describes(stack[n], saved[n].rows, saved[n + 1].rows)
      /\ Describes(stack[n + 1], saved[n + 1].rows, rows)
      /\ stack[n].old_next_id = saved[n].next_id
      /\ stack[n + 1].old_next_id = saved[n + 1].next_id
  BY <1>1, <1>2, <1>h DEF StackDescribesHistory
<1>4. /\ saved[n].next_id <= saved[n + 1].next_id
      /\ saved[n + 1].next_id <= next_id
      /\ Fresh(saved[n])
  BY <1>1, <1>2, <1>h, <1>f DEF IdsFresh
<1>5. saved[n].next_id \in Nat /\ saved[n + 1].next_id \in Nat
      /\ saved[n].rows \in Table /\ saved[n + 1].rows \in Table
  BY <1>1 DEF Version
<1>6. ASSUME NEW j \in Ids, saved[n].rows[j] # Null, saved[n + 1].rows[j] = Null
      PROVE  rows[j] = Null
  <2>1. j < saved[n].next_id
    BY <1>4, <1>5, <1>6 DEF Fresh, Ids
  <2>2. ~(j >= stack[n + 1].old_next_id)
    BY <1>3, <1>4, <1>5, <2>1 DEF Ids
  <2> QED
    BY <1>3, <1>6, <2>2 DEF Describes, RowNew, RowUpd, RowDel, RowNop
<1>7. PICK m : m = Merge(stack[n], stack[n + 1])
  OBVIOUS
<1>8. /\ m \in UndoState
      /\ m.old_next_id = stack[n].old_next_id
      /\ m.revision = stack[n].revision
      /\ Describes(m, saved[n].rows, rows)
  BY <1>t, <1>1, <1>3, <1>4, <1>5, <1>6, <1>7, MergeDescribes
<1>9. PICK f : f = Front(stack)
  OBVIOUS
<1>10. f \in Seq(UndoState) /\ Len(f) = n /\ \A i \in 1 .. n : f[i] = stack[i]
  BY <1>t, <1>9 DEF Front
<1>11. stack' = [f EXCEPT ![n] = m]
  <2>1. Len(stack) # 1 /\ Len(stack) - 1 = n
    OBVIOUS
  <2>2. f[n] = stack[n]
    BY <1>10
  <2>3. stack' = [f EXCEPT ![n] = Merge(f[n], stack[n + 1])]
    BY <1>9, <2>1 DEF squash, Top
  <2> QED BY <1>7, <2>2, <2>3
<1>12. /\ stack' \in Seq(UndoState) /\ Len(stack') = n /\ stack'[n] = m
       /\ \A i \in 1 .. n - 1 : stack'[i] = stack[i]
  BY <1>8, <1>10, <1>11
<1> QED
  BY <1>t, <1>4, <1>5, <1>8, <1>12

LEMMA SquashStep == ASSUME IInv, squash PROVE IInv'
<1>t. /\ rows \in Table /\ next_id \in 0 .. MaxId /\ revision \in Nat /\ unwinding \in BOOLEAN
      /\ stack \in Seq(UndoState) /\ saved \in Seq(Version)
  BY DEF IInv, TypeOK
<1>h. StackDescribesHistory /\ Len(saved) = Len(stack)
  BY DEF IInv, StackDescribesHistory
<1>f. IdsFresh
  BY DEF IInv
<1>c. RevisionsConsecutive
  BY DEF IInv
<1>k. KeysUnique
  BY DEF IInv
<1>1. PICK n \in Nat : Len(stack) = n + 1
  <2>1. Len(stack) \in Nat /\ Len(stack) # 0
    BY <1>t DEF squash, enabled
  <2>2. Len(stack) - 1 \in Nat /\ Len(stack) = (Len(stack) - 1) + 1
    BY <2>1
  <2> QED BY <2>2
<1>2. /\ saved' \in Seq(Version) /\ Len(saved') = n
      /\ \A i \in 1 .. n : saved'[i] = saved[i]
  BY <1>t, <1>h, <1>1 DEF squash, Front
<1>3. revision' = revision - 1 /\ UNCHANGED <<rows, next_id, unwinding>>
  BY DEF squash
<1>4. /\ stack' \in Seq(UndoState) /\ Len(stack') = n
      /\ \A i \in 1 .. n - 1 : stack'[i] = stack[i]
  <2>1. CASE n = 0
    BY <2>1, <1>1 DEF squash
  <2>2. CASE n # 0
    BY <2>2, <1>1, SquashMerges
  <2> QED BY <2>1, <2>2
<1>5. n # 0 => /\ stack'[n].old_next_id = stack[n].old_next_id
               /\ stack'[n].revision = stack[n].revision
               /\ Describes(stack'[n], saved[n].rows, rows)
               /\ saved[n].next_id <= next_id
  BY <1>1, SquashMerges
<1>6. ASSUME NEW i \in 1 .. n - 1 PROVE After(i)' = After(i)
  BY <1>1, <1>2, <1>4 DEF After
<1>7. n # 0 => After(n)' = [rows |-> rows, next_id |-> next_id]
  BY <1>3, <1>4 DEF After
<1>8. TypeOK'
  <2>1. revision' \in Nat
    BY <1>t, <1>c, <1>1, <1>3 DEF RevisionsConsecutive
  <2> QED BY <1>t, <1>2, <1>3, <1>4, <2>1 DEF TypeOK
<1>9. StackDescribesHistory'
  <2>1. ASSUME NEW i \in 1 .. n
        PROVE  /\ Describes(stack'[i], saved'[i].rows, After(i)'.rows)
               /\ stack'[i].old_next_id = saved'[i].next_id
    <3>1. CASE i = n
      <4>1. n \in 1 .. Len(stack) /\ n \in 1 .. n /\ n # 0
        BY <3>1, <1>1
      <4>2. stack[n].old_next_id = saved[n].next_id
        BY <4>1, <1>h DEF StackDescribesHistory
      <4> QED BY <3>1, <4>1, <4>2, <1>2, <1>5, <1>7
    <3>2. CASE i \in 1 .. n - 1
      BY <3>2, <1>h, <1>1, <1>2, <1>4, <1>6 DEF StackDescribesHistory
    <3> QED BY <3>1, <3>2
  <2> QED BY <2>1, <1>2, <1>4 DEF StackDescribesHistory
<1>10. IdsFresh'
  <2>1. ASSUME NEW i \in 1 .. n
        PROVE  Fresh(saved'[i]) /\ saved'[i].next_id <= After(i)'.next_id
    <3>1. Fresh(saved'[i])
      BY <1>f, <1>h, <1>1, <1>2 DEF IdsFresh
    <3>2. CASE i = n
      BY <3>1, <3>2, <1>2, <1>5, <1>7
    <3>3. CASE i \in 1 .. n - 1
      BY <3>1, <3>3, <1>f, <1>h, <1>1, <1>2, <1>6 DEF IdsFresh
    <3> QED BY <3>2, <3>3
  <2>2. Fresh([rows |-> rows', next_id |-> next_id'])
    BY <1>f, <1>3 DEF IdsFresh
  <2> QED BY <2>1, <2>2, <1>2 DEF IdsFresh
<1>11. RevisionsConsecutive'
  <2>1. ASSUME NEW i \in 1 .. n PROVE stack[i].revision = revision - (n + 1) + i
    BY <1>c, <1>1 DEF RevisionsConsecutive
  <2>2. ASSUME NEW i \in 1 .. n PROVE stack'[i].revision = stack[i].revision
    <3>1. CASE i = n
      BY <3>1, <1>5
    <3>2. CASE i \in 1 .. n - 1
      BY <3>2, <1>4
    <3> QED BY <3>1, <3>2
  <2>3. ASSUME NEW i \in 1 .. n PROVE stack'[i].revision = revision' - n + i
    BY <1>t, <1>3, <2>1, <2>2
  <2>4. n <= revision'
    BY <1>t, <1>c, <1>1, <1>3 DEF RevisionsConsecutive
  <2> QED BY <1>4, <2>3, <2>4 DEF RevisionsConsecutive
<1>12. KeysUnique'
  <2>1. ASSUME NEW i \in 1 .. n PROVE Distinct(saved'[i].rows)
    BY <1>k, <1>h, <1>1, <1>2 DEF KeysUnique
  <2> QED BY <1>k, <1>2, <1>3, <2>1 DEF KeysUnique
<1> QED BY <1>8, <1>9, <1>10, <1>11, <1>12 DEF IInv

LEMMA CommitStep == ASSUME IInv, NEW r \in Nat, commit(r) PROVE IInv'
<1>t. /\ rows \in Table /\ next_id \in 0 .. MaxId /\ revision \in Nat /\ unwinding \in BOOLEAN
      /\ stack \in Seq(UndoState) /\ saved \in Seq(Version)
  BY DEF IInv, TypeOK
<1>h. StackDescribesHistory /\ Len(saved) = Len(stack)
  BY DEF IInv, StackDescribesHistory
<1>f. IdsFresh
  BY DEF IInv
<1>c. RevisionsConsecutive
  BY DEF IInv
<1>k. KeysUnique
  BY DEF IInv
<1>1. PICK k \in 1 .. Len(stack) : /\ stack' = SubSeq(stack, k + 1, Len(stack))
                                   /\ saved' = SubSeq(saved, k + 1, Len(saved))
  BY DEF commit
<1>2. PICK n \in Nat : Len(stack) = n + k
  <2>1. Len(stack) - k \in Nat /\ Len(stack) = (Len(stack) - k) + k
    BY <1>t
  <2> QED BY <2>1
<1>3. /\ stack' \in Seq(UndoState) /\ Len(stack') = n
      /\ \A i \in 1 .. n : stack'[i] = stack[i + k]
  BY <1>t, <1>1, <1>2
<1>4. /\ saved' \in Seq(Version) /\ Len(saved') = n
      /\ \A i \in 1 .. n : saved'[i] = saved[i + k]
  BY <1>t, <1>h, <1>1, <1>2
<1>5. UNCHANGED <<rows, next_id, revision, unwinding>>
  BY DEF commit
<1>0. \A i \in 1 .. n : i + k \in 1 .. Len(stack) /\ i + k \in 1 .. Len(saved)
  BY <1>t, <1>h, <1>2
<1>6. ASSUME NEW i \in 1 .. n PROVE After(i)' = After(i + k)
  <2>1. CASE i = n
    BY <2>1, <1>2, <1>3, <1>5 DEF After
  <2>2. CASE i \in 1 .. n - 1
    <3>1. i + 1 \in 1 .. n /\ i + k # Len(stack) /\ (i + k) + 1 = (i + 1) + k
      BY <2>2, <1>2
    <3>2. saved'[i + 1] = saved[(i + k) + 1]
      BY <3>1, <1>4
    <3> QED BY <2>2, <3>1, <3>2, <1>3 DEF After
  <2> QED BY <2>1, <2>2
<1>7. TypeOK'
  BY <1>t, <1>3, <1>4, <1>5 DEF TypeOK
<1>8. StackDescribesHistory'
  <2>1. ASSUME NEW i \in 1 .. n
        PROVE  /\ Describes(stack'[i], saved'[i].rows, After(i)'.rows)
               /\ stack'[i].old_next_id = saved'[i].next_id
    BY <1>h, <1>0, <1>3, <1>4, <1>6 DEF StackDescribesHistory
  <2> QED BY <1>3, <1>4, <2>1 DEF StackDescribesHistory
<1>9. IdsFresh'
  <2>1. ASSUME NEW i \in 1 .. n
        PROVE  Fresh(saved'[i]) /\ saved'[i].next_id <= After(i)'.next_id
    BY <1>f, <1>0, <1>4, <1>6 DEF IdsFresh
  <2>2. Fresh([rows |-> rows', next_id |-> next_id'])
    BY <1>f, <1>5 DEF IdsFresh
  <2> QED BY <1>4, <2>1, <2>2 DEF IdsFresh
<1>10. RevisionsConsecutive'
  <2>1. ASSUME NEW i \in 1 .. n PROVE stack[i + k].revision = revision - (n + k) + (i + k)
    BY <1>c, <1>0, <1>2 DEF RevisionsConsecutive
  <2>2. ASSUME NEW i \in 1 .. n PROVE stack'[i].revision = revision' - n + i
    <3>1. revision - (n + k) + (i + k) = revision' - n + i
      BY <1>t, <1>5
    <3> QED BY <1>3, <2>1, <3>1
  <2>3. n <= revision'
    BY <1>t, <1>c, <1>2, <1>5 DEF RevisionsConsecutive
  <2> QED BY <1>3, <2>2, <2>3 DEF RevisionsConsecutive
<1>11. KeysUnique'
  <2>1. ASSUME NEW i \in 1 .. n PROVE Distinct(saved'[i].rows)
    BY <1>k, <1>0, <1>4 DEF KeysUnique
  <2> QED BY <1>k, <1>4, <1>5, <2>1 DEF KeysUnique
<1> QED BY <1>7, <1>8, <1>9, <1>10, <1>11 DEF IInv

\* A step of the table keeps the invariant, one lemma per kind of step.
LEMMA NextKeepsIInv == ASSUME IInv, [Next]_vars PROVE IInv'
<1>1. CASE UNCHANGED vars
  BY <1>1 DEF IInv, TypeOK, StackDescribesHistory, IdsFresh, RevisionsConsecutive,
              KeysUnique, After, vars
<1>2. CASE \E v \in Row : emplace(v)
  BY <1>2, EmplaceStep
<1>3. CASE \E id \in Ids, v \in Row : SameKey(id, v) /\ modify(id, v)
  BY <1>3, ModifyStep
<1>4. CASE \E id \in Ids : remove(id)
  BY <1>4, RemoveStep
<1>5. CASE start_undo_session
  BY <1>5, StartStep
<1>6. CASE undo \/ undo_all_step
  <2>1. UndoTop /\ unwinding' \in BOOLEAN
    BY <1>6 DEF undo, undo_all_step, IInv, TypeOK
  <2> QED BY <2>1, UndoStep
<1>7. CASE squash
  BY <1>7, SquashStep
<1>8. CASE \E r \in 0 .. MaxRevision : commit(r)
  BY <1>8, CommitStep, BoundAssumption
<1>9. CASE undo_all \/ undo_all_done
  BY <1>9 DEF undo_all, undo_all_done, IInv, TypeOK, StackDescribesHistory, IdsFresh,
              RevisionsConsecutive, KeysUnique, After
<1>10. CASE \E r \in 0 .. MaxRevision : set_revision(r)
  <2>1. PICK r \in 0 .. MaxRevision : set_revision(r)
    BY <1>10
  <2>2. Len(stack) = 0 /\ Len(saved) = 0
    <3>1. stack = <<>> /\ Len(saved) = Len(stack)
      BY <2>1 DEF set_revision, enabled, IInv, StackDescribesHistory
    <3> QED BY <3>1
  <2>3. revision' \in Nat /\ UNCHANGED <<rows, next_id, stack, unwinding, saved>>
    BY <2>1, BoundAssumption DEF set_revision
  <2>4. TypeOK' /\ KeysUnique'
    BY <2>3 DEF IInv, TypeOK, KeysUnique
  <2>5. RevisionsConsecutive'
    BY <2>2, <2>3 DEF RevisionsConsecutive
  <2>6. StackDescribesHistory' /\ IdsFresh'
    BY <2>2, <2>3 DEF StackDescribesHistory, IdsFresh, IInv
  <2> QED BY <2>4, <2>5, <2>6 DEF IInv
<1> QED
  BY <1>1, <1>2, <1>3, <1>4, <1>5, <1>6, <1>7, <1>8, <1>9, <1>10 DEF Next, SessionNext

\* The invariant of module UndoIndex holds in every reachable state.
THEOREM Invariance == Spec => []IInv
<1>1. Init => IInv
  <2> SUFFICES ASSUME Init PROVE IInv
    OBVIOUS
  <2>1. TypeOK
    <3>1. Empty \in Table
      BY DEF Empty, Table
    <3>2. <<>> \in Seq(UndoState) /\ <<>> \in Seq(Version)
      BY EmptySeq
    <3>3. next_id \in 0 .. MaxId /\ revision \in Nat
      BY BoundAssumption DEF Init
    <3>4. unwinding \in BOOLEAN
      BY Zenon DEF Init
    <3>5. rows \in Table /\ stack \in Seq(UndoState) /\ saved \in Seq(Version)
      BY <3>1, <3>2 DEF Init
    <3> QED BY <3>3, <3>4, <3>5, Zenon DEF TypeOK
  <2>2. StackDescribesHistory /\ RevisionsConsecutive /\ KeysUnique
    BY DEF Init, StackDescribesHistory, RevisionsConsecutive, KeysUnique, Distinct, Empty
  <2>3. IdsFresh
    BY BoundAssumption DEF Init, IdsFresh, Fresh, Empty
  <2> QED BY <2>1, <2>2, <2>3 DEF IInv
<1>2. IInv /\ [Next]_vars => IInv'
  BY NextKeepsIInv
<1> QED
  BY <1>1, <1>2, PTL DEF Spec

\* Revisions stay consecutive (undo_stack_revision_range).
THEOREM RevisionsStayConsecutive == Spec => []RevisionsConsecutive
<1>1. IInv => RevisionsConsecutive
  BY DEF IInv
<1> QED
  BY <1>1, Invariance, PTL

\* undo() never stops halfway.
THEOREM UndoAlwaysTotal == Spec => []UndoTotal
<1>1. IInv => UndoTotal
  <2> SUFFICES ASSUME IInv, enabled PROVE Restorable(Top, rows)
    BY DEF UndoTotal
  <2>1. rows \in Table /\ Distinct(rows)
    BY DEF IInv, TypeOK, KeysUnique
  <2>2. /\ Top \in UndoState /\ saved[Len(stack)] \in Version
        /\ Describes(Top, saved[Len(stack)].rows, rows)
    BY TopDescribes
  <2>3. saved[Len(stack)].rows \in Table
    BY <2>2 DEF Version
  <2> QED
    BY <2>1, <2>2, <2>3, DescribedIsRestorable
<1> QED
  BY <1>1, Invariance, PTL

-----------------------------------------------------------------------------
(* Refinement: the table with its undo log is a stack of versions.         *)

\* Every step of the table is a step of VersionedTable or leaves it unchanged.
LEMMA StepSimulation == ASSUME IInv, [Next]_vars PROVE [Versions!VNext]_(Versions!vvars)
<1> USE DEF Versions!VNext, Versions!vvars, Versions!VRow, Versions!VIds
<1>t. /\ rows \in Table /\ next_id \in 0 .. MaxId /\ revision \in Nat
      /\ stack \in Seq(UndoState) /\ saved \in Seq(Version) /\ Len(saved) = Len(stack)
  BY DEF IInv, TypeOK, StackDescribesHistory
<1>1. CASE UNCHANGED vars
  BY <1>1 DEF vars
<1>2. CASE \E v \in Row : emplace(v)
  <2>1. next_id \in 0 .. MaxId - 1
    BY <1>2, <1>t, BoundAssumption DEF emplace
  <2>2. Versions!Create
    BY <1>2, <2>1 DEF emplace, Versions!Create, Row
  <2> QED BY <2>2
<1>3. CASE \E id \in Ids, v \in Row : SameKey(id, v) /\ modify(id, v)
  <2>1. PICK id \in Ids, v \in Row : SameKey(id, v) /\ modify(id, v)
    BY <1>3
  <2>2. ~KeyTaken(rows, v.key, id)
    BY <2>1 DEF SameKey, KeyTaken, IInv, KeysUnique, Distinct
  <2>3. Versions!Update
    BY <2>1, <2>2 DEF modify, Versions!Update, Row, Ids
  <2> QED BY <2>3
<1>4. CASE \E id \in Ids : remove(id)
  <2>1. Versions!Delete
    BY <1>4 DEF remove, Versions!Delete, Ids
  <2> QED BY <2>1
<1>5. CASE start_undo_session
  <2>1. Versions!Begin
    BY <1>5 DEF start_undo_session, Versions!Begin
  <2> QED BY <2>1
<1>6. CASE undo \/ undo_all_step
  <2>1. UndoTop /\ enabled
    BY <1>6 DEF undo, undo_all_step, UndoTop
  <2>2. /\ Top \in UndoState /\ saved[Len(stack)] \in Version
        /\ Describes(Top, saved[Len(stack)].rows, rows)
        /\ Top.old_next_id = saved[Len(stack)].next_id
    BY <2>1, TopDescribes
  <2>3. Restore(Top, rows) = saved[Len(stack)].rows
    BY <1>t, <2>2, RestoreGivesBack DEF Version
  <2>4. saved # <<>>
    BY <1>t, <2>1 DEF enabled
  <2>5. Versions!Undo
    BY <1>t, <2>1, <2>2, <2>3, <2>4 DEF UndoTop, Front, Versions!Undo, Versions!DropLast
  <2> QED BY <2>5
<1>7. CASE squash
  <2>1. saved # <<>>
    BY <1>t, <1>7 DEF squash, enabled
  <2>2. Versions!Squash
    BY <1>7, <2>1 DEF squash, Front, Versions!Squash, Versions!DropLast
  <2> QED BY <2>2
<1>8. CASE \E r \in 0 .. MaxRevision : commit(r)
  <2>1. PICK r \in Nat : commit(r)
    BY <1>8, BoundAssumption
  <2>2. PICK n \in 1 .. Len(stack) : /\ Committed(r, n)
                                     /\ saved' = SubSeq(saved, n + 1, Len(saved))
    BY <2>1 DEF commit
  <2>3. Len(stack) \in Nat /\ Len(stack) <= revision
    BY <1>t DEF IInv, RevisionsConsecutive
  <2>4. PICK q \in 0 .. revision : q = revision - Len(stack) + n
    <3>1. revision - Len(stack) + n \in 0 .. revision
      BY <1>t, <2>3
    <3> QED BY <3>1
  <2>5. q - (revision - Len(saved)) + 1 = n + 1
    BY <1>t, <2>3, <2>4
  <2>6. saved' = LET first == q - (revision - Len(saved)) + 1
                 IN SubSeq(saved, IF first < 1 THEN 1 ELSE first, Len(saved))
    BY <2>2, <2>5
  <2>7. Versions!Commit
    BY <2>1, <2>4, <2>6 DEF commit, Versions!Commit
  <2> QED BY <2>7
<1>9. CASE undo_all \/ undo_all_done
  BY <1>9 DEF undo_all, undo_all_done
<1>10. CASE \E r \in 0 .. MaxRevision : set_revision(r)
  <2>1. saved = <<>>
    <3>1. stack = <<>>
      BY <1>10 DEF set_revision, enabled
    <3>2. Len(saved) = 0
      BY <1>t, <3>1
    <3> QED BY <1>t, <3>2, EmptySeq
  <2>2. Versions!SetRevision
    BY <1>10, <2>1, BoundAssumption DEF set_revision, Versions!SetRevision
  <2> QED BY <2>2
<1> QED
  BY <1>1, <1>2, <1>3, <1>4, <1>5, <1>6, <1>7, <1>8, <1>9, <1>10 DEF Next, SessionNext

\* A chainbase table implements a stack of complete versions.
THEOREM Refinement == Spec => ImplementsVersions
<1>1. Init => Versions!VInit
  BY DEF Init, Empty, Ids, Versions!VInit, Versions!VIds
<1>2. IInv /\ [Next]_vars => [Versions!VNext]_(Versions!vvars)
  BY StepSimulation
<1> QED
  BY <1>1, <1>2, Invariance, PTL DEF Spec, ImplementsVersions, Versions!Spec

=============================================================================
