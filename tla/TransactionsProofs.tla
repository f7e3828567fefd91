------------------------- MODULE TransactionsProofs -------------------------
(***************************************************************************)
(* Proofs about Transactions: no transaction gets two receipts, every      *)
(* deferred one is in the table, cancelled or retired by one receipt, an   *)
(* accepted input is not forgotten, RAM and CPU are billed for what is     *)
(* there, and another node can repeat the pending block.                   *)
(*                                                                         *)
(* The invariant relates the state after each block to the receipts up to  *)
(* that block, since a switch of branches goes back to an earlier one.     *)
(***************************************************************************)
EXTENDS Transactions, Induction, FiniteSetTheorems, SequenceTheorems, TLAPS

(***************************************************************************)
(* The part of a state that matters: the inputs remembered (d), the rows   *)
(* of the table (g), the ids ever sent (s) and cancelled (c), next to the  *)
(* ids done of all receipts.                                               *)
(***************************************************************************)
IdsOf(g) == {row.trx_id : row \in g}

RowOK(row, slot) ==
    /\ row.trx \in Trx /\ row.published \in Nat /\ row.published <= slot
    /\ row.sender = Data[row.trx].sender
    /\ \E n \in Nat : row.trx_id = <<row.trx, n>> /\ n <= row.published

\* A row has a time not later than that of its block, and an id of its own.
RowsOK(g, slot) ==
    /\ \A row \in g : RowOK(row, slot)
    /\ \A row, other \in g : row.trx_id = other.trx_id => row = other

\* An id names a transaction; an input was sent only if it has its receipt.
SentOK(done, s) ==
    \A id \in s : \E t \in Trx, n \in Nat :
        id = <<t, n>> /\ (t \in Input => n = 0 /\ Packed(t) \in done)

\* An input with a receipt is remembered or has expired; another receipt is
\* that of a generated transaction which is gone and was sent earlier.
DoneOK(done, d, g, s, c, slot) ==
    \A id \in done :
        \/ \E t \in Input : id = Packed(t) /\ (t \in d \/ Data[t].expiration < slot)
        \/ /\ id \in s /\ id \notin IdsOf(g) /\ id \notin c
           /\ id[1] \in Input \/ id[2] < slot

\* What was sent is in the table, cancelled or done.
Accounted(done, g, s, c) ==
    /\ IdsOf(g) \subseteq s /\ c \subseteq s
    /\ s \subseteq IdsOf(g) \cup c \cup done
    /\ IdsOf(g) \cap c = {}

Ok(done, d, g, s, c, slot) ==
    /\ d \subseteq Input
    /\ RowsOK(g, slot)
    /\ SentOK(done, s)
    /\ DoneOK(done, d, g, s, c, slot)
    /\ Accounted(done, g, s, c)

-----------------------------------------------------------------------------
\* start_block at a later time forgets the inputs that have expired.
LEMMA OkStarted ==
    ASSUME NEW done, NEW d, NEW g, NEW s, NEW c, NEW slot \in Nat, NEW now \in Nat,
           Ok(done, d, g, s, c, slot), slot < now
    PROVE  Ok(done, {t \in d : Data[t].expiration >= now}, g, s, c, now)
<1> DEFINE e == {t \in d : Data[t].expiration >= now}
<1>1. e \subseteq Input /\ SentOK(done, s) /\ Accounted(done, g, s, c) /\ Input \subseteq Trx
  BY DataAssumption DEF Ok
<1>2. RowsOK(g, now)
  BY DEF Ok, RowsOK, RowOK
<1>3. DoneOK(done, e, g, s, c, now)
  <2> SUFFICES ASSUME NEW id \in done
               PROVE  \/ \E t \in Input : id = Packed(t) /\ (t \in e \/ Data[t].expiration < now)
                      \/ /\ id \in s /\ id \notin IdsOf(g) /\ id \notin c
                         /\ id[1] \in Input \/ id[2] < now
    BY DEF DoneOK
  <2>1. \/ \E t \in Input : id = Packed(t) /\ (t \in d \/ Data[t].expiration < slot)
        \/ /\ id \in s /\ id \notin IdsOf(g) /\ id \notin c
           /\ id[1] \in Input \/ id[2] < slot
    BY DEF Ok, DoneOK
  <2>2. CASE \E t \in Input : id = Packed(t) /\ (t \in d \/ Data[t].expiration < slot)
    <3>1. PICK t \in Input : id = Packed(t) /\ (t \in d \/ Data[t].expiration < slot)
      BY <2>2
    <3>2. Data[t].expiration \in Nat
      BY <1>1, DataAssumption
    <3>3. t \in e \/ Data[t].expiration < now
      BY <3>1, <3>2
    <3> QED
      BY <3>1, <3>3
  <2>3. CASE /\ id \in s /\ id \notin IdsOf(g) /\ id \notin c
             /\ id[1] \in Input \/ id[2] < slot
    <3>1. PICK t \in Trx, n \in Nat : id = <<t, n>>
      BY <1>1, <2>3 DEF SentOK
    <3> QED
      BY <2>3, <3>1
  <2> QED
    BY <2>1, <2>2, <2>3
<1> QED
  BY <1>1, <1>2, <1>3 DEF Ok

\* record_transaction of an input that is neither remembered nor expired.
LEMMA OkRecorded ==
    ASSUME NEW done, NEW d, NEW g, NEW s, NEW c, NEW slot \in Nat, NEW t \in Input,
           Ok(done, d, g, s, c, slot), t \notin d, ~(Data[t].expiration < slot)
    PROVE  /\ Packed(t) \notin done /\ <<t, 0>> \notin s
           /\ Ok(done \cup {Packed(t)}, d \cup {t}, g, s, c, slot)
<1>1. "packed" \notin Trx
  BY DataAssumption
<1>2. Packed(t) \notin s
  BY <1>1 DEF Ok, SentOK, Packed
<1>3. Packed(t) \notin done
  <2>1. \A u \in Input : Packed(t) = Packed(u) => t = u
    BY DEF Packed
  <2> QED
    BY <1>2, <2>1 DEF Ok, DoneOK
<1>4. <<t, 0>> \notin s
  BY <1>3 DEF Ok, SentOK
<1>5. RowsOK(g, slot) /\ d \cup {t} \subseteq Input
  BY DEF Ok
<1>6. SentOK(done \cup {Packed(t)}, s)
  BY DEF Ok, SentOK
<1>7. DoneOK(done \cup {Packed(t)}, d \cup {t}, g, s, c, slot)
  BY DEF Ok, DoneOK
<1>8. Accounted(done \cup {Packed(t)}, g, s, c)
  BY DEF Ok, Accounted
<1> QED
  BY <1>3, <1>4, <1>5, <1>6, <1>7, <1>8 DEF Ok

\* A row whose id is not in the table joins it, if that id is new, or that of
\* a transaction which was cancelled in the block it was sent in.
LEMMA OkSent ==
    ASSUME NEW done, NEW d, NEW g, NEW s, NEW c, NEW slot \in Nat, NEW row,
           Ok(done, d, g, s, c, slot), RowOK(row, slot), row.trx_id \notin IdsOf(g),
           row.trx_id \notin done,
           row.trx \in Input => row.trx_id = <<row.trx, 0>> /\ Packed(row.trx) \in done
    PROVE  Ok(done, d, g \cup {row}, s \cup {row.trx_id}, c \ {row.trx_id}, slot)
<1>1. IdsOf(g \cup {row}) = IdsOf(g) \cup {row.trx_id}
  BY DEF IdsOf
<1>2. RowsOK(g \cup {row}, slot)
  BY DEF Ok, RowsOK, IdsOf
<1>3. SentOK(done, s \cup {row.trx_id})
  BY DEF Ok, SentOK, RowOK
<1>4. DoneOK(done, d, g \cup {row}, s \cup {row.trx_id}, c \ {row.trx_id}, slot)
  BY <1>1 DEF Ok, DoneOK
<1>5. Accounted(done, g \cup {row}, s \cup {row.trx_id}, c \ {row.trx_id})
  BY <1>1 DEF Ok, Accounted
<1>6. d \subseteq Input
  BY DEF Ok
<1> QED
  BY <1>2, <1>3, <1>4, <1>5, <1>6 DEF Ok

\* A row is replaced and keeps its id.
LEMMA OkReplaced ==
    ASSUME NEW done, NEW d, NEW g, NEW s, NEW c, NEW slot \in Nat, NEW old \in g, NEW new,
           Ok(done, d, g, s, c, slot), RowOK(new, slot), new.trx_id = old.trx_id
    PROVE  Ok(done, d, (g \ {old}) \cup {new}, s, c, slot)
<1>1. IdsOf((g \ {old}) \cup {new}) = IdsOf(g)
  BY DEF IdsOf
<1>2. RowsOK((g \ {old}) \cup {new}, slot)
  BY DEF Ok, RowsOK
<1>3. d \subseteq Input /\ SentOK(done, s)
  BY DEF Ok
<1>4. DoneOK(done, d, (g \ {old}) \cup {new}, s, c, slot)
  BY <1>1 DEF Ok, DoneOK
<1>5. Accounted(done, (g \ {old}) \cup {new}, s, c)
  BY <1>1 DEF Ok, Accounted
<1> QED
  BY <1>2, <1>3, <1>4, <1>5 DEF Ok

\* Without one row the table lacks its id only.
LEMMA IdsWithout ==
    ASSUME NEW g, NEW slot, RowsOK(g, slot), NEW row \in g
    PROVE  IdsOf(g \ {row}) = IdsOf(g) \ {row.trx_id} /\ RowsOK(g \ {row}, slot)
BY DEF RowsOK, IdsOf

\* A row is cancelled.
LEMMA OkCancelled ==
    ASSUME NEW done, NEW d, NEW g, NEW s, NEW c, NEW slot \in Nat, NEW row \in g,
           Ok(done, d, g, s, c, slot)
    PROVE  Ok(done, d, g \ {row}, s, c \cup {row.trx_id}, slot)
<1>1. IdsOf(g \ {row}) = IdsOf(g) \ {row.trx_id} /\ RowsOK(g \ {row}, slot)
  BY IdsWithout DEF Ok
<1>2. row.trx_id \in IdsOf(g) /\ row.trx_id \in s
  BY DEF Ok, Accounted, IdsOf
<1>3. d \subseteq Input /\ SentOK(done, s)
  BY DEF Ok
<1>4. row.trx_id \notin done
  <2>1. \A t \in Input : row.trx_id # Packed(t)
    BY DataAssumption DEF Ok, RowsOK, RowOK, Packed
  <2> QED
    BY <1>2, <2>1 DEF Ok, DoneOK
<1>5. DoneOK(done, d, g \ {row}, s, c \cup {row.trx_id}, slot)
  BY <1>1, <1>4 DEF Ok, DoneOK
<1>6. Accounted(done, g \ {row}, s, c \cup {row.trx_id})
  BY <1>1, <1>2 DEF Ok, Accounted
<1> QED
  BY <1>1, <1>3, <1>5, <1>6 DEF Ok

\* A row leaves the table with a receipt, in a block after its own.
LEMMA OkRetired ==
    ASSUME NEW done, NEW d, NEW g, NEW s, NEW c, NEW slot \in Nat, NEW row \in g,
           Ok(done, d, g, s, c, slot), row.published < slot
    PROVE  row.trx_id \notin done /\ Ok(done \cup {row.trx_id}, d, g \ {row}, s, c, slot)
<1>1. IdsOf(g \ {row}) = IdsOf(g) \ {row.trx_id} /\ RowsOK(g \ {row}, slot)
  BY IdsWithout DEF Ok
<1>2. row.trx_id \in IdsOf(g) /\ row.trx_id \in s /\ row.trx_id \notin c
  BY DEF Ok, Accounted, IdsOf
<1>3. d \subseteq Input /\ SentOK(done \cup {row.trx_id}, s)
  BY DEF Ok, SentOK
<1>4. row.trx_id \notin done
  <2>1. \A t \in Input : row.trx_id # Packed(t)
    BY DataAssumption DEF Ok, RowsOK, RowOK, Packed
  <2> QED
    BY <1>2, <2>1 DEF Ok, DoneOK
<1>5. row.trx_id[2] < slot
  <2>1. PICK n \in Nat : row.trx_id = <<row.trx, n>> /\ n <= row.published /\ row.published \in Nat
    BY DEF Ok, RowsOK, RowOK
  <2> QED
    BY <2>1
<1>6. DoneOK(done \cup {row.trx_id}, d, g \ {row}, s, c, slot)
  BY <1>1, <1>2, <1>5 DEF Ok, DoneOK
<1>7. Accounted(done \cup {row.trx_id}, g \ {row}, s, c)
  BY <1>1, <1>2 DEF Ok, Accounted
<1> QED
  BY <1>1, <1>3, <1>4, <1>6, <1>7 DEF Ok
-----------------------------------------------------------------------------
(***************************************************************************)
(* States as records, and what the operations do to them.                  *)
(***************************************************************************)
Fields == {"dedup", "gto", "ram", "cpu", "block_cpu", "next", "ran", "sent", "cancelled"}

Good(done, s, slot) ==
    DOMAIN s = Fields /\ Ok(done, s.dedup, s.gto, s.sent, s.cancelled, slot)

\* Two states that agree in that part.
Same(s, u) ==
    /\ DOMAIN s = Fields /\ DOMAIN u = Fields
    /\ u.dedup = s.dedup /\ u.gto = s.gto /\ u.sent = s.sent /\ u.cancelled = s.cancelled

LEMMA SameGood ==
    ASSUME NEW done, NEW s, NEW u, NEW slot, Same(s, u)
    PROVE  Good(done, s, slot) <=> Good(done, u, slot)
BY DEF Same, Good

LEMMA GenesisGood == Good({}, GenesisState, 0)
<1>1. /\ DOMAIN GenesisState = Fields /\ GenesisState.dedup = {} /\ GenesisState.gto = {}
      /\ GenesisState.sent = {} /\ GenesisState.cancelled = {}
  BY DEF GenesisState, Fields
<1>2. Ok({}, {}, {}, {}, {}, 0)
  BY DEF Ok, RowsOK, SentOK, DoneOK, Accounted, IdsOf
<1> QED
  BY <1>1, <1>2 DEF Good

LEMMA UsageSame ==
    ASSUME NEW s, DOMAIN s = Fields, NEW accounts, NEW cpu
    PROVE  Same(s, add_transaction_usage(s, accounts, cpu))
BY DEF Same, Fields, add_transaction_usage

LEMMA RamSame ==
    ASSUME NEW s, DOMAIN s = Fields, NEW a, NEW delta
    PROVE  Same(s, add_ram_usage(s, a, delta))
BY DEF Same, Fields, add_ram_usage

LEMMA RanSame ==
    ASSUME NEW s, DOMAIN s = Fields, NEW entry
    PROVE  Same(s, [s EXCEPT !.ran = Append(@, entry)])
BY DEF Same, Fields

LEMMA FinalizeSame ==
    ASSUME NEW s, DOMAIN s = Fields
    PROVE  Same(s, finalize_block(s))
BY DEF Same, Fields, finalize_block

LEMMA StartGood ==
    ASSUME NEW done, NEW s, NEW slot \in Nat, NEW now \in Nat, Good(done, s, slot), slot < now
    PROVE  /\ Good(done, start_block(s, now), now)
           /\ start_block(s, now).gto = s.gto
<1> DEFINE u == start_block(s, now)
<1>1. /\ DOMAIN u = Fields /\ u.dedup = {t \in s.dedup : Data[t].expiration >= now}
      /\ u.gto = s.gto /\ u.sent = s.sent /\ u.cancelled = s.cancelled
  BY DEF Good, Fields, start_block, clear_expired_input_transactions
<1> HIDE DEF u
<1>2. Ok(done, {t \in s.dedup : Data[t].expiration >= now}, s.gto, s.sent, s.cancelled, now)
  BY OkStarted DEF Good
<1>3. Good(done, u, now) /\ u.gto = s.gto
  BY <1>1, <1>2 DEF Good
<1> QED
  BY <1>3 DEF u

\* remove_scheduled_transaction with the receipt that goes with it.
LEMMA RemoveGood ==
    ASSUME NEW done, NEW s, NEW slot \in Nat, Good(done, s, slot),
           NEW row \in s.gto, row.published < slot
    PROVE  /\ row.trx_id \notin done
           /\ Good(done \cup {row.trx_id}, remove_scheduled_transaction(s, row), slot)
<1>1. PICK u : u = [s EXCEPT !.gto = @ \ {row}]
  OBVIOUS
<1>2. /\ DOMAIN u = Fields /\ u.gto = s.gto \ {row} /\ u.dedup = s.dedup
      /\ u.sent = s.sent /\ u.cancelled = s.cancelled
  BY <1>1 DEF Good, Fields
<1>3. /\ row.trx_id \notin done
      /\ Ok(done \cup {row.trx_id}, s.dedup, s.gto \ {row}, s.sent, s.cancelled, slot)
  BY OkRetired DEF Good
<1>4. Good(done \cup {row.trx_id}, u, slot)
  BY <1>2, <1>3 DEF Good
<1>5. Same(u, remove_scheduled_transaction(s, row))
  BY <1>1, <1>2, RamSame DEF remove_scheduled_transaction
<1> QED
  BY <1>3, <1>4, <1>5, SameGood

LEMMA CancelGood ==
    ASSUME NEW done, NEW s, NEW slot \in Nat, Good(done, s, slot), NEW t
    PROVE  Good(done, cancel_deferred_transaction(s, t), slot)
<1>1. CASE SentRows(s, t) = {}
  BY <1>1 DEF cancel_deferred_transaction
<1>2. CASE SentRows(s, t) # {}
  <2>1. PICK row : row = CHOOSE r \in SentRows(s, t) : TRUE
    OBVIOUS
  <2>2. row \in s.gto
    BY <1>2, <2>1 DEF SentRows
  <2>3. PICK u : u = [s EXCEPT !.gto = @ \ {row}]
    OBVIOUS
  <2>4. PICK v : v = add_ram_usage(u, row.payer, -1)
    OBVIOUS
  <2>5. PICK w : w = [v EXCEPT !.cancelled = @ \cup {row.trx_id}]
    OBVIOUS
  <2>6. /\ DOMAIN u = Fields /\ u.gto = s.gto \ {row} /\ u.dedup = s.dedup
        /\ u.sent = s.sent /\ u.cancelled = s.cancelled
    BY <2>3 DEF Good, Fields
  <2>7. Same(u, v)
    BY <2>4, <2>6, RamSame
  <2>8. /\ DOMAIN w = Fields /\ w.gto = s.gto \ {row} /\ w.dedup = s.dedup
        /\ w.sent = s.sent /\ w.cancelled = s.cancelled \cup {row.trx_id}
    BY <2>5, <2>6, <2>7 DEF Same, Fields
  <2>9. Ok(done, s.dedup, s.gto \ {row}, s.sent, s.cancelled \cup {row.trx_id}, slot)
    BY <2>2, OkCancelled DEF Good
  <2>10. Good(done, w, slot)
    BY <2>8, <2>9 DEF Good
  <2>11. cancel_deferred_transaction(s, t) = w
    BY <1>2, <2>1, <2>3, <2>4, <2>5 DEF cancel_deferred_transaction, remove_scheduled_transaction
  <2> QED
    BY <2>10, <2>11
<1> QED
  BY <1>1, <1>2

\* What create_generated stores.
LEMMA GeneratedRow ==
    ASSUME NEW t \in Trx, NEW now \in Nat, NEW no, NEW row, row = Generated(t, now, no)
    PROVE  /\ RowOK(row, now) /\ row.trx = t
           /\ row.trx_id = (IF t \in Input THEN <<t, 0>> ELSE <<t, now>>)
<1>1. /\ row.trx = t /\ row.published = now /\ row.sender = Data[t].sender
      /\ row.trx_id = (IF t \in Input THEN <<t, 0>> ELSE <<t, now>>)
  BY DEF Generated
<1>2. \E n \in Nat : row.trx_id = <<t, n>> /\ n <= now
  BY <1>1
<1> QED
  BY <1>1, <1>2 DEF RowOK

LEMMA CreateGood ==
    ASSUME NEW done, NEW s, NEW slot \in Nat, Good(done, s, slot), NEW t \in Trx, NEW id,
           id = (IF t \in Input THEN <<t, 0>> ELSE <<t, slot>>),
           id \notin IdsOf(s.gto), id \notin done, t \in Input => Packed(t) \in done
    PROVE  Good(done, create_generated(s, t, slot), slot)
<1>1. PICK row : row = Generated(t, slot, s.next)
  OBVIOUS
<1>2. RowOK(row, slot) /\ row.trx = t /\ row.trx_id = id
  BY <1>1, GeneratedRow
<1>3. PICK u : u = [s EXCEPT !.gto = @ \cup {row}, !.next = @ + 1,
                             !.sent = @ \cup {row.trx_id}, !.cancelled = @ \ {row.trx_id}]
  OBVIOUS
<1>4. /\ DOMAIN u = Fields /\ u.gto = s.gto \cup {row} /\ u.dedup = s.dedup
      /\ u.sent = s.sent \cup {row.trx_id} /\ u.cancelled = s.cancelled \ {row.trx_id}
  BY <1>3 DEF Good, Fields
<1>5. row.trx \in Input => row.trx_id = <<row.trx, 0>> /\ Packed(row.trx) \in done
  BY <1>2
<1>6. row.trx_id \notin IdsOf(s.gto) /\ row.trx_id \notin done
  BY <1>2
<1>7. Ok(done, s.dedup, s.gto \cup {row}, s.sent \cup {row.trx_id}, s.cancelled \ {row.trx_id}, slot)
  BY <1>2, <1>5, <1>6, OkSent DEF Good
<1>8. Good(done, u, slot)
  BY <1>4, <1>7 DEF Good
<1>9. Same(u, create_generated(s, t, slot))
  BY <1>1, <1>3, <1>4, RamSame DEF create_generated
<1> QED
  BY <1>8, <1>9, SameGood

\* A contract sends a transaction: a new row, or, in a block that is
\* validated, in place of the one with the same sender id.
LEMMA ScheduleGood ==
    ASSUME NEW done, NEW s, NEW slot \in Nat, Good(done, s, slot), NEW t \in Trx \ Input,
           NEW replace, NEW producing, NEW o,
           o = schedule_deferred_transaction(s, t, replace, slot, producing), o.exc = None
    PROVE  Good(done, o.s, slot)
<1>1. Data[t].sender # None /\ t \in Trx /\ t \notin Input
  BY DataAssumption
<1>2. CASE SentRows(s, t) = {}
  <2>1. o.s = create_generated(s, t, slot)
    BY <1>2 DEF schedule_deferred_transaction
  <2>2. <<t, slot>> \notin IdsOf(s.gto)
    <3> SUFFICES ASSUME NEW row \in s.gto, row.trx_id = <<t, slot>> PROVE FALSE
      BY DEF IdsOf
    <3>1. row.trx = t /\ row.sender = Data[t].sender
      BY DEF Good, Ok, RowsOK, RowOK
    <3> QED
      BY <1>1, <1>2, <3>1 DEF SentRows
  <2>3. <<t, slot>> \notin done
    <3>1. \A u \in Input : <<t, slot>> # Packed(u)
      BY <1>1, DataAssumption DEF Packed
    <3>2. ~(<<t, slot>>[1] \in Input) /\ ~(<<t, slot>>[2] < slot)
      BY <1>1
    <3> QED
      BY <3>1, <3>2 DEF Good, Ok, DoneOK
  <2> QED
    BY <1>1, <2>1, <2>2, <2>3, CreateGood
<1>3. CASE SentRows(s, t) # {}
  <2>1. o.s = ReplaceRow(s, t, slot)
    BY <1>3 DEF schedule_deferred_transaction, None
  <2>2. PICK old : old = CHOOSE row \in SentRows(s, t) : TRUE
    OBVIOUS
  <2>3. old \in s.gto /\ old.trx = t
    BY <1>3, <2>2 DEF SentRows
  <2>4. PICK g : g = Generated(t, slot, old.no)
    OBVIOUS
  <2>5. PICK new : new = [g EXCEPT !.trx_id = old.trx_id]
    OBVIOUS
  <2>6. /\ new.trx_id = old.trx_id /\ new.trx = t /\ new.published = slot
        /\ new.sender = Data[t].sender
    BY <2>4, <2>5 DEF Generated
  <2>7. \E n \in Nat : old.trx_id = <<t, n>> /\ n <= slot
    BY <2>3 DEF Good, Ok, RowsOK, RowOK
  <2>8. RowOK(new, slot)
    BY <1>1, <2>6, <2>7 DEF RowOK
  <2>9. PICK u : u = [s EXCEPT !.gto = (@ \ {old}) \cup {new}]
    OBVIOUS
  <2>10. /\ DOMAIN u = Fields /\ u.gto = (s.gto \ {old}) \cup {new} /\ u.dedup = s.dedup
         /\ u.sent = s.sent /\ u.cancelled = s.cancelled
    BY <2>9 DEF Good, Fields
  <2>11. Ok(done, s.dedup, (s.gto \ {old}) \cup {new}, s.sent, s.cancelled, slot)
    BY <2>3, <2>6, <2>8, OkReplaced DEF Good
  <2>12. Good(done, u, slot)
    BY <2>10, <2>11 DEF Good
  <2>13. ReplaceRow(s, t, slot) = add_ram_usage(u, new.payer, 1)
    BY <2>2, <2>4, <2>5, <2>9 DEF ReplaceRow
  <2>14. Same(u, ReplaceRow(s, t, slot))
    BY <2>10, <2>13, RamSame
  <2> QED
    BY <2>1, <2>12, <2>14, SameGood
<1> QED
  BY <1>2, <1>3

\* The actions of a transaction.
LEMMA ExecGood ==
    ASSUME NEW done, NEW s, NEW slot \in Nat, Good(done, s, slot), NEW c, c.trx \in Trx, c.now = slot,
           NEW o, o = exec(c, s), o.exc = None
    PROVE  Good(done, o.s, slot)
<1> DEFINE d == Data[c.trx]
<1>1. PICK s1 : s1 = [s EXCEPT !.ran = Append(@, <<"run", c.trx, c.now>>)]
  OBVIOUS
<1>2. PICK s2 : s2 = IF d.cancel = None THEN s1 ELSE cancel_deferred_transaction(s1, d.cancel)
  OBVIOUS
<1>3. Good(done, s1, slot)
  <2>1. Same(s, s1)
    BY <1>1, RanSame DEF Good
  <2> QED
    BY <2>1, SameGood
<1>4. Good(done, s2, slot)
  BY <1>2, <1>3, CancelGood
<1>5. /\ ~d.asserts
      /\ o = IF d.send = None THEN [exc |-> None, s |-> s2]
             ELSE schedule_deferred_transaction(s2, d.send, d.replace, slot, c.producing)
  BY <1>1, <1>2 DEF exec, None
<1>6. CASE d.send = None
  BY <1>4, <1>5, <1>6
<1>7. CASE d.send # None
  <2>1. d.send \in Trx \ Input
    BY <1>7, DataAssumption
  <2>2. o = schedule_deferred_transaction(s2, d.send, d.replace, slot, c.producing)
    BY <1>5, <1>7
  <2> HIDE DEF d
  <2> QED
    BY <1>4, <2>1, <2>2, ScheduleGood
<1> QED
  BY <1>6, <1>7

\* An input that is recorded and runs, or is stored until its delay is over.
LEMMA ExecInputGood ==
    ASSUME NEW done, NEW s, NEW slot \in Nat, Good(done, s, slot), NEW c, c.trx \in Input, c.now = slot,
           ~(Data[c.trx].expiration < slot), NEW o, o = exec_input(c, s), o.exc = None
    PROVE  Packed(c.trx) \notin done /\ Good(done \cup {Packed(c.trx)}, o.s, slot)
<1> DEFINE all == done \cup {Packed(c.trx)}
<1>1. PICK s1 : s1 = [s EXCEPT !.dedup = @ \cup {c.trx}]
  OBVIOUS
<1>2. c.trx \in Trx
  BY DataAssumption
<1>3. /\ c.trx \notin s.dedup
      /\ o = IF Data[c.trx].delay = 0 THEN exec(c, s1)
             ELSE [exc |-> None, s |-> create_generated(s1, c.trx, slot)]
  BY <1>1 DEF exec_input, None
<1>4. /\ DOMAIN s1 = Fields /\ s1.dedup = s.dedup \cup {c.trx} /\ s1.gto = s.gto
      /\ s1.sent = s.sent /\ s1.cancelled = s.cancelled
  BY <1>1 DEF Good, Fields
<1>5. Ok(done, s.dedup, s.gto, s.sent, s.cancelled, slot)
  BY DEF Good
<1>6. /\ Packed(c.trx) \notin done /\ <<c.trx, 0>> \notin s.sent
      /\ Ok(done \cup {Packed(c.trx)}, s.dedup \cup {c.trx}, s.gto, s.sent, s.cancelled, slot)
  BY <1>3, <1>5, OkRecorded
<1>7. Good(all, s1, slot)
  BY <1>4, <1>6 DEF Good
<1>8. <<c.trx, 0>> \notin IdsOf(s1.gto) /\ <<c.trx, 0>> \notin all /\ Packed(c.trx) \in all
  <2>1. <<c.trx, 0>> \notin IdsOf(s1.gto)
    BY <1>4, <1>5, <1>6 DEF Ok, Accounted
  <2>2. \A u \in Input : <<c.trx, 0>> # Packed(u)
    BY <1>2, DataAssumption DEF Packed
  <2>3. <<c.trx, 0>> \notin done
    BY <1>5, <1>6, <2>2 DEF Ok, DoneOK
  <2> QED
    BY <2>1, <2>2, <2>3
<1> HIDE DEF all
<1>9. Good(all, o.s, slot)
  <2>1. CASE Data[c.trx].delay = 0
    BY <1>2, <1>3, <1>7, <2>1, ExecGood
  <2>2. CASE Data[c.trx].delay # 0
    <3>1. o.s = create_generated(s1, c.trx, slot)
      BY <1>3, <2>2
    <3>2. <<c.trx, 0>> = (IF c.trx \in Input THEN <<c.trx, 0>> ELSE <<c.trx, slot>>)
      OBVIOUS
    <3> QED
      BY <1>2, <1>7, <1>8, <3>1, <3>2, CreateGood
  <2> QED
    BY <2>1, <2>2
<1> QED
  BY <1>6, <1>9 DEF all

\* A context that throws no exception leaves the state of its actions, with
\* the usage billed.
LEMMA RunDone ==
    ASSUME NEW c, NEW s, NEW body, NEW e, NEW cut, NEW r, r = Run(c, s, body, e, cut), r.exc = None
    PROVE  c.pre = None /\ body.exc = None /\ (DOMAIN body.s = Fields => Same(body.s, r.s))
<1>1. PICK early : early = (c.billed > initial_objective_duration_limit(c, s))
  OBVIOUS
<1>2. PICK exc : exc = Failure(c, s, body, e, cut, early)
  OBVIOUS
<1>3. PICK billed : billed = update_billed_cpu_time(c, e)
  OBVIOUS
<1>4. r = Finished(c, s, body, billed, early, exc)
  BY <1>1, <1>2, <1>3 DEF Run
<1>5. exc = None /\ r.s = add_transaction_usage(body.s, {c.payer}, billed)
  BY <1>4 DEF Finished
<1>6. billing_timer_exception_code(c, s) # None
  BY DEF billing_timer_exception_code, None
<1>7. c.pre = None /\ body.exc = None
  BY <1>2, <1>5, <1>6 DEF Failure
<1> QED
  BY <1>5, <1>7, UsageSame

\* push_transaction adds a receipt if and only if there is no exception, and
\* then the input had none.
InputResult(done, t, slot, o) ==
    /\ o.exc # None => o.receipts = <<>>
    /\ o.exc = None => /\ Packed(t) \notin done /\ Good(done \cup {Packed(t)}, o.s, slot)
                       /\ \E r : r.id = Packed(t) /\ o.receipts = <<r>>

LEMMA PushGood ==
    ASSUME NEW done, NEW s, NEW slot \in Nat, Good(done, s, slot), NEW t \in Input,
           NEW explicit, NEW billed, NEW e, NEW cut
    PROVE  InputResult(done, t, slot, push_transaction(InputContext(t, slot, explicit, billed), s, e, cut))
<1>1. PICK o : o = push_transaction(InputContext(t, slot, explicit, billed), s, e, cut)
  OBVIOUS
<1>2. PICK c : c = InputContext(t, slot, explicit, billed)
  OBVIOUS
<1>3. c.trx = t /\ c.now = slot /\ c.pre = validate_expiration(t, slot)
  BY <1>2 DEF InputContext, Context
<1>4. PICK body : body = exec_input(c, s)
  OBVIOUS
<1>5. PICK r : r = Run(c, s, body, e, cut)
  OBVIOUS
<1>6. o = InputOutcome(t, r)
  BY <1>1, <1>2, <1>3, <1>4, <1>5 DEF push_transaction
<1>7. /\ o.exc = r.exc /\ o.s = r.s
      /\ o.receipts = IF r.exc = None THEN <<Receipt(Packed(t), InputStatus(t), r.billed)>> ELSE <<>>
  BY <1>6 DEF InputOutcome, Outcome
<1>8. Receipt(Packed(t), InputStatus(t), r.billed).id = Packed(t)
  BY DEF Receipt
<1>9. ASSUME r.exc = None PROVE Packed(t) \notin done /\ Good(done \cup {Packed(t)}, r.s, slot)
  <2>1. c.pre # None \/ ~(Data[t].expiration < slot)
    BY <1>3 DEF validate_expiration, None
  <2>2. ~(Data[t].expiration < slot) /\ body.exc = None =>
            Packed(t) \notin done /\ Good(done \cup {Packed(t)}, body.s, slot)
    BY <1>3, <1>4, ExecInputGood
  <2>3. c.pre = None /\ body.exc = None
    BY <1>5, <1>9, RunDone
  <2>4. Packed(t) \notin done /\ Good(done \cup {Packed(t)}, body.s, slot)
    BY <2>1, <2>2, <2>3
  <2>5. DOMAIN body.s = Fields
    BY <2>4 DEF Good
  <2>6. Same(body.s, r.s)
    BY <1>5, <1>9, <2>5, RunDone
  <2> QED
    BY <2>4, <2>6, SameGood
<1>10. InputResult(done, t, slot, o)
  BY <1>7, <1>8, <1>9 DEF InputResult
<1> QED
  BY <1>1, <1>10

\* push_scheduled_transaction leaves the state alone and adds no receipt, or
\* adds the receipt of the row and takes the row from the table.
RowResult(done, s, row, slot, o) ==
    \/ o.receipts = <<>> /\ o.s = s
    \/ /\ row.trx_id \notin done /\ Good(done \cup {row.trx_id}, o.s, slot)
       /\ \E r : r.id = row.trx_id /\ o.receipts = <<r>>

LEMMA ScheduledGood ==
    ASSUME NEW done, NEW s, NEW slot \in Nat, Good(done, s, slot), NEW row \in s.gto,
           row.published < slot, NEW c, c.trx = row.trx, c.now = slot, NEW e, NEW cut, NEW h, NEW hcut
    PROVE  RowResult(done, s, row, slot, push_scheduled_transaction(row, c, s, e, cut, h, hcut))
<1>1. PICK o : o = push_scheduled_transaction(row, c, s, e, cut, h, hcut)
  OBVIOUS
<1> DEFINE all == done \cup {row.trx_id}
<1>3. c.trx = row.trx /\ c.now = slot /\ c.trx \in Trx
  BY DEF Good, Ok, RowsOK, RowOK
<1>4. PICK s1 : s1 = remove_scheduled_transaction(s, row)
  OBVIOUS
<1>5. row.trx_id \notin done /\ Good(all, s1, slot)
  BY <1>4, RemoveGood
<1> HIDE DEF all
<1>6. PICK body : body = exec(c, s1)
  OBVIOUS
<1>7. body.exc = None => Good(all, body.s, slot)
  BY <1>3, <1>5, <1>6, ExecGood
<1>8. PICK r : r = Run(c, s1, body, e, cut)
  OBVIOUS
<1>9. r.exc = None => Good(all, r.s, slot)
  <2> SUFFICES ASSUME r.exc = None PROVE Good(all, r.s, slot)
    OBVIOUS
  <2>1. body.exc = None /\ (DOMAIN body.s = Fields => Same(body.s, r.s))
    BY <1>8, RunDone
  <2>2. DOMAIN body.s = Fields
    BY <1>7, <2>1 DEF Good
  <2> QED
    BY <1>7, <2>1, <2>2, SameGood
<1>10. PICK p : p = apply_onerror(row, c, s1, e, h, hcut)
  OBVIOUS
<1>11. p.exc = None => Good(all, p.s, slot)
  <2> SUFFICES ASSUME p.exc = None PROVE Good(all, p.s, slot)
    OBVIOUS
  <2>1. PICK u : u = [s1 EXCEPT !.ran = Append(@, <<"onerror", row.trx, c.now>>)]
    OBVIOUS
  <2>2. PICK b : b = IF Data[row.trx].handler THEN [exc |-> None, s |-> u] ELSE [exc |-> "assert", s |-> s1]
    OBVIOUS
  <2>3. p = Run(HandlerContext(row, c), s1, b, e + h, hcut)
    BY <1>10, <2>1, <2>2 DEF apply_onerror, RunHandler
  <2>4. Same(s1, u)
    BY <1>5, <2>1, RanSame DEF Good
  <2>5. b.exc = None => b.s = u
    BY <2>2 DEF None
  <2>6. b.exc = None /\ (DOMAIN b.s = Fields => Same(b.s, p.s))
    BY <2>3, RunDone
  <2>7. Same(b.s, p.s)
    BY <2>4, <2>5, <2>6 DEF Same
  <2>8. Good(all, u, slot)
    BY <1>5, <2>4, SameGood
  <2> QED
    BY <2>5, <2>6, <2>7, <2>8, SameGood
<1>12. \A x, y, z : Outcome(x, y, z).s = y /\ Outcome(x, y, z).receipts = z
  BY DEF Outcome
<1>13. \A x, y, z : Receipt(x, y, z).id = x
  BY DEF Receipt
<1>14. \/ o.receipts = <<>> /\ o.s = s
       \/ Good(all, o.s, slot) /\ \E q : q.id = row.trx_id /\ o.receipts = <<q>>
  <2>1. \/ o = Outcome("not_ready", s, <<>>)
        \/ o = Outcome(None, s1, <<Receipt(row.trx_id, "expired", c.billed)>>)
        \/ o = Retire(row, c, s, s1, r, p)
    BY <1>1, <1>4, <1>6, <1>8, <1>10 DEF push_scheduled_transaction
  <2>2. ASSUME NEW bill_to, NEW bill, NEW exc, o = GiveUp(row, c, s, s1, bill_to, bill, exc)
        PROVE  \/ o.receipts = <<>> /\ o.s = s
               \/ Good(all, o.s, slot) /\ \E q : q.id = row.trx_id /\ o.receipts = <<q>>
    <3>1. Same(s1, add_transaction_usage(s1, bill_to, bill))
      BY <1>5, UsageSame DEF Good
    <3>2. Good(all, add_transaction_usage(s1, bill_to, bill), slot)
      BY <1>5, <3>1, SameGood
    <3>3. \/ o = Outcome(exc, s, <<>>) \/ o = Outcome("usage", s, <<>>)
          \/ o = Outcome(exc, add_transaction_usage(s1, bill_to, bill),
                         <<Receipt(row.trx_id, "hard_fail", bill)>>)
      BY <2>2 DEF GiveUp
    <3> QED
      BY <1>12, <1>13, <3>2, <3>3
  <2>3. CASE o = Outcome("not_ready", s, <<>>)
    BY <1>12, <2>3
  <2>4. CASE o = Outcome(None, s1, <<Receipt(row.trx_id, "expired", c.billed)>>)
    BY <1>5, <1>12, <1>13, <2>4
  <2>5. CASE o = Retire(row, c, s, s1, r, p)
    <3>1. \/ r.exc = None /\ o = Outcome(None, r.s, <<Receipt(row.trx_id, "executed", r.billed)>>)
          \/ o = GiveUp(row, c, s, s1, r.bill_to, HardFailCpu(c, s1, r.billed), r.exc)
          \/ p.exc = None /\ o = Outcome(None, p.s, <<Receipt(row.trx_id, "soft_fail", p.billed)>>)
          \/ o = GiveUp(row, c, s, s1, r.bill_to, HardFailCpu(c, s1, p.billed), p.exc)
      BY <2>5 DEF Retire
    <3>2. CASE r.exc = None /\ o = Outcome(None, r.s, <<Receipt(row.trx_id, "executed", r.billed)>>)
      BY <1>9, <1>12, <1>13, <3>2
    <3>3. CASE p.exc = None /\ o = Outcome(None, p.s, <<Receipt(row.trx_id, "soft_fail", p.billed)>>)
      BY <1>11, <1>12, <1>13, <3>3
    <3>4. CASE o = GiveUp(row, c, s, s1, r.bill_to, HardFailCpu(c, s1, r.billed), r.exc)
      BY <2>2, <3>4
    <3>5. CASE o = GiveUp(row, c, s, s1, r.bill_to, HardFailCpu(c, s1, p.billed), p.exc)
      BY <2>2, <3>5
    <3> QED
      BY <3>1, <3>2, <3>3, <3>4, <3>5
  <2> QED
    BY <2>1, <2>3, <2>4, <2>5
<1>15. RowResult(done, s, row, slot, o)
  BY <1>5, <1>14 DEF all, RowResult
<1> QED
  BY <1>1, <1>15

-----------------------------------------------------------------------------
(***************************************************************************)
(* apply_block, and the blocks of peers.                                   *)
(***************************************************************************)
Begun(s, now) == [ok |-> TRUE, s |-> start_block(s, now), trxs |-> {}, failed |-> {}]

\* What apply_block has after k receipts.
ApplyStep(run, k, s, receipts, now) ==
    IF k = 0 THEN Begun(s, now) ELSE ApplyReceipt(run[k - 1], receipts[k], now)

LEMMA ApplyRuns ==
    ASSUME NEW s, NEW receipts, NEW now, Len(receipts) \in Nat
    PROVE  \E run : /\ \A k \in 0 .. Len(receipts) : run[k] = ApplyStep(run, k, s, receipts, now)
                    /\ ApplyReceipts(s, receipts, now) = run[Len(receipts)]
<1> DEFINE N == Len(receipts)
           Step(run, k) == ApplyStep(run, k, s, receipts, now)
           Fine(run) == run = [k \in 0 .. N |-> Step(run, k)]
           D == {k \in Nat : \E run : \A l \in 0 .. k : run[l] = Step(run, l)}
<1>0. ASSUME NEW g, NEW h, NEW k \in Nat, k # 0 => g[k - 1] = h[k - 1] PROVE Step(g, k) = Step(h, k)
  BY <1>0 DEF ApplyStep
<1>1. 0 \in D
  <2> DEFINE run == [k \in {0} |-> Step(<<>>, k)]
  <2>1. Step(run, 0) = Step(<<>>, 0)
    BY <1>0
  <2>2. \A k \in 0 .. 0 : run[k] = Step(run, k)
    BY <2>1
  <2> HIDE DEF run, Step
  <2> QED
    BY <2>2
<1>2. ASSUME NEW k \in Nat, k \in D PROVE k + 1 \in D
  <2>1. PICK g : \A l \in 0 .. k : g[l] = Step(g, l)
    BY <1>2
  <2> DEFINE h == [l \in 0 .. k + 1 |-> IF l <= k THEN g[l] ELSE Step(g, l)]
  <2> HIDE DEF Step
  <2>2. ASSUME NEW l \in 0 .. k + 1 PROVE h[l] = Step(h, l)
    <3>1. l # 0 => h[l - 1] = g[l - 1]
      OBVIOUS
    <3>2. Step(h, l) = Step(g, l)
      BY <1>0, <3>1
    <3> QED
      BY <2>1, <3>2
  <2> HIDE DEF h
  <2> QED
    BY <2>2
<1> HIDE DEF Step
<1>3. Nat \subseteq D
  <2> HIDE DEF D
  <2> QED
    BY <1>1, <1>2, SetInduction
<1>4. PICK g : \A k \in 0 .. N : g[k] = Step(g, k)
  BY <1>3
<1> DEFINE h == [k \in 0 .. N |-> g[k]]
<1>5. ASSUME NEW k \in 0 .. N PROVE h[k] = Step(h, k)
  <2>1. k # 0 => h[k - 1] = g[k - 1]
    OBVIOUS
  <2>2. Step(h, k) = Step(g, k)
    BY <1>0, <2>1
  <2> QED
    BY <1>4, <2>2
<1>6. Fine(h)
  BY <1>5
<1> HIDE DEF h
<1>7. Fine(CHOOSE run : Fine(run))
  BY <1>6, Zenon
<1>8. ApplyReceipts(s, receipts, now) = (CHOOSE run : Fine(run))[N]
  BY DEF ApplyReceipts, Step, ApplyStep, Begun
<1>9. PICK run : run = CHOOSE f : Fine(f)
  OBVIOUS
<1>10. \A k \in 0 .. N : run[k] = ApplyStep(run, k, s, receipts, now)
  BY <1>7, <1>9 DEF Step
<1> QED
  BY <1>8, <1>9, <1>10

LEMMA ApplyNone ==
    ASSUME NEW s, NEW now
    PROVE  ApplyReceipts(s, <<>>, now) = Begun(s, now)
<1>1. PICK rs : rs = <<>> /\ Len(rs) = 0
  OBVIOUS
<1>2. PICK run : /\ \A k \in 0 .. Len(rs) : run[k] = ApplyStep(run, k, s, rs, now)
                 /\ ApplyReceipts(s, rs, now) = run[Len(rs)]
  BY <1>1, ApplyRuns
<1>3. run[0] = ApplyStep(run, 0, s, rs, now) /\ ApplyReceipts(s, rs, now) = run[0]
  BY <1>1, <1>2
<1> QED
  BY <1>1, <1>3 DEF ApplyStep

\* One receipt more.
LEMMA ApplyMore ==
    ASSUME NEW s, NEW now, NEW old, Len(old) \in Nat, NEW r, NEW new, Len(new) = Len(old) + 1,
           new[Len(old) + 1] = r, \A k \in 1 .. Len(old) : new[k] = old[k]
    PROVE  ApplyReceipts(s, new, now) = ApplyReceipt(ApplyReceipts(s, old, now), r, now)
<1>1. PICK n \in Nat : n = Len(old) /\ Len(new) = n + 1 /\ new[n + 1] = r /\ \A k \in 1 .. n : new[k] = old[k]
  OBVIOUS
<1>2. PICK g : (\A k \in 0 .. n : g[k] = ApplyStep(g, k, s, old, now)) /\ ApplyReceipts(s, old, now) = g[n]
  BY <1>1, ApplyRuns
<1>3. PICK h : /\ \A k \in 0 .. n + 1 : h[k] = ApplyStep(h, k, s, new, now)
               /\ ApplyReceipts(s, new, now) = h[n + 1]
  <2>1. PICK h : /\ \A k \in 0 .. Len(new) : h[k] = ApplyStep(h, k, s, new, now)
                 /\ ApplyReceipts(s, new, now) = h[Len(new)]
    <3>1. Len(new) \in Nat
      BY <1>1
    <3> QED
      BY <3>1, ApplyRuns
  <2> QED
    BY <1>1, <2>1
<1> DEFINE D == {k \in Nat : k <= n => g[k] = h[k]}
<1>4. 0 \in D
  <2>1. g[0] = ApplyStep(g, 0, s, old, now) /\ h[0] = ApplyStep(h, 0, s, new, now)
    BY <1>2, <1>3
  <2>2. g[0] = Begun(s, now) /\ h[0] = Begun(s, now)
    BY <2>1 DEF ApplyStep
  <2> QED
    BY <2>2
<1>5. ASSUME NEW k \in Nat, k \in D PROVE k + 1 \in D
  <2> SUFFICES ASSUME k + 1 <= n PROVE g[k + 1] = h[k + 1]
    OBVIOUS
  <2>1. g[k] = h[k] /\ k + 1 \in 0 .. n /\ k + 1 \in 0 .. n + 1 /\ k + 1 \in 1 .. n /\ (k + 1) - 1 = k /\ k + 1 # 0
    BY <1>5
  <2>2. g[k + 1] = ApplyReceipt(g[k], old[k + 1], now)
    BY <1>2, <2>1 DEF ApplyStep
  <2>3. h[k + 1] = ApplyReceipt(h[k], new[k + 1], now)
    BY <1>3, <2>1 DEF ApplyStep
  <2> QED
    BY <1>1, <2>1, <2>2, <2>3
<1>6. Nat \subseteq D
  <2> HIDE DEF D
  <2> QED
    BY <1>4, <1>5, SetInduction
<1>7. g[n] = h[n]
  BY <1>6
<1>8. n + 1 \in 0 .. n + 1 /\ (n + 1) - 1 = n /\ n + 1 # 0
  OBVIOUS
<1>9. h[n + 1] = ApplyReceipt(h[n], new[n + 1], now)
  BY <1>3, <1>8 DEF ApplyStep
<1> QED
  BY <1>1, <1>2, <1>3, <1>7, <1>9

LEMMA ApplyOne ==
    ASSUME NEW s, NEW receipt, NEW now
    PROVE  ApplyReceipts(s, <<receipt>>, now) = ApplyReceipt(Begun(s, now), receipt, now)
<1>1. PICK new, old : new = <<receipt>> /\ old = <<>>
  OBVIOUS
<1>2. Len(old) = 0 /\ Len(new) = Len(old) + 1 /\ new[Len(old) + 1] = receipt
  BY <1>1
<1>a. Len(old) \in Nat /\ \A k \in 1 .. Len(old) : new[k] = old[k]
  BY <1>2
<1>3. ApplyReceipts(s, new, now) = ApplyReceipt(ApplyReceipts(s, old, now), receipt, now)
  BY <1>2, <1>a, ApplyMore
<1> QED
  BY <1>1, <1>3, ApplyNone

\* The ids of receipts.
Ids(receipts) == {receipts[i].id : i \in DOMAIN receipts}

LEMMA IdsOfOne ==
    ASSUME NEW r
    PROVE  Ids(<<r>>) = {r.id} /\ Ids(<<>>) = {} /\ <<r>> # <<>>
<1>1. PICK rs : rs = <<r>>
  OBVIOUS
<1>2. DOMAIN rs = {1} /\ rs[1] = r
  BY <1>1
<1>3. Ids(rs) = {r.id}
  BY <1>2 DEF Ids
<1>4. DOMAIN <<>> = {}
  OBVIOUS
<1>5. Ids(<<>>) = {}
  BY <1>4 DEF Ids
<1> QED
  BY <1>1, <1>2, <1>3, <1>4, <1>5

\* A block of a peer has no receipt, that of an input, or that of a row.
LEMMA PeerBlock ==
    ASSUME NEW done, NEW s, NEW base \in Nat, NEW slot \in Nat, Good(done, s, base), base < slot,
           NEW receipts \in PeerReceipts(s, slot)
    PROVE  \/ receipts = <<>>
           \/ \E r : receipts = <<r>> /\ \E t \in Input : r.id = Packed(t)
           \/ \E r : receipts = <<r>> /\ \E row \in s.gto : r.id = row.trx_id
<1>1. PICK u : u = start_block(s, slot)
  OBVIOUS
<1>2. Good(done, u, slot) /\ u.gto = s.gto
  BY <1>1, StartGood
<1>3. \/ receipts = <<>>
      \/ \E t \in Input, cpu \in PeerCpu : receipts = <<Receipt(Packed(t), InputStatus(t), cpu)>>
      \/ \E row \in s.gto, cpu \in PeerCpu : receipts = RowReceipts(u, row, slot, cpu)
  BY <1>1 DEF PeerReceipts
<1>4. ASSUME NEW row \in s.gto, NEW cpu \in PeerCpu, receipts = RowReceipts(u, row, slot, cpu)
      PROVE  receipts = <<>> \/ \E r : receipts = <<r>> /\ r.id = row.trx_id
  <2>a. PICK c : c = PeerContext(row, slot, cpu)
    OBVIOUS
  <2>0. c = PeerContext(row, slot, cpu) /\ c.trx = row.trx /\ c.now = slot
    BY <2>a DEF PeerContext, RowContext, Context
  <2>1. PICK o : o = push_scheduled_transaction(row, c, u, 0, None, 0, None)
    OBVIOUS
  <2>2. receipts = o.receipts
    BY <1>4, <2>0, <2>1 DEF RowReceipts
  <2>3. row.published \in Nat /\ row.published <= base
    BY DEF Good, Ok, RowsOK, RowOK
  <2>4. Good(done, u, slot) /\ row \in u.gto /\ row.published < slot
    BY <1>2, <2>3
  <2>5. RowResult(done, u, row, slot, push_scheduled_transaction(row, c, u, 0, None, 0, None))
    BY <2>0, <2>4, ScheduledGood, Zenon
  <2>6. o.receipts = <<>> \/ \E r : r.id = row.trx_id /\ o.receipts = <<r>>
    BY <2>1, <2>5 DEF RowResult
  <2> QED
    BY <2>2, <2>6
<1>5. \A t, cpu : Receipt(Packed(t), InputStatus(t), cpu).id = Packed(t)
  BY DEF Receipt
<1> QED
  BY <1>3, <1>4, <1>5

\* A block that apply_block accepts: its receipts are new, and the state
\* after it is that of the receipts up to it.
Applied(done, receipts, slot, acc) ==
    /\ Good(done \cup Ids(receipts), acc.s, slot)
    /\ Ids(receipts) \cap done = {}
    /\ receipts = <<>> \/ \E r : receipts = <<r>>

LEMMA ApplyGood ==
    ASSUME NEW done, NEW s, NEW base \in Nat, NEW slot \in Nat, Good(done, s, base), base < slot,
           NEW receipts \in PeerReceipts(s, slot), ApplyReceipts(s, receipts, slot).ok
    PROVE  Applied(done, receipts, slot, ApplyReceipts(s, receipts, slot))
<1>1. PICK acc : acc = ApplyReceipts(s, receipts, slot)
  OBVIOUS
<1>2. acc.ok
  BY <1>1
<1>3. PICK u : u = start_block(s, slot)
  OBVIOUS
<1>4. Good(done, u, slot) /\ u.gto = s.gto
  BY <1>3, StartGood
<1>5. ASSUME receipts = <<>>
      PROVE  Good(done \cup Ids(receipts), acc.s, slot) /\ Ids(receipts) \cap done = {}
  <2>1. acc.s = u
    BY <1>1, <1>3, <1>5, ApplyNone DEF Begun
  <2> QED
    BY <1>4, <1>5, <2>1, IdsOfOne
<1>6. ASSUME NEW r, receipts = <<r>>,
             (\E t \in Input : r.id = Packed(t)) \/ (\E row \in s.gto : r.id = row.trx_id)
      PROVE  Good(done \cup {r.id}, acc.s, slot) /\ r.id \notin done
  <2>1. PICK o : o = OutcomeOf(u, r, slot)
    OBVIOUS
  <2>2. acc = CheckReceipt(Begun(s, slot), r, o)
    BY <1>1, <1>3, <1>6, <2>1, ApplyOne DEF ApplyReceipt, Begun
  <2>3. acc.s = o.s
    BY <2>2 DEF CheckReceipt
  <2>4. CheckReceipt(Begun(s, slot), r, o).ok => o.receipts = <<r>>
    BY DEF CheckReceipt
  <2>5. o.receipts = <<r>>
    BY <1>2, <2>2, <2>4, Zenon
  <2>6. ASSUME NEW t \in Input, r.id = Packed(t)
        PROVE  Good(done \cup {r.id}, acc.s, slot) /\ r.id \notin done
    <3>1. r.id[1] = "packed" /\ r.id[2] = t
      BY <2>6 DEF Packed
    <3>2. o = push_transaction(InputContext(t, slot, TRUE, r.cpu), u, 0, None)
      BY <2>1, <3>1 DEF OutcomeOf
    <3>3. Good(done, u, slot)
      BY <1>4
    <3>4. InputResult(done, t, slot, push_transaction(InputContext(t, slot, TRUE, r.cpu), u, 0, None))
      BY <3>3, PushGood, Zenon
    <3>5. /\ o.exc # None => o.receipts = <<>>
          /\ o.exc = None => Packed(t) \notin done /\ Good(done \cup {Packed(t)}, o.s, slot)
      BY <3>2, <3>4 DEF InputResult
    <3> QED
      BY <2>3, <2>5, <2>6, <3>5, IdsOfOne
  <2>7. ASSUME NEW row \in s.gto, r.id = row.trx_id
        PROVE  Good(done \cup {r.id}, acc.s, slot) /\ r.id \notin done
    <3>1. r.id[1] # "packed"
      <4>1. PICK n \in Nat : row.trx_id = <<row.trx, n>> /\ row.trx \in Trx
        BY DEF Good, Ok, RowsOK, RowOK
      <4> QED
        BY <2>7, <4>1, DataAssumption
    <3>2. Rows(u, r.id) # {}
      BY <1>4, <2>7 DEF Rows
    <3>3. PICK q : q = CHOOSE x \in Rows(u, r.id) : TRUE
      OBVIOUS
    <3>4. q \in u.gto /\ q.trx_id = r.id
      BY <3>2, <3>3 DEF Rows
    <3>5. q \in s.gto
      BY <1>4, <3>4
    <3>6. q.published \in Nat /\ q.published <= base
      BY <3>5 DEF Good, Ok, RowsOK, RowOK
    <3>7. q.published < slot
      BY <3>6
    <3>b. PICK c : c = RowContext(q, slot, TRUE, r.cpu)
      OBVIOUS
    <3>c. c = RowContext(q, slot, TRUE, r.cpu) /\ c.trx = q.trx /\ c.now = slot
      BY <3>b DEF RowContext, Context
    <3>8. o = push_scheduled_transaction(q, c, u, 0, None, 0, None)
      BY <2>1, <3>1, <3>2, <3>3, <3>c DEF OutcomeOf
    <3>9. Good(done, u, slot)
      BY <1>4
    <3>10. RowResult(done, u, q, slot, push_scheduled_transaction(q, c, u, 0, None, 0, None))
      BY <3>4, <3>7, <3>9, <3>c, ScheduledGood, Zenon
    <3>11. \/ o.receipts = <<>>
           \/ q.trx_id \notin done /\ Good(done \cup {q.trx_id}, o.s, slot)
      BY <3>8, <3>10 DEF RowResult
    <3> QED
      BY <2>3, <2>5, <3>4, <3>11, IdsOfOne
  <2> QED
    BY <1>6, <2>6, <2>7
<1>7. ASSUME NEW r, receipts = <<r>>,
             (\E t \in Input : r.id = Packed(t)) \/ (\E row \in s.gto : r.id = row.trx_id)
      PROVE  Good(done \cup Ids(receipts), acc.s, slot) /\ Ids(receipts) \cap done = {}
  BY <1>6, <1>7, IdsOfOne
<1>8. \/ receipts = <<>>
      \/ \E r : receipts = <<r>> /\ \E t \in Input : r.id = Packed(t)
      \/ \E r : receipts = <<r>> /\ \E row \in s.gto : r.id = row.trx_id
  BY PeerBlock
<1>9. Applied(done, receipts, slot, acc)
  BY <1>5, <1>7, <1>8 DEF Applied
<1> QED
  BY <1>1, <1>9

-----------------------------------------------------------------------------
(***************************************************************************)
(* The chain: the receipts of its first n blocks, and what holds of each   *)
(* block.  b fits behind bs if its receipts are new and its state is good. *)
(***************************************************************************)
Sequence(seq) == \E S : seq \in Seq(S)

DoneIn(bs, n) == UNION {Ids(bs[i].receipts) : i \in 1 .. n}

NoRepeat(receipts) == \A i, j \in DOMAIN receipts : receipts[i].id = receipts[j].id => i = j

Fresh(bs, i) == NoRepeat(bs[i].receipts) /\ Ids(bs[i].receipts) \cap DoneIn(bs, i - 1) = {}

Chain(bs) ==
    /\ Sequence(bs) /\ Len(bs) > 0
    /\ \A i \in 1 .. Len(bs) :
          /\ bs[i].slot \in Nat /\ Good(DoneIn(bs, i), bs[i].db, bs[i].slot)
          /\ Fresh(bs, i)

Fits(bs, b) ==
    /\ b.slot \in Nat /\ Good(DoneIn(bs, Len(bs)) \cup Ids(b.receipts), b.db, b.slot)
    /\ Sequence(b.receipts) /\ NoRepeat(b.receipts)
    /\ Ids(b.receipts) \cap DoneIn(bs, Len(bs)) = {}

LEMMA SequenceLen ==
    ASSUME NEW q, Sequence(q)
    PROVE  Len(q) \in Nat /\ DOMAIN q = 1 .. Len(q)
<1>1. PICK S : q \in Seq(S)
  BY DEF Sequence
<1> QED
  BY <1>1

LEMMA SequenceAppend ==
    ASSUME NEW q, Sequence(q), NEW x
    PROVE  /\ Sequence(Append(q, x)) /\ Len(Append(q, x)) = Len(q) + 1
           /\ \A i \in 1 .. Len(q) : Append(q, x)[i] = q[i]
           /\ Append(q, x)[Len(q) + 1] = x
           /\ q \o <<x>> = Append(q, x)
<1>1. PICK S : q \in Seq(S)
  BY DEF Sequence
<1>2. PICK T : T = S \cup {x}
  OBVIOUS
<1>3. q \in Seq(T) /\ x \in T
  BY <1>1, <1>2
<1>4. /\ Append(q, x) \in Seq(T) /\ Len(Append(q, x)) = Len(q) + 1
      /\ \A i \in 1 .. Len(q) : Append(q, x)[i] = q[i]
      /\ Append(q, x)[Len(q) + 1] = x
  BY <1>3, AppendProperties
<1>5. q \o <<x>> = Append(q, x)
  BY <1>3
<1> QED
  BY <1>4, <1>5 DEF Sequence

LEMMA SequenceFront ==
    ASSUME NEW q, Sequence(q), Len(q) > 1
    PROVE  /\ Sequence(Front(q)) /\ Len(Front(q)) = Len(q) - 1
           /\ \A i \in 1 .. Len(q) - 1 : Front(q)[i] = q[i]
<1>1. PICK S : q \in Seq(S)
  BY DEF Sequence
<1>2. /\ SubSeq(q, 1, Len(q) - 1) \in Seq(S) /\ Len(SubSeq(q, 1, Len(q) - 1)) = Len(q) - 1
      /\ \A i \in 1 .. Len(q) - 1 : SubSeq(q, 1, Len(q) - 1)[i] = q[i]
  BY <1>1
<1> QED
  BY <1>2 DEF Sequence, Front

\* A receipt with a new id.
LEMMA AddReceipt ==
    ASSUME NEW q, Sequence(q), NoRepeat(q), NEW r, r.id \notin Ids(q)
    PROVE  /\ Sequence(q \o <<r>>) /\ NoRepeat(q \o <<r>>)
           /\ Ids(q \o <<r>>) = Ids(q) \cup {r.id}
<1>1. PICK t : t = Append(q, r)
  OBVIOUS
<1>2. /\ Sequence(t) /\ Len(t) = Len(q) + 1 /\ t[Len(q) + 1] = r /\ q \o <<r>> = t
      /\ \A i \in 1 .. Len(q) : t[i] = q[i]
  BY <1>1, SequenceAppend
<1>3. Len(q) \in Nat /\ DOMAIN q = 1 .. Len(q) /\ DOMAIN t = 1 .. Len(q) + 1
  BY <1>2, SequenceLen
<1>4. 1 .. Len(q) + 1 = (1 .. Len(q)) \cup {Len(q) + 1}
  BY <1>3
<1>5. Ids(t) = Ids(q) \cup {r.id}
  BY <1>2, <1>3, <1>4 DEF Ids
<1>6. \A i \in 1 .. Len(q) : t[i].id \in Ids(q)
  BY <1>2, <1>3 DEF Ids
<1>7. NoRepeat(t)
  BY <1>2, <1>3, <1>4, <1>6 DEF NoRepeat
<1> QED
  BY <1>2, <1>5, <1>7

LEMMA FewReceipts ==
    ASSUME NEW q, q = <<>> \/ \E r : q = <<r>>
    PROVE  Sequence(q) /\ NoRepeat(q)
<1>1. ASSUME q = <<>> PROVE Sequence(q) /\ NoRepeat(q)
  <2>1. q \in Seq({}) /\ DOMAIN q = {}
    BY <1>1
  <2> QED
    BY <2>1 DEF Sequence, NoRepeat
<1>2. ASSUME NEW r, q = <<r>> PROVE Sequence(q) /\ NoRepeat(q)
  <2>1. q \in Seq({r}) /\ DOMAIN q = {1}
    BY <1>2
  <2> QED
    BY <2>1 DEF Sequence, NoRepeat
<1> QED
  BY <1>1, <1>2

\* DoneIn depends on the first blocks only, and grows by one block's ids.
LEMMA DoneSame ==
    ASSUME NEW bs, NEW cs, NEW n \in Nat, \A i \in 1 .. n : bs[i] = cs[i]
    PROVE  DoneIn(bs, n) = DoneIn(cs, n)
BY DEF DoneIn

LEMMA DoneNext ==
    ASSUME NEW bs, NEW n \in Nat
    PROVE  DoneIn(bs, n + 1) = DoneIn(bs, n) \cup Ids(bs[n + 1].receipts) /\ DoneIn(bs, 0) = {}
<1>1. 1 .. n + 1 = (1 .. n) \cup {n + 1} /\ 1 .. 0 = {}
  OBVIOUS
<1> QED
  BY <1>1 DEF DoneIn

LEMMA ExtendChain ==
    ASSUME NEW bs, NEW b, Chain(bs), Fits(bs, b)
    PROVE  Chain(Append(bs, b))
<1>1. PICK cs : cs = Append(bs, b)
  OBVIOUS
<1>2. PICK n : n = Len(bs)
  OBVIOUS
<1>3. /\ Sequence(cs) /\ Len(cs) = n + 1 /\ cs[n + 1] = b /\ n \in Nat /\ n > 0
      /\ \A i \in 1 .. n : cs[i] = bs[i]
  BY <1>1, <1>2, SequenceAppend, SequenceLen DEF Chain
<1>4. \A k \in 0 .. n : DoneIn(cs, k) = DoneIn(bs, k)
  BY <1>3, DoneSame
<1>5. DoneIn(cs, n + 1) = DoneIn(bs, n) \cup Ids(b.receipts)
  BY <1>3, <1>4, DoneNext
<1>6. ASSUME NEW i \in 1 .. n + 1
      PROVE  cs[i].slot \in Nat /\ Good(DoneIn(cs, i), cs[i].db, cs[i].slot) /\ Fresh(cs, i)
  <2>1. CASE i = n + 1
    <3>1. i - 1 = n /\ n \in 0 .. n /\ cs[i] = b
      BY <1>3, <2>1
    <3>2. b.slot \in Nat /\ Good(DoneIn(cs, i), b.db, b.slot)
      BY <1>2, <1>5, <2>1 DEF Fits
    <3>3. DoneIn(cs, i - 1) = DoneIn(bs, n)
      BY <1>4, <3>1
    <3>4. Fresh(cs, i)
      BY <1>2, <3>1, <3>3 DEF Fits, Fresh
    <3> QED
      BY <3>1, <3>2, <3>4
  <2>2. CASE i # n + 1
    <3>1. i \in 1 .. n /\ i \in 0 .. n /\ i - 1 \in 0 .. n
      BY <1>3, <2>2
    <3> QED
      BY <1>2, <1>3, <1>4, <3>1 DEF Chain, Fresh
  <2> QED
    BY <2>1, <2>2
<1>7. Chain(cs)
  BY <1>3, <1>6 DEF Chain
<1> QED
  BY <1>1, <1>7

LEMMA ShortenChain ==
    ASSUME NEW bs, Chain(bs), Len(bs) > 1
    PROVE  Chain(Front(bs))
<1>1. PICK cs : cs = Front(bs)
  OBVIOUS
<1>2. PICK n : n = Len(bs) - 1
  OBVIOUS
<1>3. Len(bs) \in Nat /\ n \in Nat /\ n > 0 /\ Len(bs) = n + 1
  BY <1>2, SequenceLen DEF Chain
<1>4. Sequence(cs) /\ Len(cs) = n /\ \A i \in 1 .. n : cs[i] = bs[i]
  BY <1>1, <1>2, SequenceFront DEF Chain
<1>5. \A k \in 0 .. n : DoneIn(cs, k) = DoneIn(bs, k)
  BY <1>3, <1>4, DoneSame
<1>6. ASSUME NEW i \in 1 .. n
      PROVE  cs[i].slot \in Nat /\ Good(DoneIn(cs, i), cs[i].db, cs[i].slot) /\ Fresh(cs, i)
  <2>1. i \in 1 .. Len(bs) /\ i \in 0 .. n /\ i - 1 \in 0 .. n
    BY <1>3
  <2> QED
    BY <1>4, <1>5, <2>1 DEF Chain, Fresh
<1>7. Chain(cs)
  BY <1>3, <1>4, <1>6 DEF Chain
<1> QED
  BY <1>1, <1>7

-----------------------------------------------------------------------------
(***************************************************************************)
(* The steps.                                                              *)
(***************************************************************************)
PendingOK ==
    /\ DOMAIN pending = DOMAIN NoPending
    /\ pending.mode = None => pending.receipts = <<>>
    /\ pending.mode # None => Fits(blocks, pending)

BlocksOK == Chain(blocks) /\ PendingOK

LEMMA HeadGood ==
    ASSUME NEW bs, Chain(bs)
    PROVE  /\ Len(bs) \in Nat /\ Len(bs) > 0 /\ bs[Len(bs)].slot \in Nat
           /\ Good(DoneIn(bs, Len(bs)), bs[Len(bs)].db, bs[Len(bs)].slot)
<1>1. Len(bs) \in Nat /\ Len(bs) > 0
  BY SequenceLen DEF Chain
<1> QED
  BY <1>1 DEF Chain

\* A block of a peer that is accepted, and an empty one behind it.
LEMMA PeerFits ==
    ASSUME NEW bs, Chain(bs), NEW slot \in Nat, slot > bs[Len(bs)].slot,
           NEW receipts \in PeerReceipts(bs[Len(bs)].db, slot), NEW acc,
           acc = ApplyReceipts(bs[Len(bs)].db, receipts, slot), acc.ok
    PROVE  Fits(bs, Block(slot, acc, receipts))
<1>1. PICK done, s, base : done = DoneIn(bs, Len(bs)) /\ s = bs[Len(bs)].db /\ base = bs[Len(bs)].slot
  OBVIOUS
<1>2. base \in Nat /\ Good(done, s, base) /\ base < slot
  BY <1>1, HeadGood
<1>3. receipts \in PeerReceipts(s, slot) /\ acc = ApplyReceipts(s, receipts, slot)
  BY <1>1
<1>4. /\ Good(done \cup Ids(receipts), acc.s, slot) /\ Ids(receipts) \cap done = {}
      /\ receipts = <<>> \/ \E r : receipts = <<r>>
  <2>1. Applied(done, receipts, slot, acc)
    BY <1>2, <1>3, ApplyGood
  <2> QED
    BY <2>1 DEF Applied
<1>5. Sequence(receipts) /\ NoRepeat(receipts)
  BY <1>4, FewReceipts
<1>6. Good(done \cup Ids(receipts), finalize_block(acc.s), slot)
  <2>1. Same(acc.s, finalize_block(acc.s))
    BY <1>4, FinalizeSame DEF Good
  <2> QED
    BY <1>4, <2>1, SameGood
<1>7. PICK b : b = Block(slot, acc, receipts)
  OBVIOUS
<1>8. b.slot = slot /\ b.db = finalize_block(acc.s) /\ b.receipts = receipts
  BY <1>7 DEF Block
<1>9. Fits(bs, b)
  BY <1>1, <1>4, <1>5, <1>6, <1>8 DEF Fits
<1> QED
  BY <1>7, <1>9

LEMMA EmptyFits ==
    ASSUME NEW bs, Chain(bs)
    PROVE  Fits(bs, EmptyAfter(bs[Len(bs)]))
<1>1. PICK done, s, base : done = DoneIn(bs, Len(bs)) /\ s = bs[Len(bs)].db /\ base = bs[Len(bs)].slot
  OBVIOUS
<1>2. base \in Nat /\ base + 1 \in Nat /\ Good(done, s, base) /\ base < base + 1
  BY <1>1, HeadGood
<1>3. PICK now : now = base + 1
  OBVIOUS
<1>4. PICK u : u = start_block(s, now)
  OBVIOUS
<1>5. now \in Nat /\ base < now /\ Good(done, u, now)
  <2>1. now \in Nat /\ base < now
    BY <1>2, <1>3
  <2> QED
    BY <1>2, <1>4, <2>1, StartGood
<1>6. Good(done, finalize_block(u), now)
  <2>1. Same(u, finalize_block(u))
    BY <1>5, FinalizeSame DEF Good
  <2> QED
    BY <1>5, <2>1, SameGood
<1>7. PICK b : b = EmptyAfter(bs[Len(bs)])
  OBVIOUS
<1>8. b.slot = now /\ b.db = finalize_block(u) /\ b.receipts = <<>>
  BY <1>1, <1>3, <1>4, <1>7 DEF EmptyAfter, Block
<1>9. Sequence(<<>>) /\ NoRepeat(<<>>) /\ Ids(<<>>) = {}
  BY FewReceipts, IdsOfOne
<1>10. Fits(bs, b)
  BY <1>1, <1>5, <1>6, <1>8, <1>9 DEF Fits
<1> QED
  BY <1>7, <1>10

\* No pending block.
LEMMA NonePending ==
    ASSUME pending' = NoPending
    PROVE  PendingOK'
BY DEF PendingOK, NoPending

\* A step that leaves the state, time and receipts of the pending block alone.
LEMMA PendingSame ==
    ASSUME PendingOK, blocks' = blocks, DOMAIN pending' = DOMAIN pending, pending.mode # None,
           pending'.mode = pending.mode, pending'.slot = pending.slot, pending'.db = pending.db,
           pending'.receipts = pending.receipts
    PROVE  PendingOK'
BY DEF PendingOK, Fits

\* A step that adds a receipt to it.
LEMMA PendingAdds ==
    ASSUME PendingOK, blocks' = blocks, DOMAIN pending' = DOMAIN pending, pending.mode # None,
           pending'.mode = pending.mode, pending'.slot = pending.slot,
           NEW r, pending'.receipts = pending.receipts \o <<r>>,
           r.id \notin DoneIn(blocks, Len(blocks)) \cup Ids(pending.receipts),
           Good((DoneIn(blocks, Len(blocks)) \cup Ids(pending.receipts)) \cup {r.id}, pending'.db, pending.slot)
    PROVE  PendingOK'
<1>1. PICK done, old, new : /\ done = DoneIn(blocks, Len(blocks))
                            /\ old = pending.receipts /\ new = pending'.receipts
  OBVIOUS
<1>2. Sequence(old) /\ NoRepeat(old) /\ Ids(old) \cap done = {} /\ pending.slot \in Nat
  BY <1>1 DEF PendingOK, Fits
<1>3. r.id \notin done /\ r.id \notin Ids(old) /\ new = old \o <<r>>
  BY <1>1
<1>4. Sequence(new) /\ NoRepeat(new) /\ Ids(new) = Ids(old) \cup {r.id}
  BY <1>2, <1>3, AddReceipt
<1>5. (done \cup Ids(old)) \cup {r.id} = done \cup Ids(new) /\ Ids(new) \cap done = {}
  BY <1>2, <1>3, <1>4
<1>6. Good(done \cup Ids(new), pending'.db, pending.slot)
  BY <1>1, <1>5
<1>7. Fits(blocks', pending')
  BY <1>1, <1>2, <1>4, <1>5, <1>6 DEF Fits
<1> QED
  BY <1>7 DEF PendingOK

LEMMA StepStart ==
    ASSUME BlocksOK, NEW mode \in {"producing", "speculating"}, NEW slot \in 1 .. MaxSlot, Start(mode, slot)
    PROVE  BlocksOK'
<1>1. slot \in Nat /\ blocks' = blocks /\ slot > head.slot
  BY DataAssumption DEF Start
<1>2. /\ pending'.slot = slot /\ pending'.mode = mode /\ mode # None /\ pending'.receipts = <<>>
      /\ pending'.db = start_block(head.db, slot) /\ DOMAIN pending' = DOMAIN NoPending
  BY DEF Start, NoPending, None
<1>3. Chain(blocks)
  BY DEF BlocksOK
<1>4. PICK done, s, base : /\ done = DoneIn(blocks, Len(blocks))
                           /\ s = blocks[Len(blocks)].db /\ base = blocks[Len(blocks)].slot
  OBVIOUS
<1>5. base \in Nat /\ Good(done, s, base) /\ base < slot /\ pending'.db = start_block(s, slot)
  BY <1>1, <1>2, <1>3, <1>4, HeadGood DEF head, Last
<1>6. Good(done, pending'.db, slot)
  BY <1>1, <1>5, StartGood
<1>7. Sequence(<<>>) /\ NoRepeat(<<>>) /\ Ids(<<>>) = {}
  BY FewReceipts, IdsOfOne
<1>8. Fits(blocks, pending')
  BY <1>1, <1>2, <1>4, <1>6, <1>7 DEF Fits
<1> QED
  BY <1>1, <1>2, <1>3, <1>8 DEF BlocksOK, PendingOK

LEMMA StepTook ==
    ASSUME BlocksOK, pending.mode # None, NEW t \in Input, NEW explicit, NEW billed, NEW e, NEW cut, NEW o,
           o = push_transaction(InputContext(t, pending.slot, explicit, billed), pending.db, e, cut),
           o.exc = None, Took(t, o)
    PROVE  BlocksOK'
<1>1. Chain(blocks) /\ PendingOK /\ blocks' = blocks
  BY DEF BlocksOK, Took
<1>2. PICK done, s, slot : /\ done = DoneIn(blocks, Len(blocks)) \cup Ids(pending.receipts)
                           /\ s = pending.db /\ slot = pending.slot
  OBVIOUS
<1>3. slot \in Nat /\ Good(done, s, slot)
  BY <1>1, <1>2 DEF PendingOK, Fits
<1>4. InputResult(done, t, slot, o)
  <2>1. InputResult(done, t, slot, push_transaction(InputContext(t, slot, explicit, billed), s, e, cut))
    BY <1>3, PushGood, Zenon
  <2> QED
    BY <1>2, <2>1
<1>5. /\ Packed(t) \notin done /\ Good(done \cup {Packed(t)}, o.s, slot)
      /\ \E r : r.id = Packed(t) /\ o.receipts = <<r>>
  BY <1>4 DEF InputResult
<1>6. PICK r : r.id = Packed(t) /\ o.receipts = <<r>>
  BY <1>5
<1>7. /\ DOMAIN pending' = DOMAIN pending /\ pending'.mode = pending.mode /\ pending'.slot = pending.slot
      /\ pending'.db = o.s /\ pending'.receipts = pending.receipts \o o.receipts
  BY <1>1 DEF Took, PendingOK, NoPending
<1>8. PendingOK'
  BY <1>1, <1>2, <1>5, <1>6, <1>7, PendingAdds
<1> QED
  BY <1>1, <1>8 DEF BlocksOK

LEMMA StepScheduled ==
    ASSUME BlocksOK, RunScheduled
    PROVE  BlocksOK'
<1>1. Chain(blocks) /\ PendingOK /\ blocks' = blocks /\ pending.mode # None
  BY DEF BlocksOK, RunScheduled, Preparing, Tried
<1>2. PICK done, s, slot : /\ done = DoneIn(blocks, Len(blocks)) \cup Ids(pending.receipts)
                           /\ s = pending.db /\ slot = pending.slot
  OBVIOUS
<1>3. slot \in Nat /\ Good(done, s, slot)
  BY <1>1, <1>2 DEF PendingOK, Fits
<1>3a. PICK row \in Due : \E e, cut, h, hcut :
        Tried(row, push_scheduled_transaction(row, RowContext(row, pending.slot, FALSE, 0), pending.db,
                                              e, cut, h, hcut))
  BY Zenon DEF RunScheduled
<1>4. PICK e, cut, h, hcut :
        Tried(row, push_scheduled_transaction(row, RowContext(row, pending.slot, FALSE, 0), pending.db,
                                              e, cut, h, hcut))
  BY <1>3a, Zenon
<1>b. PICK c : c = RowContext(row, pending.slot, FALSE, 0)
  OBVIOUS
<1>c. c = RowContext(row, pending.slot, FALSE, 0) /\ c.trx = row.trx /\ c.now = pending.slot
  BY <1>b DEF RowContext, Context
<1>5. PICK o : o = push_scheduled_transaction(row, c, pending.db, e, cut, h, hcut)
  OBVIOUS
<1>6. row \in s.gto /\ row.published < slot
  BY <1>3a, <1>2 DEF Due
<1>7. RowResult(done, s, row, slot, o)
  <2>1. RowResult(done, s, row, slot, push_scheduled_transaction(row, c, s, e, cut, h, hcut))
    BY <1>2, <1>3, <1>6, <1>c, ScheduledGood, Zenon
  <2> QED
    BY <1>2, <1>5, <2>1
<1>8. /\ DOMAIN pending' = DOMAIN pending /\ pending'.mode = pending.mode /\ pending'.slot = pending.slot
      /\ pending'.db = o.s /\ pending'.receipts = pending.receipts \o o.receipts
  BY <1>1, <1>4, <1>5, <1>c DEF PendingOK, NoPending, Tried
<1>9. CASE o.receipts = <<>> /\ o.s = s
  <2>1. Sequence(pending.receipts)
    BY <1>1 DEF PendingOK, Fits
  <2>2. PICK S : pending.receipts \in Seq(S)
    BY <2>1 DEF Sequence
  <2>3. pending.receipts \o <<>> = pending.receipts
    BY <2>2
  <2>4. PendingOK'
    BY <1>1, <1>2, <1>8, <1>9, <2>3, PendingSame
  <2> QED
    BY <1>1, <2>4 DEF BlocksOK
<1>10. ASSUME NEW r, r.id = row.trx_id, o.receipts = <<r>>, row.trx_id \notin done,
             Good(done \cup {row.trx_id}, o.s, slot)
      PROVE  BlocksOK'
  <2>1. PendingOK'
    BY <1>1, <1>2, <1>8, <1>10, PendingAdds
  <2> QED
    BY <1>1, <2>1 DEF BlocksOK
<1> QED
  BY <1>7, <1>9, <1>10 DEF RowResult

LEMMA StepProduce ==
    ASSUME BlocksOK, produce_block
    PROVE  BlocksOK'
<1>1. Chain(blocks) /\ PendingOK /\ pending.mode # None /\ pending' = NoPending
  BY DEF BlocksOK, produce_block
<1>2. PICK b : b = [slot |-> pending.slot, db |-> finalize_block(pending.db),
                    trxs |-> pending.trxs, inputs |-> pending.trxs, receipts |-> pending.receipts]
  OBVIOUS
<1>3. blocks' = Append(blocks, b)
  BY <1>2 DEF produce_block
<1>4. b.slot = pending.slot /\ b.db = finalize_block(pending.db) /\ b.receipts = pending.receipts
  BY <1>2
<1>5. Fits(blocks, pending)
  BY <1>1 DEF PendingOK
<1>6. Same(pending.db, finalize_block(pending.db))
  BY <1>5, FinalizeSame DEF Fits, Good
<1>7. Good(DoneIn(blocks, Len(blocks)) \cup Ids(b.receipts), b.db, b.slot)
  BY <1>4, <1>5, <1>6, SameGood DEF Fits
<1>8. Fits(blocks, b)
  BY <1>4, <1>5, <1>7 DEF Fits
<1>9. Chain(blocks')
  BY <1>1, <1>3, <1>8, ExtendChain
<1>10. PendingOK'
  BY <1>1, NonePending
<1> QED
  BY <1>9, <1>10 DEF BlocksOK

LEMMA StepIncoming ==
    ASSUME BlocksOK, NEW slot \in 1 .. MaxSlot, on_incoming_block(slot)
    PROVE  BlocksOK'
<1>1. Chain(blocks) /\ slot \in Nat /\ slot > blocks[Len(blocks)].slot
  BY DataAssumption DEF BlocksOK, on_incoming_block, head, Last
<1>2. PICK receipts \in PeerReceipts(blocks[Len(blocks)].db, slot) :
        apply_block(slot, receipts, ApplyReceipts(blocks[Len(blocks)].db, receipts, slot))
  BY DEF on_incoming_block, head, Last
<1>3. PICK acc : acc = ApplyReceipts(blocks[Len(blocks)].db, receipts, slot)
  OBVIOUS
<1>4. /\ blocks' = IF acc.ok THEN Append(blocks, Block(slot, acc, receipts)) ELSE blocks
      /\ pending' = NoPending
  BY <1>2, <1>3 DEF apply_block
<1>5. Chain(blocks')
  <2>1. CASE acc.ok
    <3>1. Fits(blocks, Block(slot, acc, receipts))
      BY <1>1, <1>2, <1>3, <2>1, PeerFits
    <3> QED
      BY <1>1, <1>4, <2>1, <3>1, ExtendChain
  <2>2. CASE ~acc.ok
    BY <1>1, <1>4, <2>2
  <2> QED
    BY <2>1, <2>2
<1>6. PendingOK'
  BY <1>4, NonePending
<1> QED
  BY <1>5, <1>6 DEF BlocksOK

\* Two blocks in place of the last one.
LEMMA TwoBlocks ==
    ASSUME NEW q, Sequence(q), NEW x, NEW y
    PROVE  q \o <<x, y>> = Append(Append(q, x), y)
<1>1. PICK S : q \in Seq(S)
  BY DEF Sequence
<1>2. PICK T : T = S \cup {x, y}
  OBVIOUS
<1>3. q \in Seq(T) /\ x \in T /\ y \in T
  BY <1>1, <1>2
<1> QED
  BY <1>3

LEMMA StepSwitch ==
    ASSUME BlocksOK, NEW slot \in 1 .. MaxSlot - 1, switch_forks(slot)
    PROVE  BlocksOK'
<1>1. Chain(blocks) /\ slot \in Nat /\ Len(blocks) > 1
  BY DataAssumption DEF BlocksOK, switch_forks
<1>2. PICK bs : bs = Front(blocks)
  OBVIOUS
<1>3. Chain(bs) /\ Sequence(blocks) /\ Sequence(bs)
  BY <1>1, <1>2, ShortenChain DEF Chain
<1>4. Len(blocks) \in Nat /\ Len(bs) = Len(blocks) - 1 /\ bs[Len(bs)] = blocks[Len(blocks) - 1]
  <2>1. Len(blocks) \in Nat
    BY <1>3, SequenceLen
  <2> QED
    BY <1>1, <1>2, <1>3, <2>1, SequenceFront
<1>5. slot > bs[Len(bs)].slot
  BY <1>4 DEF switch_forks
<1>6. PICK receipts \in PeerReceipts(bs[Len(bs)].db, slot) :
        apply_branch(slot, receipts, ApplyReceipts(bs[Len(bs)].db, receipts, slot))
  BY <1>4 DEF switch_forks
<1>7. PICK acc : acc = ApplyReceipts(bs[Len(bs)].db, receipts, slot)
  OBVIOUS
<1>8. PICK first : first = Block(slot, acc, receipts)
  OBVIOUS
<1>9. acc.ok /\ blocks' = bs \o <<first, EmptyAfter(first)>> /\ pending' = NoPending
  BY <1>2, <1>6, <1>7, <1>8 DEF apply_branch
<1>10. Chain(Append(bs, first))
  <2>1. Fits(bs, first)
    BY <1>1, <1>3, <1>5, <1>6, <1>7, <1>8, <1>9, PeerFits
  <2> QED
    BY <1>3, <2>1, ExtendChain
<1>11. PICK cs : cs = Append(bs, first)
  OBVIOUS
<1>12. cs[Len(cs)] = first
  BY <1>3, <1>11, SequenceAppend
<1>13. blocks' = Append(cs, EmptyAfter(first))
  BY <1>3, <1>9, <1>11, TwoBlocks
<1>14. Fits(cs, EmptyAfter(first))
  BY <1>10, <1>11, <1>12, EmptyFits
<1>15. Chain(blocks')
  BY <1>10, <1>11, <1>13, <1>14, ExtendChain
<1>16. PendingOK'
  BY <1>9, NonePending
<1> QED
  BY <1>15, <1>16 DEF BlocksOK

\* A step that leaves the blocks and all that matters of the pending one.
LEMMA StepQuiet ==
    ASSUME BlocksOK, blocks' = blocks, pending.mode # None,
           \/ \E t : pending' = [pending EXCEPT !.todo = @ \ {t}]
           \/ pending' = [pending EXCEPT !.open = TRUE]
    PROVE  BlocksOK'
<1>1. Chain(blocks) /\ PendingOK
  BY DEF BlocksOK
<1>2. /\ DOMAIN pending' = DOMAIN pending /\ pending'.mode = pending.mode
      /\ pending'.slot = pending.slot /\ pending'.db = pending.db
      /\ pending'.receipts = pending.receipts
  BY <1>1 DEF PendingOK, NoPending
<1>3. PendingOK'
  BY <1>1, <1>2, PendingSame
<1> QED
  BY <1>1, <1>3 DEF BlocksOK

LEMMA StepBlocks ==
    ASSUME BlocksOK, [Next]_vars
    PROVE  BlocksOK'
<1>1. CASE \E mode \in {"producing", "speculating"}, slot \in 1 .. MaxSlot : Start(mode, slot)
  BY <1>1, StepStart
<1>2. ASSUME NEW t \in Input, ExpireUnapplied(t) PROVE BlocksOK'
  BY <1>2, StepQuiet DEF ExpireUnapplied, Drop, Preparing
<1>3. ASSUME NEW t \in Input, SkipUnapplied(t) PROVE BlocksOK'
  BY <1>3, StepQuiet DEF SkipUnapplied, Preparing
<1>4. ASSUME NEW t \in Input, RetryUnapplied(t) PROVE BlocksOK'
  <2>1. pending.mode # None
    BY <1>4 DEF RetryUnapplied, Preparing
  <2>2. PICK e, cut :
          LET o == push_transaction(InputContext(t, pending.slot, FALSE, 0), pending.db, e, cut) IN
          \/ o.exc = None /\ Took(t, o)
          \/ o.exc # None /\ ~Exhausting(o.exc) /\ Drop(t)
          \/ /\ o.exc # None /\ Exhausting(o.exc)
             /\ pending' = [pending EXCEPT !.open = TRUE]
             /\ UNCHANGED <<blocks, unapplied, blacklist, owed>>
    BY <1>4, Zenon DEF RetryUnapplied
  <2>3. PICK o : o = push_transaction(InputContext(t, pending.slot, FALSE, 0), pending.db, e, cut)
    OBVIOUS
  <2>4. CASE o.exc = None /\ Took(t, o)
    BY <2>1, <2>3, <2>4, StepTook
  <2>5. CASE Drop(t)
    BY <2>1, <2>5, StepQuiet DEF Drop
  <2>6. CASE pending' = [pending EXCEPT !.open = TRUE] /\ blocks' = blocks
    BY <2>1, <2>6, StepQuiet
  <2> QED
    BY <2>2, <2>3, <2>4, <2>5, <2>6
<1>5. CASE RunScheduled
  BY <1>5, StepScheduled
<1>6. CASE Open
  BY <1>6, StepQuiet DEF Open, Preparing
<1>7. ASSUME NEW t \in Input, on_incoming_transaction(t) PROVE BlocksOK'
  <2>1. pending.mode # None
    BY <1>7 DEF on_incoming_transaction
  <2>2. PICK e, cut :
          LET o == push_transaction(InputContext(t, pending.slot, FALSE, 0), pending.db, e, cut) IN
          \/ o.exc = None /\ Took(t, o)
          \/ UNCHANGED <<blocks, pending, blacklist>>
    BY <1>7, Zenon DEF on_incoming_transaction
  <2>3. PICK o : o = push_transaction(InputContext(t, pending.slot, FALSE, 0), pending.db, e, cut)
    OBVIOUS
  <2>4. CASE o.exc = None /\ Took(t, o)
    BY <2>1, <2>3, <2>4, StepTook
  <2>5. CASE UNCHANGED <<blocks, pending, blacklist>>
    BY <2>5 DEF BlocksOK, PendingOK
  <2> QED
    BY <2>2, <2>3, <2>4, <2>5
<1>8. CASE produce_block
  BY <1>8, StepProduce
<1>9. CASE \E slot \in 1 .. MaxSlot : on_incoming_block(slot)
  BY <1>9, StepIncoming
<1>10. CASE \E slot \in 1 .. MaxSlot - 1 : switch_forks(slot)
  BY <1>10, StepSwitch
<1>11. CASE UNCHANGED vars
  BY <1>11 DEF vars, BlocksOK, PendingOK
<1> QED
  BY <1>1, <1>2, <1>3, <1>4, <1>5, <1>6, <1>7, <1>8, <1>9, <1>10, <1>11 DEF Next

LEMMA InitBlocks == Init => BlocksOK
<1> SUFFICES ASSUME Init PROVE BlocksOK
  OBVIOUS
<1>1. PICK b : b = [slot |-> 0, db |-> GenesisState, trxs |-> {}, inputs |-> {}, receipts |-> <<>>]
  OBVIOUS
<1>2. b.slot = 0 /\ b.db = GenesisState /\ b.receipts = <<>>
  BY <1>1
<1>3. blocks = <<b>> /\ pending = NoPending
  BY <1>1 DEF Init
<1>4. blocks \in Seq({b}) /\ Len(blocks) = 1 /\ blocks[1] = b
  BY <1>3
<1>5. NoRepeat(<<>>) /\ Ids(<<>>) = {}
  BY FewReceipts, IdsOfOne
<1>6. DoneIn(blocks, 0) = {} /\ DoneIn(blocks, 1) = {}
  <2>1. DoneIn(blocks, 0) = {} /\ DoneIn(blocks, 0 + 1) = DoneIn(blocks, 0) \cup Ids(blocks[0 + 1].receipts)
    BY DoneNext
  <2> QED
    BY <1>2, <1>4, <1>5, <2>1
<1>7. Chain(blocks)
  <2>1. Sequence(blocks)
    BY <1>4 DEF Sequence
  <2>2. Fresh(blocks, 1)
    BY <1>2, <1>4, <1>5 DEF Fresh
  <2>3. Good(DoneIn(blocks, 1), blocks[1].db, blocks[1].slot)
    BY <1>2, <1>4, <1>6, GenesisGood
  <2>4. \A i \in 1 .. Len(blocks) : i = 1
    BY <1>4
  <2> QED
    BY <1>2, <1>4, <2>1, <2>2, <2>3, <2>4 DEF Chain
<1>8. PendingOK
  BY <1>3 DEF PendingOK, NoPending
<1> QED
  BY <1>7, <1>8 DEF BlocksOK

\* The state after every block, and that of the pending block, is what the
\* receipts up to there account for: every input with a receipt is remembered
\* or has expired, every deferred transaction sent is in the table, cancelled
\* or has one receipt, and no receipt repeats an earlier one.
THEOREM BlocksAlwaysOK == Spec => []BlocksOK
<1>1. Init => BlocksOK
  BY InitBlocks
<1>2. BlocksOK /\ [Next]_vars => BlocksOK'
  BY StepBlocks
<1> QED
  BY <1>1, <1>2, PTL DEF Spec

-----------------------------------------------------------------------------
\* No receipt of the chain or the pending block repeats an earlier one.
LEMMA AllFresh ==
    ASSUME BlocksOK
    PROVE  /\ Sequence(AllBlocks) /\ Len(AllBlocks) = Len(blocks) + 1 /\ Len(blocks) \in Nat
           /\ \A i \in 1 .. Len(blocks) + 1 : Fresh(AllBlocks, i)
           /\ DoneIn(AllBlocks, Len(blocks) + 1) = DoneIn(blocks, Len(blocks)) \cup Ids(pending.receipts)
<1>1. PICK cs, n : cs = AllBlocks /\ n = Len(blocks)
  OBVIOUS
<1>2. /\ Sequence(cs) /\ Len(cs) = n + 1 /\ cs[n + 1] = pending /\ n \in Nat
      /\ \A i \in 1 .. n : cs[i] = blocks[i]
  BY <1>1, SequenceAppend, SequenceLen DEF AllBlocks, BlocksOK, Chain
<1>3. \A k \in 0 .. n : DoneIn(cs, k) = DoneIn(blocks, k)
  BY <1>2, DoneSame
<1>4. DoneIn(cs, n + 1) = DoneIn(blocks, n) \cup Ids(pending.receipts)
  BY <1>2, <1>3, DoneNext
<1>5. ASSUME NEW i \in 1 .. n + 1 PROVE Fresh(cs, i)
  <2>1. CASE i = n + 1
    <3>1. i - 1 = n /\ n \in 0 .. n /\ cs[i] = pending
      BY <1>2, <2>1
    <3>2. NoRepeat(<<>>) /\ Ids(<<>>) = {}
      BY FewReceipts, IdsOfOne
    <3>3. NoRepeat(pending.receipts) /\ Ids(pending.receipts) \cap DoneIn(blocks, n) = {}
      BY <1>1, <3>2 DEF BlocksOK, PendingOK, Fits
    <3> QED
      BY <1>3, <3>1, <3>3 DEF Fresh
  <2>2. CASE i # n + 1
    <3>1. i \in 1 .. n /\ i - 1 \in 0 .. n
      BY <1>2, <2>2
    <3>2. cs[i] = blocks[i] /\ DoneIn(cs, i - 1) = DoneIn(blocks, i - 1) /\ Fresh(blocks, i)
      BY <1>1, <1>2, <1>3, <3>1 DEF BlocksOK, Chain
    <3> QED
      BY <3>2 DEF Fresh
  <2> QED
    BY <2>1, <2>2
<1> QED
  BY <1>1, <1>2, <1>4, <1>5

\* Where receipts are.
LEMMA PlaceOf ==
    ASSUME BlocksOK, NEW p \in Places
    PROVE  \E i \in 1 .. Len(AllBlocks) : \E k \in DOMAIN AllBlocks[i].receipts :
               p = <<i, k>> /\ ReceiptAt(p) = AllBlocks[i].receipts[k]
<1>1. DOMAIN AllBlocks = 1 .. Len(AllBlocks)
  BY AllFresh, SequenceLen
<1>2. PICK i \in DOMAIN AllBlocks : p \in {i} \X DOMAIN AllBlocks[i].receipts
  BY DEF Places
<1>3. PICK k \in DOMAIN AllBlocks[i].receipts : p = <<i, k>>
  BY <1>2
<1>4. ReceiptAt(p) = AllBlocks[i].receipts[k]
  BY <1>3 DEF ReceiptAt
<1> QED
  BY <1>1, <1>3, <1>4

LEMMA NoneTwiceHolds == BlocksOK => NoneTwice
<1> SUFFICES ASSUME BlocksOK, NEW p \in Places, NEW q \in Places, ReceiptAt(p).id = ReceiptAt(q).id
             PROVE  p = q
  BY DEF NoneTwice
<1>1. PICK cs, n : cs = AllBlocks /\ n = Len(cs)
  OBVIOUS
<1>2. n \in Nat /\ \A i \in 1 .. n : Fresh(cs, i)
  BY <1>1, AllFresh
<1>3. PICK i \in 1 .. n : \E k \in DOMAIN cs[i].receipts :
               p = <<i, k>> /\ ReceiptAt(p) = cs[i].receipts[k]
  BY <1>1, PlaceOf
<1>4. PICK k \in DOMAIN cs[i].receipts : p = <<i, k>> /\ ReceiptAt(p) = cs[i].receipts[k]
  BY <1>3
<1>5. PICK j \in 1 .. n : \E l \in DOMAIN cs[j].receipts :
               q = <<j, l>> /\ ReceiptAt(q) = cs[j].receipts[l]
  BY <1>1, PlaceOf
<1>6. PICK l \in DOMAIN cs[j].receipts : q = <<j, l>> /\ ReceiptAt(q) = cs[j].receipts[l]
  BY <1>5
<1>7. ASSUME NEW a \in 1 .. n, NEW b \in 1 .. n, a < b, NEW x \in DOMAIN cs[a].receipts,
             NEW y \in DOMAIN cs[b].receipts
      PROVE  cs[a].receipts[x].id # cs[b].receipts[y].id
  <2>1. cs[a].receipts[x].id \in DoneIn(cs, b - 1)
    <3>1. a \in 1 .. b - 1
      BY <1>2, <1>7
    <3>2. cs[a].receipts[x].id \in Ids(cs[a].receipts)
      BY DEF Ids
    <3> QED
      BY <3>1, <3>2 DEF DoneIn
  <2>2. cs[b].receipts[y].id \in Ids(cs[b].receipts)
    BY DEF Ids
  <2>3. Ids(cs[b].receipts) \cap DoneIn(cs, b - 1) = {}
    BY <1>2 DEF Fresh
  <2> QED
    BY <2>1, <2>2, <2>3
<1>8. cs[i].receipts[k].id = cs[j].receipts[l].id
  BY <1>4, <1>6
<1>9. i = j
  <2>1. ~(i < j) /\ ~(j < i)
    BY <1>7, <1>8
  <2> QED
    BY <1>2, <2>1
<1>10. k = l
  BY <1>2, <1>8, <1>9 DEF Fresh, NoRepeat
<1> QED
  BY <1>4, <1>6, <1>9, <1>10

\* The ids of all receipts.
LEMMA AllIds ==
    ASSUME BlocksOK
    PROVE  {ReceiptAt(p).id : p \in Places} = DoneIn(blocks, Len(blocks)) \cup Ids(pending.receipts)
<1>1. PICK cs, n : cs = AllBlocks /\ n = Len(cs)
  OBVIOUS
<1>2. /\ n \in Nat /\ n = Len(blocks) + 1 /\ DOMAIN cs = 1 .. n
      /\ DoneIn(cs, n) = DoneIn(blocks, Len(blocks)) \cup Ids(pending.receipts)
  BY <1>1, AllFresh, SequenceLen
<1>3. ASSUME NEW p \in Places PROVE ReceiptAt(p).id \in DoneIn(cs, n)
  <2>1. PICK i \in 1 .. n : \E k \in DOMAIN cs[i].receipts : ReceiptAt(p) = cs[i].receipts[k]
    BY <1>1, PlaceOf
  <2>2. ReceiptAt(p).id \in Ids(cs[i].receipts)
    BY <2>1 DEF Ids
  <2> QED
    BY <2>2 DEF DoneIn
<1>4. ASSUME NEW id \in DoneIn(cs, n) PROVE \E p \in Places : ReceiptAt(p).id = id
  <2>1. PICK i \in 1 .. n : id \in Ids(cs[i].receipts)
    BY DEF DoneIn
  <2>2. PICK k \in DOMAIN cs[i].receipts : id = cs[i].receipts[k].id
    BY <2>1 DEF Ids
  <2>3. <<i, k>> \in Places
    BY <1>1, <1>2, <2>2 DEF Places
  <2>4. ReceiptAt(<<i, k>>) = cs[i].receipts[k]
    BY <1>1 DEF ReceiptAt
  <2> QED
    BY <2>2, <2>3, <2>4
<1>5. {ReceiptAt(p).id : p \in Places} = DoneIn(cs, n)
  BY <1>3, <1>4
<1> QED
  BY <1>2, <1>5

\* What a good state says about the deferred transactions.
Partitions(rows, cancelled, retired, sent) ==
    /\ sent = rows \cup cancelled \cup retired
    /\ rows \cap retired = {} /\ rows \cap cancelled = {} /\ retired \cap cancelled = {}

LEMMA GoodRetires ==
    ASSUME NEW done, NEW s, NEW slot, Good(done, s, slot)
    PROVE  Partitions(IdsOf(s.gto), s.cancelled, done \cap s.sent, s.sent)
<1>1. PICK rows, retired : rows = IdsOf(s.gto) /\ retired = done \cap s.sent
  OBVIOUS
<1>2. /\ rows \subseteq s.sent /\ s.cancelled \subseteq s.sent /\ rows \cap s.cancelled = {}
      /\ s.sent \subseteq rows \cup s.cancelled \cup done
  BY <1>1 DEF Good, Ok, Accounted
<1>3. ASSUME NEW id \in retired PROVE id \notin rows /\ id \notin s.cancelled
  <2>1. PICK t \in Trx, n \in Nat : id = <<t, n>>
    BY <1>1 DEF Good, Ok, SentOK
  <2>2. \A u \in Input : id # Packed(u)
    BY <2>1, DataAssumption DEF Packed
  <2> QED
    BY <1>1, <2>2 DEF Good, Ok, DoneOK
<1>4. Partitions(rows, s.cancelled, retired, s.sent)
  BY <1>1, <1>2, <1>3 DEF Partitions
<1> QED
  BY <1>1, <1>4

LEMMA RetiredHolds == BlocksOK => RetiredByReceipt
<1> SUFFICES ASSUME BlocksOK PROVE RetiredByReceipt
  OBVIOUS
<1>1. PICK done : done = DoneIn(blocks, Len(blocks)) \cup Ids(pending.receipts)
  OBVIOUS
<1>2. PICK s : s = CurrentState
  OBVIOUS
<1>3. \E slot : Good(done, s, slot)
  <2>1. CASE pending.mode = None
    <3>1. Ids(pending.receipts) = {}
      BY <2>1, IdsOfOne DEF BlocksOK, PendingOK
    <3>2. Good(DoneIn(blocks, Len(blocks)), blocks[Len(blocks)].db, blocks[Len(blocks)].slot)
      BY HeadGood DEF BlocksOK
    <3>3. done = DoneIn(blocks, Len(blocks)) /\ s = blocks[Len(blocks)].db
      BY <1>1, <1>2, <2>1, <3>1 DEF CurrentState, head, Last
    <3> QED
      BY <3>2, <3>3
  <2>2. CASE pending.mode # None
    <3>1. Good(done, pending.db, pending.slot)
      BY <1>1, <2>2 DEF BlocksOK, PendingOK, Fits
    <3>2. s = pending.db
      BY <1>2, <2>2 DEF CurrentState
    <3> QED
      BY <3>1, <3>2
  <2> QED
    BY <2>1, <2>2
<1>4. Partitions(IdsOf(s.gto), s.cancelled, done \cap s.sent, s.sent)
  BY <1>3, GoodRetires
<1>5. {ReceiptAt(p).id : p \in Places} = done
  BY <1>1, AllIds
<1>6. Partitions(IdsOf(CurrentState.gto), CurrentState.cancelled,
                 {ReceiptAt(p).id : p \in Places} \cap CurrentState.sent, CurrentState.sent)
  BY <1>2, <1>4, <1>5
<1> QED
  BY <1>6, Zenon DEF RetiredByReceipt, Partitions, IdsOf

\* No transaction gets two receipts, on the chain and in the pending block.
THEOREM NoReceiptTwice == Spec => []NoneTwice
BY BlocksAlwaysOK, NoneTwiceHolds, PTL

\* A deferred transaction is in the table, cancelled or retired by a receipt.
THEOREM DeferredAccounted == Spec => []RetiredByReceipt
BY BlocksAlwaysOK, RetiredHolds, PTL

-----------------------------------------------------------------------------
\* An input is in a block.
OnChain(t) == \E i \in 1 .. Len(blocks) : t \in blocks[i].inputs

LEMMA KeptStep ==
    ASSUME BlocksOK, AcceptedKept, [Next]_vars
    PROVE  AcceptedKept'
<1>1. Sequence(blocks) /\ Len(blocks) \in Nat /\ DOMAIN pending = DOMAIN NoPending
  BY SequenceLen DEF BlocksOK, Chain, PendingOK
<1>2. ASSUME NEW mode \in {"producing", "speculating"}, NEW slot \in 1 .. MaxSlot, Start(mode, slot)
      PROVE  AcceptedKept'
  <2>1. owed' = owed /\ unapplied' = unapplied \cup PendingTrxs /\ blocks' = blocks
    BY <1>2 DEF Start
  <2> QED
    BY <2>1 DEF AcceptedKept
<1>3. ASSUME NEW t, Drop(t), pending.mode # None PROVE AcceptedKept'
  <2>1. /\ owed' = owed \ {t} /\ unapplied' = unapplied \ {t} /\ blocks' = blocks
        /\ PendingTrxs' = PendingTrxs
    BY <1>1, <1>3 DEF Drop, PendingTrxs, NoPending
  <2> QED
    BY <2>1 DEF AcceptedKept
<1>4. ASSUME NEW t, pending.mode # None, owed' = owed, unapplied' = unapplied, blocks' = blocks,
             \/ pending' = [pending EXCEPT !.todo = @ \ {t}]
             \/ pending' = [pending EXCEPT !.open = TRUE]
      PROVE  AcceptedKept'
  <2>1. PendingTrxs' = PendingTrxs
    BY <1>1, <1>4 DEF PendingTrxs, NoPending
  <2> QED
    BY <1>4, <2>1 DEF AcceptedKept
<1>5. ASSUME NEW t, NEW o, Took(t, o), pending.mode # None PROVE AcceptedKept'
  <2>1. /\ owed' = owed \cup {t} /\ unapplied' = unapplied \ {t} /\ blocks' = blocks
        /\ PendingTrxs' = PendingTrxs \cup {t}
    BY <1>1, <1>5 DEF Took, PendingTrxs, NoPending
  <2> QED
    BY <2>1 DEF AcceptedKept
<1>6. ASSUME NEW t \in Input, RetryUnapplied(t) PROVE AcceptedKept'
  <2>1. pending.mode # None
    BY <1>6 DEF RetryUnapplied, Preparing
  <2>2. \/ \E o : Took(t, o)
        \/ Drop(t)
        \/ /\ pending' = [pending EXCEPT !.open = TRUE]
           /\ UNCHANGED <<blocks, unapplied, blacklist, owed>>
    BY <1>6, Zenon DEF RetryUnapplied
  <2> QED
    BY <1>3, <1>4, <1>5, <2>1, <2>2
<1>7. CASE RunScheduled
  <2>1. \E row, o : Tried(row, o)
    BY <1>7, Zenon DEF RunScheduled
  <2>2. owed' = owed /\ unapplied' = unapplied /\ blocks' = blocks /\ PendingTrxs' = PendingTrxs
    BY <1>1, <2>1 DEF Tried, PendingTrxs, NoPending
  <2> QED
    BY <2>2 DEF AcceptedKept
<1>8. ASSUME NEW t \in Input, on_incoming_transaction(t) PROVE AcceptedKept'
  <2>1. pending.mode # None
    BY <1>8 DEF on_incoming_transaction
  <2>2. \/ \E o : Took(t, o)
        \/ UNCHANGED <<unapplied, owed>> /\ UNCHANGED <<blocks, pending, blacklist>>
        \/ /\ unapplied' = unapplied \ {t} /\ owed' = owed \ {t}
           /\ UNCHANGED <<blocks, pending, blacklist>>
    BY <1>8, Zenon DEF on_incoming_transaction
  <2>3. CASE UNCHANGED <<unapplied, owed>> /\ UNCHANGED <<blocks, pending, blacklist>>
    BY <2>3 DEF AcceptedKept, PendingTrxs
  <2>4. CASE /\ unapplied' = unapplied \ {t} /\ owed' = owed \ {t}
             /\ UNCHANGED <<blocks, pending, blacklist>>
    BY <2>4 DEF AcceptedKept, PendingTrxs
  <2> QED
    BY <1>5, <2>1, <2>2, <2>3, <2>4
<1>9. ASSUME NEW b, blocks' = Append(blocks, b)
      PROVE  \A t : OnChain(t) \/ t \in b.inputs => OnChain(t)'
  <2>1. /\ Len(blocks') = Len(blocks) + 1 /\ blocks'[Len(blocks) + 1] = b
        /\ \A i \in 1 .. Len(blocks) : blocks'[i] = blocks[i]
    BY <1>1, <1>9, SequenceAppend
  <2>2. \A i \in 1 .. Len(blocks) : i \in 1 .. Len(blocks')
    BY <1>1, <2>1
  <2>3. Len(blocks) + 1 \in 1 .. Len(blocks')
    BY <1>1, <2>1
  <2> QED
    BY <2>1, <2>2, <2>3 DEF OnChain
<1>10. CASE produce_block
  <2>1. PICK b : b = [slot |-> pending.slot, db |-> finalize_block(pending.db),
                      trxs |-> pending.trxs, inputs |-> pending.trxs, receipts |-> pending.receipts]
    OBVIOUS
  <2>2. /\ blocks' = Append(blocks, b) /\ b.inputs = PendingTrxs
        /\ owed' = owed /\ unapplied' = unapplied
    BY <1>10, <2>1 DEF produce_block, PendingTrxs
  <2> QED
    BY <1>9, <2>2 DEF AcceptedKept, OnChain
<1>11. ASSUME NEW slot \in 1 .. MaxSlot, on_incoming_block(slot) PROVE AcceptedKept'
  <2>1. PICK receipts, acc : apply_block(slot, receipts, acc)
    BY <1>11 DEF on_incoming_block
  <2>2. PICK b : b = Block(slot, acc, receipts)
    OBVIOUS
  <2>3. b.inputs = acc.trxs
    BY <2>2 DEF Block
  <2>4. /\ blocks' = IF acc.ok THEN Append(blocks, b) ELSE blocks
        /\ unapplied' = IF acc.ok THEN (unapplied \cup PendingTrxs) \ acc.trxs
                        ELSE ((unapplied \cup PendingTrxs) \ acc.failed) \cup acc.trxs
        /\ owed' = (owed \ acc.failed) \cup acc.trxs
    BY <2>1, <2>2 DEF apply_block
  <2>5. CASE acc.ok
    BY <1>9, <2>3, <2>4, <2>5 DEF AcceptedKept, OnChain
  <2>6. CASE ~acc.ok
    BY <2>4, <2>6 DEF AcceptedKept
  <2> QED
    BY <2>5, <2>6
<1>12. ASSUME NEW slot \in 1 .. MaxSlot - 1, switch_forks(slot) PROVE AcceptedKept'
  <2>1. PICK receipts, acc : apply_branch(slot, receipts, acc)
    BY <1>12 DEF switch_forks
  <2>2. PICK first, bs, n, second : /\ first = Block(slot, acc, receipts) /\ bs = Front(blocks)
                                    /\ n = Len(blocks) - 1 /\ second = EmptyAfter(first)
    OBVIOUS
  <2>3. first.inputs = acc.trxs
    BY <2>2 DEF Block
  <2>4. /\ blocks' = bs \o <<first, second>>
        /\ unapplied' = (unapplied \cup PendingTrxs \cup blocks[Len(blocks)].trxs) \ acc.trxs
        /\ owed' = (owed \ (blocks[Len(blocks)].inputs \ blocks[Len(blocks)].trxs)) \cup acc.trxs
    BY <2>1, <2>2 DEF apply_branch, pop_block, LostWithHead, head, Last
  <2>5. Len(blocks) > 1 /\ n \in Nat /\ Len(blocks) = n + 1
    BY <1>1, <1>12, <2>2 DEF switch_forks
  <2>6. Sequence(bs) /\ Len(bs) = n /\ \A i \in 1 .. n : bs[i] = blocks[i]
    BY <1>1, <2>2, <2>5, SequenceFront
  <2>7. PICK cs : cs = Append(bs, first)
    OBVIOUS
  <2>8. /\ Sequence(cs) /\ Len(cs) = n + 1 /\ cs[n + 1] = first
        /\ \A i \in 1 .. n : cs[i] = bs[i]
    BY <2>6, <2>7, SequenceAppend
  <2>9. blocks' = Append(cs, second)
    BY <2>4, <2>6, <2>7, TwoBlocks
  <2>10. Len(blocks') = n + 2 /\ \A i \in 1 .. n + 1 : blocks'[i] = cs[i]
    BY <2>5, <2>8, <2>9, SequenceAppend
  <2>11. /\ \A i \in 1 .. n : i \in 1 .. Len(blocks') /\ blocks'[i] = blocks[i]
         /\ n + 1 \in 1 .. Len(blocks') /\ blocks'[n + 1] = first
    BY <2>5, <2>6, <2>8, <2>10
  <2>12. \A i \in 1 .. Len(blocks) : i \in 1 .. n \/ i = Len(blocks)
    BY <2>5
  <2> QED
    BY <2>3, <2>4, <2>11, <2>12 DEF AcceptedKept
<1>13. CASE UNCHANGED vars
  BY <1>13 DEF vars, AcceptedKept, PendingTrxs
<1>14. ASSUME NEW t \in Input, ExpireUnapplied(t) PROVE AcceptedKept'
  BY <1>3, <1>14 DEF ExpireUnapplied, Preparing
<1>15. ASSUME NEW t \in Input, SkipUnapplied(t) PROVE AcceptedKept'
  BY <1>4, <1>15 DEF SkipUnapplied, Preparing
<1>16. CASE Open
  BY <1>4, <1>16 DEF Open, Preparing
<1> QED
  BY <1>2, <1>6, <1>7, <1>8, <1>10, <1>11, <1>12, <1>13, <1>14, <1>15, <1>16 DEF Next

\* An input that ran here is on the chain, in the pending block or waits to
\* run again, until it fails or expires or is lost with the peer's block that
\* took it, whatever else is lost or rejected (abort_block, pop_block).
THEOREM AcceptedAlwaysKept == Spec => []AcceptedKept
<1>1. Init => AcceptedKept
  BY DEF Init, AcceptedKept
<1>2. BlocksOK /\ AcceptedKept /\ [Next]_vars => AcceptedKept'
  BY KeptStep
<1> QED
  BY <1>1, <1>2, BlocksAlwaysOK, PTL DEF Spec

-----------------------------------------------------------------------------
(***************************************************************************)
(* Usage and RAM.                                                          *)
(***************************************************************************)
\* CPU times are numbers, and those of a block within its limit.
UsageOK(s) == s.cpu \in [Account -> Nat] /\ s.block_cpu \in 0 .. MaxBlockCpu

\* Rows are numbered, and each account is billed the rows it pays for.
Paid(g, a) == {row \in g : row.payer = a}
RamOK(s) ==
    /\ s.next \in Nat /\ IsFiniteSet(s.gto)
    /\ \A row \in s.gto : row.payer \in Account /\ row.no \in Nat /\ row.no < s.next
    /\ s.ram = [a \in Account |-> Cardinality(Paid(s.gto, a))]

LEMMA PaidFinite ==
    ASSUME NEW g, IsFiniteSet(g), NEW a
    PROVE  IsFiniteSet(Paid(g, a)) /\ Cardinality(Paid(g, a)) \in Nat
<1>1. Paid(g, a) \subseteq g
  BY DEF Paid
<1> QED
  BY <1>1, FS_Subset, FS_CardinalityType

\* A row that comes, one that goes.
LEMMA PaidMore ==
    ASSUME NEW g, IsFiniteSet(g), NEW row, row \notin g, NEW a
    PROVE  Cardinality(Paid(g \cup {row}, a)) = Cardinality(Paid(g, a)) + (IF a = row.payer THEN 1 ELSE 0)
<1>1. IsFiniteSet(Paid(g, a)) /\ Cardinality(Paid(g, a)) \in Nat
  BY PaidFinite
<1>2. CASE a = row.payer
  <2>1. Paid(g \cup {row}, a) = Paid(g, a) \cup {row} /\ row \notin Paid(g, a)
    BY <1>2 DEF Paid
  <2> QED
    BY <1>1, <1>2, <2>1, FS_AddElement
<1>3. CASE a # row.payer
  <2>1. Paid(g \cup {row}, a) = Paid(g, a)
    BY <1>3 DEF Paid
  <2> QED
    BY <1>1, <1>3, <2>1
<1> QED
  BY <1>2, <1>3

LEMMA PaidLess ==
    ASSUME NEW g, IsFiniteSet(g), NEW row \in g, NEW a
    PROVE  Cardinality(Paid(g \ {row}, a)) = Cardinality(Paid(g, a)) - (IF a = row.payer THEN 1 ELSE 0)
<1>1. PICK h : h = g \ {row} /\ row \notin h /\ h \cup {row} = g /\ h \subseteq g
  <2>1. PICK h : h = g \ {row}
    OBVIOUS
  <2> QED
    BY <2>1
<1>2. IsFiniteSet(h)
  BY <1>1, FS_Subset
<1>3. Cardinality(Paid(h \cup {row}, a)) = Cardinality(Paid(h, a)) + (IF a = row.payer THEN 1 ELSE 0)
  BY <1>1, <1>2, PaidMore
<1>4. Cardinality(Paid(h, a)) \in Nat
  BY <1>2, PaidFinite
<1>5. Cardinality(Paid(g, a)) = Cardinality(Paid(h, a)) + (IF a = row.payer THEN 1 ELSE 0)
  BY <1>1, <1>3
<1> QED
  BY <1>1, <1>4, <1>5

\* What billing, recording and running leave alone.
LEMMA RamOther ==
    ASSUME NEW s, NEW u, u.gto = s.gto, u.ram = s.ram, u.next = s.next
    PROVE  RamOK(s) <=> RamOK(u)
BY DEF RamOK

LEMMA RemoveRam ==
    ASSUME NEW s, DOMAIN s = Fields, RamOK(s), NEW row \in s.gto, NEW u, u = remove_scheduled_transaction(s, row)
    PROVE  RamOK(u) /\ DOMAIN u = Fields /\ u.gto = s.gto \ {row} /\ u.cpu = s.cpu /\ u.block_cpu = s.block_cpu
<1>1. /\ DOMAIN u = Fields /\ u.gto = s.gto \ {row} /\ u.cpu = s.cpu /\ u.block_cpu = s.block_cpu
      /\ u.next = s.next /\ u.ram = [s.ram EXCEPT ![row.payer] = @ + -1]
  BY DEF remove_scheduled_transaction, add_ram_usage, Fields
<1>2. IsFiniteSet(s.gto) /\ row.payer \in Account
  BY DEF RamOK
<1>3. IsFiniteSet(u.gto)
  BY <1>1, <1>2, FS_Subset
<1>4. ASSUME NEW a \in Account PROVE u.ram[a] = Cardinality(Paid(u.gto, a))
  <2>1. PICK n \in Nat : n = Cardinality(Paid(s.gto, a))
    BY <1>2, PaidFinite
  <2>2. s.ram[a] = n /\ DOMAIN s.ram = Account
    BY <2>1 DEF RamOK
  <2>3. u.ram[a] = IF a = row.payer THEN n - 1 ELSE n
    BY <1>1, <1>2, <2>2
  <2>4. Cardinality(Paid(u.gto, a)) = n - (IF a = row.payer THEN 1 ELSE 0)
    BY <1>1, <1>2, <2>1, PaidLess
  <2> QED
    BY <2>3, <2>4
<1>5. DOMAIN u.ram = Account /\ u.ram = [a \in DOMAIN u.ram |-> u.ram[a]]
  BY <1>1 DEF RamOK
<1>6. u.ram = [a \in Account |-> Cardinality(Paid(u.gto, a))]
  BY <1>4, <1>5
<1>7. \A q \in u.gto : q.payer \in Account /\ q.no \in Nat /\ q.no < u.next
  BY <1>1 DEF RamOK
<1>8. u.next \in Nat
  BY <1>1 DEF RamOK
<1> QED
  BY <1>1, <1>3, <1>6, <1>7, <1>8 DEF RamOK

LEMMA CreateRam ==
    ASSUME NEW s, DOMAIN s = Fields, RamOK(s), NEW t \in Trx, NEW now, NEW u, u = create_generated(s, t, now)
    PROVE  RamOK(u) /\ DOMAIN u = Fields /\ u.cpu = s.cpu /\ u.block_cpu = s.block_cpu
<1>1. PICK row : row = Generated(t, now, s.next)
  OBVIOUS
<1>2. row.payer = Data[t].payer /\ row.no = s.next /\ row.payer \in Account
  BY <1>1, DataAssumption DEF Generated
<1>3. /\ DOMAIN u = Fields /\ u.gto = s.gto \cup {row} /\ u.cpu = s.cpu /\ u.block_cpu = s.block_cpu
      /\ u.next = s.next + 1 /\ u.ram = [s.ram EXCEPT ![row.payer] = @ + 1]
  BY <1>1 DEF create_generated, add_ram_usage, Fields
<1>4. s.next \in Nat /\ IsFiniteSet(s.gto)
  BY DEF RamOK
<1>5. row \notin s.gto
  <2> SUFFICES ASSUME row \in s.gto PROVE FALSE
    OBVIOUS
  <2>1. row.no < s.next
    BY DEF RamOK
  <2> QED
    BY <1>2, <1>4, <2>1
<1>6. IsFiniteSet(u.gto)
  BY <1>3, <1>4, FS_AddElement
<1>7. ASSUME NEW a \in Account PROVE u.ram[a] = Cardinality(Paid(u.gto, a))
  <2>1. PICK n \in Nat : n = Cardinality(Paid(s.gto, a))
    BY <1>4, PaidFinite
  <2>2. s.ram[a] = n /\ DOMAIN s.ram = Account
    BY <2>1 DEF RamOK
  <2>3. u.ram[a] = IF a = row.payer THEN n + 1 ELSE n
    BY <1>2, <1>3, <2>2
  <2>4. Cardinality(Paid(u.gto, a)) = n + (IF a = row.payer THEN 1 ELSE 0)
    BY <1>3, <1>4, <1>5, <2>1, PaidMore
  <2> QED
    BY <2>3, <2>4
<1>8. DOMAIN u.ram = Account /\ u.ram = [a \in DOMAIN u.ram |-> u.ram[a]]
  BY <1>3 DEF RamOK
<1>9. u.ram = [a \in Account |-> Cardinality(Paid(u.gto, a))]
  BY <1>7, <1>8
<1>10. \A q \in s.gto : q.payer \in Account /\ q.no \in Nat /\ q.no < s.next
  BY DEF RamOK
<1>11. \A q \in u.gto : q.payer \in Account /\ q.no \in Nat /\ q.no < u.next
  BY <1>2, <1>3, <1>4, <1>10
<1>12. u.next \in Nat
  BY <1>3, <1>4
<1> QED
  BY <1>3, <1>6, <1>9, <1>11, <1>12 DEF RamOK

\* What the actions of t do, as far as they may fail: the rows after the
\* cancellation, and whether one of them is in the way of what is sent.
Found(g, t) == {row \in g : row.sender # None /\ row.trx = t}
Left(g, t) == IF Found(g, t) = {} THEN g ELSE g \ {CHOOSE row \in Found(g, t) : TRUE}
After(g, t) == IF Data[t].cancel = None THEN g ELSE Left(g, Data[t].cancel)
Taken(g, t) == Data[t].send # None /\ Found(After(g, t), Data[t].send) # {}
Fails(g, t, producing) ==
    IF Data[t].asserts THEN "assert"
    ELSE IF ~Taken(g, t) THEN None
    ELSE IF ~Data[t].replace THEN "duplicate"
    ELSE IF producing THEN "subjective" ELSE None

LEMMA CancelRam ==
    ASSUME NEW s, DOMAIN s = Fields, NEW t, NEW u, u = cancel_deferred_transaction(s, t)
    PROVE  /\ DOMAIN u = Fields /\ u.gto = Left(s.gto, t) /\ u.cpu = s.cpu /\ u.block_cpu = s.block_cpu
           /\ RamOK(s) => RamOK(u)
<1>1. SentRows(s, t) = Found(s.gto, t)
  BY DEF SentRows, Found
<1>2. CASE SentRows(s, t) = {}
  BY <1>1, <1>2 DEF cancel_deferred_transaction, Left
<1>3. CASE SentRows(s, t) # {}
  <2>1. PICK row : row = CHOOSE r \in SentRows(s, t) : TRUE
    OBVIOUS
  <2>2. row \in s.gto
    BY <1>3, <2>1 DEF SentRows
  <2>3. PICK v : v = remove_scheduled_transaction(s, row)
    OBVIOUS
  <2>4. u = [v EXCEPT !.cancelled = @ \cup {row.trx_id}]
    BY <1>3, <2>1, <2>3 DEF cancel_deferred_transaction
  <2>5. DOMAIN v = Fields /\ v.gto = s.gto \ {row} /\ v.cpu = s.cpu /\ v.block_cpu = s.block_cpu
    BY <2>3 DEF remove_scheduled_transaction, add_ram_usage, Fields
  <2>6. /\ DOMAIN u = Fields /\ u.gto = v.gto /\ u.cpu = v.cpu /\ u.block_cpu = v.block_cpu
        /\ u.ram = v.ram /\ u.next = v.next
    BY <2>4, <2>5 DEF Fields
  <2>7. Left(s.gto, t) = s.gto \ {row}
    BY <1>1, <1>3, <2>1 DEF Left
  <2>8. RamOK(s) => RamOK(v)
    BY <2>2, <2>3, RemoveRam
  <2>9. RamOK(v) <=> RamOK(u)
    BY <2>6, RamOther
  <2> QED
    BY <2>5, <2>6, <2>7, <2>8, <2>9
<1> QED
  BY <1>2, <1>3

LEMMA ExecRam ==
    ASSUME NEW s, DOMAIN s = Fields, NEW c, c.trx \in Trx, NEW o, o = exec(c, s)
    PROVE  /\ o.exc = Fails(s.gto, c.trx, c.producing)
           /\ o.exc = None => DOMAIN o.s = Fields /\ o.s.cpu = s.cpu /\ o.s.block_cpu = s.block_cpu
           /\ o.exc = None /\ RamOK(s) /\ (Taken(s.gto, c.trx) => ~Data[c.trx].replace) => RamOK(o.s)
<1> DEFINE d == Data[c.trx]
<1>1. PICK s1 : s1 = [s EXCEPT !.ran = Append(@, <<"run", c.trx, c.now>>)]
  OBVIOUS
<1>2. PICK s2 : s2 = IF d.cancel = None THEN s1 ELSE cancel_deferred_transaction(s1, d.cancel)
  OBVIOUS
<1>3. /\ DOMAIN s1 = Fields /\ s1.gto = s.gto /\ s1.cpu = s.cpu /\ s1.block_cpu = s.block_cpu
      /\ s1.ram = s.ram /\ s1.next = s.next
  BY <1>1 DEF Fields
<1>4. RamOK(s) => RamOK(s1)
  BY <1>3, RamOther
<1>5. /\ DOMAIN s2 = Fields /\ s2.gto = After(s.gto, c.trx) /\ s2.cpu = s.cpu /\ s2.block_cpu = s.block_cpu
      /\ RamOK(s) => RamOK(s2)
  <2>1. CASE d.cancel = None
    BY <1>2, <1>3, <1>4, <2>1 DEF After
  <2>2. CASE d.cancel # None
    <3>1. s2 = cancel_deferred_transaction(s1, d.cancel) /\ After(s.gto, c.trx) = Left(s.gto, d.cancel)
      BY <1>2, <2>2 DEF After
    <3>2. /\ DOMAIN s2 = Fields /\ s2.gto = Left(s1.gto, d.cancel) /\ s2.cpu = s1.cpu
          /\ s2.block_cpu = s1.block_cpu /\ (RamOK(s1) => RamOK(s2))
      BY <1>3, <3>1, CancelRam
    <3> QED
      BY <1>3, <1>4, <3>1, <3>2
  <2> QED
    BY <2>1, <2>2
<1>6. o = IF d.asserts THEN [exc |-> "assert", s |-> s]
          ELSE IF d.send = None THEN [exc |-> None, s |-> s2]
          ELSE schedule_deferred_transaction(s2, d.send, d.replace, c.now, c.producing)
  BY <1>1, <1>2 DEF exec
<1>7. CASE d.asserts
  BY <1>6, <1>7 DEF Fails, None
<1>8. CASE ~d.asserts /\ d.send = None
  BY <1>5, <1>6, <1>8 DEF Fails, Taken
<1>9. CASE ~d.asserts /\ d.send # None
  <2>1. d.send \in Trx
    BY <1>9, DataAssumption
  <2>2. SentRows(s2, d.send) = Found(After(s.gto, c.trx), d.send)
    BY <1>5 DEF SentRows, Found
  <2>3. Taken(s.gto, c.trx) <=> SentRows(s2, d.send) # {}
    BY <1>9, <2>2 DEF Taken
  <2>4. o = schedule_deferred_transaction(s2, d.send, d.replace, c.now, c.producing)
    BY <1>6, <1>9
  <2>5. CASE SentRows(s2, d.send) = {}
    <3>1. o = [exc |-> None, s |-> create_generated(s2, d.send, c.now)]
      BY <2>4, <2>5 DEF schedule_deferred_transaction
    <3>2. PICK u : u = create_generated(s2, d.send, c.now)
      OBVIOUS
    <3>3. DOMAIN u = Fields /\ u.cpu = s2.cpu /\ u.block_cpu = s2.block_cpu
      BY <1>5, <3>2 DEF create_generated, add_ram_usage, Fields
    <3>4. RamOK(s2) => RamOK(u)
      BY <1>5, <2>1, <3>2, CreateRam
    <3>5. o.exc = None /\ o.s = u
      BY <3>1, <3>2
    <3> QED
      BY <1>5, <1>9, <2>3, <2>5, <3>3, <3>4, <3>5 DEF Fails
  <2>6. CASE SentRows(s2, d.send) # {} /\ ~d.replace
    <3>1. o = [exc |-> "duplicate", s |-> s2]
      BY <2>4, <2>6 DEF schedule_deferred_transaction
    <3> QED
      BY <1>9, <2>3, <2>6, <3>1 DEF Fails, None
  <2>7. CASE SentRows(s2, d.send) # {} /\ d.replace /\ c.producing
    <3>1. o = [exc |-> "subjective", s |-> s2]
      BY <2>4, <2>7 DEF schedule_deferred_transaction
    <3> QED
      BY <1>9, <2>3, <2>7, <3>1 DEF Fails, None
  <2>8. CASE SentRows(s2, d.send) # {} /\ d.replace /\ ~c.producing
    <3>1. PICK u : u = ReplaceRow(s2, d.send, c.now)
      OBVIOUS
    <3>2. o = [exc |-> None, s |-> u]
      BY <2>4, <2>8, <3>1 DEF schedule_deferred_transaction
    <3>3. DOMAIN u = Fields /\ u.cpu = s2.cpu /\ u.block_cpu = s2.block_cpu
      BY <1>5, <3>1 DEF ReplaceRow, add_ram_usage, Fields
    <3>4. o.exc = None /\ o.s = u
      BY <3>2
    <3> QED
      BY <1>5, <1>9, <2>3, <2>8, <3>3, <3>4 DEF Fails
  <2> QED
    BY <2>5, <2>6, <2>7, <2>8
<1> QED
  BY <1>7, <1>8, <1>9

\* An input is recorded and runs, or is stored until its delay is over.
LEMMA ExecInputRam ==
    ASSUME NEW s, DOMAIN s = Fields, NEW c, c.trx \in Input, NEW o, o = exec_input(c, s)
    PROVE  /\ o.exc = IF c.trx \in s.dedup THEN "tx_duplicate"
                      ELSE IF Data[c.trx].delay = 0 THEN Fails(s.gto, c.trx, c.producing) ELSE None
           /\ o.exc = None => DOMAIN o.s = Fields /\ o.s.cpu = s.cpu /\ o.s.block_cpu = s.block_cpu
           /\ /\ o.exc = None /\ RamOK(s)
              /\ Data[c.trx].delay = 0 /\ Taken(s.gto, c.trx) => ~Data[c.trx].replace
              => RamOK(o.s)
<1>1. PICK s1 : s1 = [s EXCEPT !.dedup = @ \cup {c.trx}]
  OBVIOUS
<1>2. c.trx \in Trx
  BY DataAssumption
<1>3. /\ DOMAIN s1 = Fields /\ s1.gto = s.gto /\ s1.cpu = s.cpu /\ s1.block_cpu = s.block_cpu
      /\ s1.ram = s.ram /\ s1.next = s.next
  BY <1>1 DEF Fields
<1>4. RamOK(s) => RamOK(s1)
  BY <1>3, RamOther
<1>5. CASE c.trx \in s.dedup
  BY <1>5 DEF exec_input, None
<1>6. CASE c.trx \notin s.dedup /\ Data[c.trx].delay = 0
  <2>1. o = exec(c, s1)
    BY <1>1, <1>6 DEF exec_input
  <2>2. /\ o.exc = Fails(s1.gto, c.trx, c.producing)
        /\ o.exc = None => DOMAIN o.s = Fields /\ o.s.cpu = s1.cpu /\ o.s.block_cpu = s1.block_cpu
        /\ o.exc = None /\ RamOK(s1) /\ (Taken(s1.gto, c.trx) => ~Data[c.trx].replace) => RamOK(o.s)
    BY <1>2, <1>3, <2>1, ExecRam
  <2> QED
    BY <1>3, <1>4, <1>6, <2>2
<1>7. CASE c.trx \notin s.dedup /\ Data[c.trx].delay # 0
  <2>1. PICK u : u = create_generated(s1, c.trx, c.now)
    OBVIOUS
  <2>2. o.exc = None /\ o.s = u
    BY <1>1, <1>7, <2>1 DEF exec_input
  <2>3. DOMAIN u = Fields /\ u.cpu = s1.cpu /\ u.block_cpu = s1.block_cpu
    BY <1>3, <2>1 DEF create_generated, add_ram_usage, Fields
  <2>4. RamOK(s1) => RamOK(u)
    BY <1>2, <1>3, <2>1, CreateRam
  <2> QED
    BY <1>3, <1>4, <1>7, <2>2, <2>3, <2>4
<1> QED
  BY <1>5, <1>6, <1>7

-----------------------------------------------------------------------------
(***************************************************************************)
(* Limits and bills.                                                       *)
(***************************************************************************)
IsContext(c) ==
    /\ c.payer \in Account /\ c.max_cpu \in Nat /\ c.billed \in Nat /\ c.leeway \in Nat
    /\ c.explicit \in BOOLEAN

LEMMA Numbers ==
    /\ Allowance \in [Account -> Nat] /\ MaxTrxCpu \in Nat /\ MinTrxCpu \in Nat /\ MaxBlockCpu \in Nat
    /\ Leeway \in Nat /\ Window \in Nat /\ MaxSlot \in Nat /\ PeerCpu \subseteq Nat
BY DataAssumption

LEMMA LessOfTwo ==
    ASSUME NEW a \in Int, NEW b \in Int
    PROVE  /\ Min({a, b}) = (IF a <= b THEN a ELSE b) /\ Max({a, b}) = (IF a <= b THEN b ELSE a)
<1>1. PICK x \in {a, b} : x = (IF a <= b THEN a ELSE b) /\ \A y \in {a, b} : x <= y
  OBVIOUS
<1>2. \A z \in {a, b} : (\A y \in {a, b} : z <= y) => z = x
  BY <1>1
<1>3. Min({a, b}) = x
  BY <1>1, <1>2 DEF Min
<1>4. PICK u \in {a, b} : u = (IF a <= b THEN b ELSE a) /\ \A y \in {a, b} : u >= y
  OBVIOUS
<1>5. \A z \in {a, b} : (\A y \in {a, b} : z >= y) => z = u
  BY <1>4
<1>6. Max({a, b}) = u
  BY <1>4, <1>5 DEF Max
<1> QED
  BY <1>1, <1>3, <1>4, <1>6

LEMMA LeastOfThree ==
    ASSUME NEW a \in Nat, NEW b \in Nat, NEW c \in Nat
    PROVE  /\ Min({a, b, c}) \in Nat
           /\ Min({a, b, c}) <= a /\ Min({a, b, c}) <= b /\ Min({a, b, c}) <= c
<1>1. \E x \in {a, b, c} : \A y \in {a, b, c} : x <= y
  OBVIOUS
<1> QED
  BY <1>1 DEF Min

LEMMA Limits ==
    ASSUME NEW c, IsContext(c), NEW s, UsageOK(s)
    PROVE  /\ \A a \in Account : get_account_cpu_limit(s, a) \in Nat
           /\ get_block_cpu_limit(s) \in Nat
           /\ TrxCpuLimit(c) \in Nat /\ TrxCpuLimit(c) <= MaxTrxCpu
           /\ c.max_cpu = 0 => TrxCpuLimit(c) = MaxTrxCpu
           /\ initial_objective_duration_limit(c, s) \in Nat
           /\ initial_objective_duration_limit(c, s) = IF get_block_cpu_limit(s) <= TrxCpuLimit(c)
                                                       THEN get_block_cpu_limit(s) ELSE TrxCpuLimit(c)
           /\ billing_timer_exception_code(c, s) = IF get_block_cpu_limit(s) < TrxCpuLimit(c)
                                                   THEN "block_cpu" ELSE "tx_cpu"
<1>1. ASSUME NEW a \in Account PROVE get_account_cpu_limit(s, a) \in Nat
  <2>1. PICK x \in Int : x = Allowance[a] - s.cpu[a]
    BY Numbers DEF UsageOK
  <2>2. Max({0, x}) = IF 0 <= x THEN x ELSE 0
    BY LessOfTwo
  <2>3. get_account_cpu_limit(s, a) = Max({0, x})
    BY <2>1 DEF get_account_cpu_limit
  <2> QED
    BY <2>2, <2>3
<1>2. PICK b \in Nat : b = get_block_cpu_limit(s)
  BY Numbers DEF UsageOK, get_block_cpu_limit
<1>3. PICK m \in Nat, k \in Nat : m = c.max_cpu /\ k = MaxTrxCpu
  BY Numbers DEF IsContext
<1>4. PICK t : t = TrxCpuLimit(c)
  OBVIOUS
<1>5. t \in Nat /\ t <= k /\ (m = 0 => t = k)
  <2>1. CASE m = 0
    <3>1. {k} \cup ({m} \ {0}) = {k, k}
      BY <2>1
    <3>2. t = Min({k, k})
      BY <1>3, <1>4, <3>1 DEF TrxCpuLimit
    <3>3. Min({k, k}) = k
      BY LessOfTwo
    <3> QED
      BY <3>2, <3>3
  <2>2. CASE m # 0
    <3>1. {k} \cup ({m} \ {0}) = {k, m}
      BY <2>2
    <3>2. t = Min({k, m})
      BY <1>3, <1>4, <3>1 DEF TrxCpuLimit
    <3>3. Min({k, m}) = IF k <= m THEN k ELSE m
      BY LessOfTwo
    <3> QED
      BY <2>2, <3>2, <3>3
  <2> QED
    BY <2>1, <2>2
<1>6. initial_objective_duration_limit(c, s) = IF b <= t THEN b ELSE t
  <2>1. Min({b, t}) = IF b <= t THEN b ELSE t
    BY <1>5, LessOfTwo
  <2> QED
    BY <1>2, <1>4, <2>1 DEF initial_objective_duration_limit
<1>7. billing_timer_exception_code(c, s) = IF b < t THEN "block_cpu" ELSE "tx_cpu"
  BY <1>2, <1>4 DEF billing_timer_exception_code
<1> QED
  BY <1>1, <1>2, <1>3, <1>4, <1>5, <1>6, <1>7

\* What finalize throws.
Bill(c, s, billed, account, limit, exc) ==
    /\ billed < MinTrxCpu => exc = "min_cpu"
    /\ billed >= MinTrxCpu /\ account <= limit /\ billed > account => exc = "tx_cpu"
    /\ billed >= MinTrxCpu /\ account > limit /\ billed > limit => exc = billing_timer_exception_code(c, s)
    /\ billed >= MinTrxCpu /\ billed <= account /\ billed <= limit => exc = None

LEMMA Billing ==
    ASSUME NEW c, NEW s, NEW billed \in Nat, NEW account \in Nat, NEW limit \in Nat,
           NEW exc, exc = BillingFailure(c, s, billed, account, limit)
    PROVE  Bill(c, s, billed, account, limit, exc)
<1>1. PICK m \in Nat : m = MinTrxCpu
  BY Numbers
<1>2. CASE billed < m
  BY <1>1, <1>2 DEF BillingFailure, Bill
<1>3. CASE ~(billed < m) /\ account <= limit /\ billed > account
  BY <1>1, <1>3 DEF BillingFailure, Bill
<1>4. CASE ~(billed < m) /\ account > limit /\ billed > limit
  BY <1>1, <1>4 DEF BillingFailure, Bill
<1>5. CASE ~(billed < m) /\ billed <= account /\ billed <= limit
  BY <1>1, <1>5 DEF BillingFailure, Bill
<1> QED
  BY <1>1, <1>2, <1>3, <1>4, <1>5

-----------------------------------------------------------------------------
(***************************************************************************)
(* Contexts.                                                               *)
(***************************************************************************)
\* Why a context fails, in the order in which the reasons are looked at.
Ran(c, s, body, e, cut, r, limit) ==
    /\ r.billed = update_billed_cpu_time(c, e)
    /\ r.exc = None => r.s = add_transaction_usage(body.s, {c.payer}, r.billed)
    /\ c.pre # None => r.exc = c.pre
    /\ c.pre = None /\ c.billed > limit => r.exc = billing_timer_exception_code(c, s)
    /\ c.pre = None /\ ~(c.billed > limit) => r.bill_to = {c.payer}
    /\ c.pre = None /\ ~(c.billed > limit) /\ cut # None => r.exc = cut
    /\ c.pre = None /\ ~(c.billed > limit) /\ cut = None /\ body.exc # None => r.exc = body.exc
    /\ c.pre = None /\ ~(c.billed > limit) /\ cut = None /\ body.exc = None =>
         r.exc = BillingFailure(c, s, r.billed, get_account_cpu_limit(s, c.payer), limit)

LEMMA RunCases ==
    ASSUME NEW c, NEW s, NEW body, NEW e, NEW cut, NEW r, r = Run(c, s, body, e, cut),
           NEW limit, limit = initial_objective_duration_limit(c, s)
    PROVE  Ran(c, s, body, e, cut, r, limit)
<1>1. PICK early : early = (c.billed > limit)
  OBVIOUS
<1>2. PICK exc : exc = Failure(c, s, body, e, cut, early)
  OBVIOUS
<1>3. PICK billed : billed = update_billed_cpu_time(c, e)
  OBVIOUS
<1>4. r = Finished(c, s, body, billed, early, exc)
  BY <1>1, <1>2, <1>3 DEF Run
<1>5. /\ r.exc = exc /\ r.billed = billed
      /\ r.bill_to = IF c.pre # None \/ early THEN {} ELSE {c.payer}
      /\ exc = None => r.s = add_transaction_usage(body.s, {c.payer}, billed)
  BY <1>4 DEF Finished
<1>6. /\ c.pre # None => exc = c.pre
      /\ c.pre = None /\ early => exc = billing_timer_exception_code(c, s)
      /\ c.pre = None /\ ~early /\ cut # None => exc = cut
      /\ c.pre = None /\ ~early /\ cut = None /\ body.exc # None => exc = body.exc
      /\ c.pre = None /\ ~early /\ cut = None /\ body.exc = None => exc = finalize(c, s, e)
  <2>1. CASE c.pre # None
    BY <1>2, <2>1 DEF Failure
  <2>2. CASE c.pre = None /\ early
    BY <1>2, <2>2 DEF Failure
  <2>3. CASE c.pre = None /\ ~early /\ cut # None
    BY <1>2, <2>3 DEF Failure
  <2>4. CASE c.pre = None /\ ~early /\ cut = None /\ body.exc # None
    BY <1>2, <2>4 DEF Failure
  <2>5. CASE c.pre = None /\ ~early /\ cut = None /\ body.exc = None
    BY <1>2, <2>5 DEF Failure
  <2> QED
    BY <2>1, <2>2, <2>3, <2>4, <2>5
<1>7. finalize(c, s, e) = BillingFailure(c, s, billed, get_account_cpu_limit(s, c.payer), limit)
  BY <1>3 DEF finalize
<1> QED
  BY <1>1, <1>3, <1>5, <1>6, <1>7 DEF Ran

\* The time billed is a number; a clock bills no less than the minimum.
LEMMA Billed ==
    ASSUME NEW c, IsContext(c), NEW e \in Nat, NEW b, b = update_billed_cpu_time(c, e)
    PROVE  /\ b \in Nat
           /\ c.explicit => b = c.billed
           /\ ~c.explicit => b >= MinTrxCpu /\ b >= e /\ (b = e \/ b = MinTrxCpu)
<1>1. PICK m \in Nat : m = MinTrxCpu
  BY Numbers
<1>2. e \in Int /\ m \in Int
  OBVIOUS
<1>a. Max({e, m}) = IF e <= m THEN m ELSE e
  BY <1>2, LessOfTwo, Zenon
<1>b. c.explicit \in BOOLEAN
  BY DEF IsContext
<1>3. CASE c.explicit
  BY <1>3 DEF update_billed_cpu_time, IsContext
<1>4. CASE ~c.explicit
  <2>1. b = Max({e, m})
    BY <1>1, <1>4 DEF update_billed_cpu_time
  <2> QED
    BY <1>1, <1>a, <1>4, <2>1
<1> QED
  BY <1>3, <1>4

\* A context that throws no exception bills what its account and the block
\* still have.
Pays(c, s, body, cut, r) ==
    /\ c.pre = None /\ cut = None /\ body.exc = None
    /\ r.billed \in Nat /\ r.billed >= MinTrxCpu
    /\ r.billed <= get_account_cpu_limit(s, c.payer)
    /\ r.billed <= initial_objective_duration_limit(c, s)
    /\ r.s = add_transaction_usage(body.s, {c.payer}, r.billed)

LEMMA RunPays ==
    ASSUME NEW c, IsContext(c), NEW s, UsageOK(s), NEW body, NEW e \in Nat, NEW cut,
           NEW r, r = Run(c, s, body, e, cut), r.exc = None
    PROVE  Pays(c, s, body, cut, r)
<1>1. PICK limit \in Nat : limit = initial_objective_duration_limit(c, s)
  BY Limits
<1>2. PICK account \in Nat : account = get_account_cpu_limit(s, c.payer)
  BY Limits DEF IsContext
<1>3. Ran(c, s, body, e, cut, r, limit)
  BY <1>1, RunCases, Zenon
<1>4. billing_timer_exception_code(c, s) # None
  BY DEF billing_timer_exception_code, None
<1>5. c.pre = None /\ ~(c.billed > limit) /\ cut = None /\ body.exc = None
  BY <1>3, <1>4 DEF Ran
<1>6. PICK b \in Nat : b = r.billed
  <2>1. r.billed = update_billed_cpu_time(c, e)
    BY <1>3 DEF Ran
  <2> QED
    BY <2>1, Billed
<1>7. BillingFailure(c, s, b, account, limit) = None
  BY <1>2, <1>3, <1>5, <1>6 DEF Ran
<1>10. PICK m \in Nat : m = MinTrxCpu
  BY Numbers
<1>11. b >= m /\ b <= account /\ b <= limit
  <2>1. PICK exc : exc = BillingFailure(c, s, b, account, limit)
    OBVIOUS
  <2>2. Bill(c, s, b, account, limit, exc)
    BY <2>1, Billing, Zenon
  <2>3. exc = None /\ "min_cpu" # None /\ "tx_cpu" # None
    BY <1>7, <2>1 DEF None
  <2> QED
    BY <1>4, <1>10, <2>2, <2>3 DEF Bill
<1> QED
  BY <1>1, <1>2, <1>3, <1>5, <1>6, <1>10, <1>11 DEF Ran, Pays

\* A state of the right shape, in which usage and RAM are accounted for.
Fine(s) == DOMAIN s = Fields /\ UsageOK(s) /\ RamOK(s)

LEMMA AddUsage ==
    ASSUME NEW s, Fine(s), NEW accounts, NEW cpu \in Nat, s.block_cpu + cpu <= MaxBlockCpu
    PROVE  Fine(add_transaction_usage(s, accounts, cpu))
<1>1. PICK u : u = add_transaction_usage(s, accounts, cpu)
  OBVIOUS
<1>2. /\ DOMAIN u = Fields /\ u.gto = s.gto /\ u.ram = s.ram /\ u.next = s.next
      /\ u.cpu = [a \in Account |-> s.cpu[a] + IF a \in accounts THEN cpu ELSE 0]
      /\ u.block_cpu = s.block_cpu + cpu
  BY <1>1 DEF add_transaction_usage, Fine, Fields
<1>3. RamOK(u)
  BY <1>2, RamOther DEF Fine
<1>4. s.cpu \in [Account -> Nat] /\ s.block_cpu \in Nat /\ MaxBlockCpu \in Nat
  BY Numbers DEF Fine, UsageOK
<1>5. u.cpu \in [Account -> Nat]
  BY <1>2, <1>4
<1>6. u.block_cpu \in 0 .. MaxBlockCpu
  BY <1>2, <1>4
<1> QED
  BY <1>1, <1>2, <1>3, <1>5, <1>6 DEF Fine, UsageOK

\* The state of a context that throws no exception.
LEMMA RunFine ==
    ASSUME NEW c, IsContext(c), NEW s, UsageOK(s), NEW body, NEW e \in Nat, NEW cut,
           NEW r, r = Run(c, s, body, e, cut), r.exc = None, Fine(body.s), body.s.block_cpu = s.block_cpu
    PROVE  Fine(r.s)
<1>1. /\ r.billed \in Nat /\ r.billed <= initial_objective_duration_limit(c, s)
      /\ r.s = add_transaction_usage(body.s, {c.payer}, r.billed)
  <2>1. Pays(c, s, body, cut, r)
    BY RunPays, Zenon
  <2> QED
    BY <2>1 DEF Pays
<1>2. PICK b \in Nat : b = get_block_cpu_limit(s) /\ initial_objective_duration_limit(c, s) <= b
  BY Limits
<1>3. s.block_cpu \in Nat /\ MaxBlockCpu \in Nat /\ b = MaxBlockCpu - s.block_cpu
  BY <1>2, Numbers DEF UsageOK, get_block_cpu_limit
<1>4. initial_objective_duration_limit(c, s) \in Nat
  BY Limits
<1>5. body.s.block_cpu + r.billed <= MaxBlockCpu
  BY <1>1, <1>2, <1>3, <1>4
<1> QED
  BY <1>1, <1>5, AddUsage

\* An input that ran: the producer has refused to replace a row, a peer is
\* assumed not to.
LEMMA PushFine ==
    ASSUME NEW s, Fine(s), NEW t \in Input, NEW slot \in Nat, NEW explicit \in BOOLEAN, NEW billed \in Nat,
           NEW e \in Nat, NEW cut, NEW o,
           o = push_transaction(InputContext(t, slot, explicit, billed), s, e, cut), o.exc = None,
           explicit => ~(Data[t].delay = 0 /\ Taken(s.gto, t) /\ Data[t].replace)
    PROVE  Fine(o.s)
<1>1. PICK c : c = InputContext(t, slot, explicit, billed)
  OBVIOUS
<1>2. c.trx = t /\ c.payer = Data[t].payer /\ c.max_cpu = Data[t].max_cpu /\ c.billed = billed
      /\ c.leeway = Leeway /\ c.explicit = explicit /\ c.producing = ~explicit
  BY <1>1 DEF InputContext, Context
<1>3. IsContext(c)
  BY <1>2, DataAssumption DEF IsContext
<1>4. PICK body : body = exec_input(c, s)
  OBVIOUS
<1>5. PICK r : r = Run(c, s, body, e, cut)
  OBVIOUS
<1>6. o.exc = r.exc /\ o.s = r.s
  BY <1>1, <1>2, <1>4, <1>5 DEF push_transaction, InputOutcome, Outcome
<1>7. UsageOK(s) /\ RamOK(s) /\ DOMAIN s = Fields
  BY DEF Fine
<1>8. body.exc = None
  <2>1. r.exc = None
    BY <1>6
  <2>2. Pays(c, s, body, cut, r)
    BY <1>3, <1>5, <1>7, <2>1, RunPays, Zenon
  <2> QED
    BY <2>2 DEF Pays
<1>9. /\ body.exc = IF c.trx \in s.dedup THEN "tx_duplicate"
                    ELSE IF Data[c.trx].delay = 0 THEN Fails(s.gto, c.trx, c.producing) ELSE None
      /\ body.exc = None => DOMAIN body.s = Fields /\ body.s.cpu = s.cpu /\ body.s.block_cpu = s.block_cpu
      /\ /\ body.exc = None /\ RamOK(s)
         /\ Data[c.trx].delay = 0 /\ Taken(s.gto, c.trx) => ~Data[c.trx].replace
         => RamOK(body.s)
  BY <1>2, <1>4, <1>7, ExecInputRam
<1>10. ASSUME Data[t].delay = 0, Taken(s.gto, t), Data[t].replace PROVE FALSE
  <2>1. ~explicit
    BY <1>10
  <2>2. Fails(s.gto, t, c.producing) = None
    BY <1>2, <1>8, <1>9, <1>10 DEF None
  <2> QED
    BY <1>2, <1>10, <2>1, <2>2 DEF Fails, None
<1>11. RamOK(body.s)
  BY <1>2, <1>7, <1>8, <1>9, <1>10
<1>12. Fine(body.s) /\ body.s.block_cpu = s.block_cpu
  BY <1>7, <1>8, <1>9, <1>11 DEF Fine, UsageOK
<1>13. Fine(r.s)
  <2>1. r.exc = None /\ Fine(body.s) /\ body.s.block_cpu = s.block_cpu
    BY <1>6, <1>12
  <2>2. IsContext(c) /\ UsageOK(s) /\ r = Run(c, s, body, e, cut)
    BY <1>3, <1>5, <1>7
  <2> QED
    BY <2>1, <2>2, RunFine
<1> QED
  BY <1>6, <1>13

-----------------------------------------------------------------------------
\* What the pushing of a row that is due may end in.
RowEnds(row, c, s, s1, r, p, o) ==
    \/ o = Outcome("not_ready", s, <<>>)
    \/ /\ row.expiration < c.now
       /\ o = Outcome(None, s1, <<Receipt(row.trx_id, "expired", c.billed)>>)
    \/ r.exc = None /\ o = Outcome(None, r.s, <<Receipt(row.trx_id, "executed", r.billed)>>)
    \/ /\ r.exc # None /\ (row.sender = None \/ failure_is_subjective(r.exc))
       /\ o = GiveUp(row, c, s, s1, r.bill_to, HardFailCpu(c, s1, r.billed), r.exc)
    \/ /\ r.exc # None /\ row.sender # None /\ ~failure_is_subjective(r.exc) /\ p.exc = None
       /\ o = Outcome(None, p.s, <<Receipt(row.trx_id, "soft_fail", p.billed)>>)
    \/ /\ r.exc # None /\ row.sender # None /\ ~failure_is_subjective(r.exc) /\ p.exc # None
       /\ o = GiveUp(row, c, s, s1, r.bill_to, HardFailCpu(c, s1, p.billed), p.exc)

LEMMA RowCases ==
    ASSUME NEW row, NEW c, NEW s, NEW e, NEW cut, NEW h, NEW hcut,
           NEW s1, s1 = remove_scheduled_transaction(s, row),
           NEW r, r = Run(c, s1, exec(c, s1), e, cut), NEW p, p = apply_onerror(row, c, s1, e, h, hcut),
           NEW o, o = push_scheduled_transaction(row, c, s, e, cut, h, hcut)
    PROVE  RowEnds(row, c, s, s1, r, p, o)
<1>1. \/ o = Outcome("not_ready", s, <<>>)
      \/ /\ row.expiration < c.now
         /\ o = Outcome(None, s1, <<Receipt(row.trx_id, "expired", c.billed)>>)
      \/ o = Retire(row, c, s, s1, r, p)
  BY DEF push_scheduled_transaction
<1>2. CASE o = Retire(row, c, s, s1, r, p)
  BY <1>2 DEF Retire, RowEnds
<1> QED
  BY <1>1, <1>2 DEF RowEnds

\* The error handler, like any context.
HandlerBody(row, now, s) ==
    IF Data[row.trx].handler
    THEN [exc |-> None, s |-> [s EXCEPT !.ran = Append(@, <<"onerror", row.trx, now>>)]]
    ELSE [exc |-> "assert", s |-> s]

LEMMA HandlerRuns ==
    ASSUME NEW row, NEW c, NEW s, NEW e, NEW h, NEW cut
    PROVE  apply_onerror(row, c, s, e, h, cut) =
               Run(HandlerContext(row, c), s, HandlerBody(row, c.now, s), e + h, cut)
BY DEF apply_onerror, RunHandler, HandlerBody

\* The context of a row, with a clock or with a receipt.
IsRowContext(c, row, slot) ==
    /\ c.trx = row.trx /\ c.now = slot /\ c.payer = row.payer /\ c.max_cpu = Data[row.trx].max_cpu
    /\ c.pre = None /\ c.leeway = 0 /\ c.billed \in Nat /\ c.explicit \in BOOLEAN /\ c.producing \in BOOLEAN
    /\ DOMAIN c = {"trx", "payer", "max_cpu", "now", "explicit", "producing", "billed", "leeway", "pre"}

LEMMA RowContexts ==
    ASSUME NEW row, NEW slot, NEW explicit \in BOOLEAN, NEW billed \in Nat
    PROVE  /\ IsRowContext(RowContext(row, slot, explicit, billed), row, slot)
           /\ RowContext(row, slot, explicit, billed).explicit = explicit
           /\ RowContext(row, slot, explicit, billed).producing = ~explicit
           /\ RowContext(row, slot, explicit, billed).billed = billed
           /\ IsRowContext(PeerContext(row, slot, billed), row, slot)
           /\ PeerContext(row, slot, billed).producing
<1>1. PICK c : c = RowContext(row, slot, explicit, billed)
  OBVIOUS
<1>2. IsRowContext(c, row, slot) /\ c.explicit = explicit /\ c.producing = ~explicit /\ c.billed = billed
  BY <1>1 DEF RowContext, Context, IsRowContext, None
<1>3. PICK d : d = RowContext(row, slot, TRUE, billed)
  OBVIOUS
<1>4. IsRowContext(d, row, slot)
  BY <1>3 DEF RowContext, Context, IsRowContext, None
<1>5. PICK v : v = PeerContext(row, slot, billed)
  OBVIOUS
<1>6. v = [d EXCEPT !.producing = TRUE]
  BY <1>3, <1>5 DEF PeerContext
<1>7. IsRowContext(v, row, slot) /\ v.producing
  BY <1>4, <1>6 DEF IsRowContext
<1> QED
  BY <1>1, <1>2, <1>5, <1>7

LEMMA HandlerContexts ==
    ASSUME NEW c, NEW row, NEW slot, IsRowContext(c, row, slot), NEW d, d = HandlerContext(row, c)
    PROVE  /\ d.payer = row.sender /\ d.max_cpu = 0 /\ d.leeway = Leeway /\ d.pre = None
           /\ d.billed = c.billed /\ d.explicit = c.explicit /\ d.now = c.now
           /\ d.producing = c.producing /\ d.trx = c.trx
BY DEF IsRowContext, HandlerContext

\* A row whose names are names.
KnownRow(row) == row.trx \in Trx /\ row.sender = Data[row.trx].sender /\ row.payer \in Account

LEMMA RowContextNumbers ==
    ASSUME NEW c, NEW row, NEW slot, KnownRow(row), IsRowContext(c, row, slot)
    PROVE  IsContext(c) /\ (row.sender # None => IsContext(HandlerContext(row, c)))
<1>1. IsContext(c)
  BY DataAssumption DEF IsContext, IsRowContext, KnownRow
<1>2. ASSUME row.sender # None PROVE IsContext(HandlerContext(row, c))
  <2>1. PICK d : d = HandlerContext(row, c)
    OBVIOUS
  <2>2. d.payer = row.sender /\ d.max_cpu = 0 /\ d.leeway = Leeway /\ d.billed = c.billed
        /\ d.explicit = c.explicit
    BY <2>1, HandlerContexts
  <2>3. row.sender \in Account
    BY <1>2, DataAssumption DEF KnownRow
  <2> QED
    BY <2>1, <2>2, <2>3, Numbers DEF IsContext, IsRowContext
<1> QED
  BY <1>1, <1>2

\* Whether a row would replace another.
Replacing(s, row) == Taken(s.gto \ {row}, row.trx) /\ Data[row.trx].replace

LEMMA Receipts ==
    ASSUME NEW id, NEW status, NEW cpu, NEW exc, NEW s, NEW rs
    PROVE  /\ Receipt(id, status, cpu).status = status /\ Receipt(id, status, cpu).cpu = cpu
           /\ Receipt(id, status, cpu).id = id
           /\ Outcome(exc, s, rs).exc = exc /\ Outcome(exc, s, rs).s = s /\ Outcome(exc, s, rs).receipts = rs
BY DEF Receipt, Outcome

LEMMA OneOrNone ==
    ASSUME NEW x, NEW y
    PROVE  <<x>> # <<>> /\ (<<x>> = <<y>> => x = y)
<1>1. PICK xs, ys, n : xs = <<x>> /\ ys = <<y>> /\ n = <<>>
  OBVIOUS
<1>2. xs[1] = x /\ ys[1] = y /\ Len(xs) = 1 /\ Len(n) = 0
  BY <1>1
<1> QED
  BY <1>1, <1>2

\* What a row that is given up leaves behind.
GivenUp(row, c, s, s1, bill_to, bill, exc, o) ==
    \/ o.receipts = <<>> /\ o.s = s
    \/ /\ ~failure_is_subjective(exc) /\ (c.explicit \/ ~scheduled_failure_is_subjective(exc))
       /\ UsageAllowed(s1, bill_to, bill)
       /\ o = Outcome(exc, add_transaction_usage(s1, bill_to, bill),
                      <<Receipt(row.trx_id, "hard_fail", bill)>>)

LEMMA GivesUp ==
    ASSUME NEW row, NEW c, c.explicit \in BOOLEAN, NEW s, NEW s1, NEW bill_to, NEW bill, NEW exc, NEW o,
           o = GiveUp(row, c, s, s1, bill_to, bill, exc)
    PROVE  GivenUp(row, c, s, s1, bill_to, bill, exc, o)
<1>1. \/ o = Outcome(exc, s, <<>>) \/ o = Outcome("usage", s, <<>>)
      \/ /\ ~failure_is_subjective(exc) /\ (c.explicit \/ ~scheduled_failure_is_subjective(exc))
         /\ UsageAllowed(s1, bill_to, bill)
         /\ o = Outcome(exc, add_transaction_usage(s1, bill_to, bill),
                        <<Receipt(row.trx_id, "hard_fail", bill)>>)
  BY DEF GiveUp
<1> QED
  BY <1>1, Receipts DEF GivenUp

\* A receipt says that a row ran only if it did.
LEMMA OnlyRan ==
    ASSUME NEW row, NEW c, c.explicit \in BOOLEAN, NEW s, NEW s1, NEW r, NEW p, NEW o,
           RowEnds(row, c, s, s1, r, p, o), NEW x, o.receipts = <<Receipt(row.trx_id, "executed", x)>>
    PROVE  r.exc = None
<1> SUFFICES ASSUME r.exc # None PROVE FALSE
  OBVIOUS
<1>1. ASSUME NEW status, NEW y, o.receipts = <<Receipt(row.trx_id, status, y)>> PROVE status = "executed"
  <2>1. Receipt(row.trx_id, status, y) = Receipt(row.trx_id, "executed", x)
    BY <1>1, OneOrNone
  <2>2. Receipt(row.trx_id, status, y).status = status /\ Receipt(row.trx_id, "executed", x).status = "executed"
    BY Receipts
  <2> QED
    BY <2>1, <2>2
<1>2. o.receipts # <<>>
  BY OneOrNone
<1>3. \A y : /\ o.receipts # <<Receipt(row.trx_id, "expired", y)>>
             /\ o.receipts # <<Receipt(row.trx_id, "soft_fail", y)>>
             /\ o.receipts # <<Receipt(row.trx_id, "hard_fail", y)>>
  BY <1>1
<1>4. ASSUME NEW bill_to, NEW bill, NEW exc, o = GiveUp(row, c, s, s1, bill_to, bill, exc) PROVE FALSE
  <2>1. GivenUp(row, c, s, s1, bill_to, bill, exc, o)
    BY <1>4, GivesUp
  <2> QED
    BY <1>2, <1>3, <2>1, Receipts DEF GivenUp
<1> QED
  BY <1>2, <1>3, <1>4, Receipts DEF RowEnds

\* What is billed is a number.
LEMMA RowNumbers ==
    ASSUME NEW s, UsageOK(s), NEW row, KnownRow(row), NEW slot, NEW c, IsRowContext(c, row, slot),
           NEW e \in Nat, NEW cut, NEW h \in Nat, NEW hcut, NEW body, NEW r, r = Run(c, s, body, e, cut),
           NEW p, p = apply_onerror(row, c, s, e, h, hcut)
    PROVE  /\ \A b \in Nat : HardFailCpu(c, s, b) \in Nat
           /\ r.billed \in Nat /\ (row.sender # None => p.billed \in Nat)
<1>1. IsContext(c) /\ (row.sender # None => IsContext(HandlerContext(row, c)))
  BY RowContextNumbers
<1>2. ASSUME NEW b \in Nat PROVE HardFailCpu(c, s, b) \in Nat
  <2>1. PICK account \in Nat, limit \in Nat : /\ account = get_account_cpu_limit(s, c.payer)
                                              /\ limit = initial_objective_duration_limit(c, s)
    BY <1>1, Limits DEF IsContext
  <2>2. Min({b, account, limit}) \in Nat
    BY LeastOfThree
  <2> QED
    BY <2>1, <2>2 DEF HardFailCpu
<1>3. r.billed \in Nat
  <2>1. PICK limit : limit = initial_objective_duration_limit(c, s)
    OBVIOUS
  <2>2. Ran(c, s, body, e, cut, r, limit)
    BY <2>1, RunCases, Zenon
  <2>3. r.billed = update_billed_cpu_time(c, e)
    BY <2>2 DEF Ran
  <2> QED
    BY <1>1, <2>3, Billed
<1>4. row.sender # None => p.billed \in Nat
  <2> SUFFICES ASSUME row.sender # None PROVE p.billed \in Nat
    OBVIOUS
  <2>1. PICK d, b, n, limit : /\ d = HandlerContext(row, c) /\ b = HandlerBody(row, c.now, s) /\ n = e + h
                              /\ limit = initial_objective_duration_limit(d, s)
    OBVIOUS
  <2>2. p = Run(d, s, b, n, hcut) /\ n \in Nat /\ IsContext(d)
    BY <1>1, <2>1, HandlerRuns
  <2>3. Ran(d, s, b, n, hcut, p, limit)
    BY <2>1, <2>2, RunCases, Zenon
  <2>4. p.billed = update_billed_cpu_time(d, n)
    BY <2>3 DEF Ran
  <2> QED
    BY <2>2, <2>4, Billed
<1> QED
  BY <1>2, <1>3, <1>4

LEMMA RowBills ==
    ASSUME NEW s, Fine(s), NEW row \in s.gto, KnownRow(row), NEW slot, NEW c, IsRowContext(c, row, slot),
           NEW e \in Nat, NEW cut, NEW h \in Nat, NEW hcut, NEW o,
           o = push_scheduled_transaction(row, c, s, e, cut, h, hcut), NEW receipt, o.receipts = <<receipt>>
    PROVE  receipt.cpu \in Nat
<1>1. PICK s1 : s1 = remove_scheduled_transaction(s, row)
  OBVIOUS
<1>2. UsageOK(s1)
  BY <1>1, RemoveRam DEF Fine, UsageOK
<1>3. PICK r, p : r = Run(c, s1, exec(c, s1), e, cut) /\ p = apply_onerror(row, c, s1, e, h, hcut)
  OBVIOUS
<1>4. RowEnds(row, c, s, s1, r, p, o)
  BY <1>1, <1>3, RowCases
<1>5. /\ \A b \in Nat : HardFailCpu(c, s1, b) \in Nat
      /\ r.billed \in Nat /\ (row.sender # None => p.billed \in Nat)
  BY <1>2, <1>3, RowNumbers
<1>6. c.billed \in Nat /\ c.explicit \in BOOLEAN
  BY DEF IsRowContext
<1>7. ASSUME NEW status, NEW x \in Nat, o.receipts = <<Receipt(row.trx_id, status, x)>> PROVE receipt.cpu \in Nat
  <2>1. receipt = Receipt(row.trx_id, status, x)
    BY <1>7, OneOrNone
  <2> QED
    BY <2>1, Receipts
<1>8. ASSUME NEW bill_to, NEW bill \in Nat, NEW exc, o = GiveUp(row, c, s, s1, bill_to, bill, exc)
      PROVE  receipt.cpu \in Nat
  <2>1. GivenUp(row, c, s, s1, bill_to, bill, exc, o)
    BY <1>6, <1>8, GivesUp
  <2>2. o.receipts = <<>> \/ o.receipts = <<Receipt(row.trx_id, "hard_fail", bill)>>
    BY <2>1, Receipts DEF GivenUp
  <2> QED
    BY <1>7, <2>2, OneOrNone
<1>9. o.receipts # <<>>
  BY OneOrNone
<1>10. \/ o.receipts = <<Receipt(row.trx_id, "expired", c.billed)>>
       \/ o.receipts = <<Receipt(row.trx_id, "executed", r.billed)>>
       \/ o = GiveUp(row, c, s, s1, r.bill_to, HardFailCpu(c, s1, r.billed), r.exc)
       \/ row.sender # None /\ o.receipts = <<Receipt(row.trx_id, "soft_fail", p.billed)>>
       \/ row.sender # None /\ o = GiveUp(row, c, s, s1, r.bill_to, HardFailCpu(c, s1, p.billed), p.exc)
  BY <1>4, <1>9, Receipts DEF RowEnds
<1> QED
  BY <1>5, <1>6, <1>7, <1>8, <1>10

LEMMA ExecutedFine ==
    ASSUME NEW s, Fine(s), NEW c, IsContext(c), c.trx \in Trx, NEW e \in Nat, NEW cut,
           NEW body, body = exec(c, s), NEW r, r = Run(c, s, body, e, cut), r.exc = None,
           ~(Taken(s.gto, c.trx) /\ Data[c.trx].replace)
    PROVE  Fine(r.s)
<1>1. UsageOK(s) /\ RamOK(s) /\ DOMAIN s = Fields
  BY DEF Fine
<1>2. Pays(c, s, body, cut, r)
  BY <1>1, RunPays, Zenon
<1>3. body.exc = None
  BY <1>2 DEF Pays
<1>4. /\ body.exc = Fails(s.gto, c.trx, c.producing)
      /\ body.exc = None => DOMAIN body.s = Fields /\ body.s.cpu = s.cpu /\ body.s.block_cpu = s.block_cpu
      /\ body.exc = None /\ RamOK(s) /\ (Taken(s.gto, c.trx) => ~Data[c.trx].replace) => RamOK(body.s)
  BY <1>1, ExecRam
<1>5. RamOK(body.s) /\ DOMAIN body.s = Fields /\ body.s.cpu = s.cpu /\ body.s.block_cpu = s.block_cpu
  BY <1>1, <1>3, <1>4
<1>6. Fine(body.s)
  BY <1>1, <1>5 DEF Fine, UsageOK
<1> QED
  BY <1>1, <1>5, <1>6, RunFine

LEMMA RowFine ==
    ASSUME NEW s, Fine(s), NEW row \in s.gto, KnownRow(row), NEW slot, NEW c, IsRowContext(c, row, slot),
           NEW e \in Nat, NEW cut, NEW h \in Nat, NEW hcut, NEW o,
           o = push_scheduled_transaction(row, c, s, e, cut, h, hcut),
           Replacing(s, row) => \A x : o.receipts # <<Receipt(row.trx_id, "executed", x)>>
    PROVE  Fine(o.s)
<1>1. PICK s1 : s1 = remove_scheduled_transaction(s, row)
  OBVIOUS
<1>2. RamOK(s1) /\ DOMAIN s1 = Fields /\ s1.gto = s.gto \ {row} /\ s1.cpu = s.cpu /\ s1.block_cpu = s.block_cpu
  BY <1>1, RemoveRam DEF Fine
<1>3. Fine(s1) /\ UsageOK(s1)
  BY <1>2 DEF Fine, UsageOK
<1>4. PICK body : body = exec(c, s1)
  OBVIOUS
<1>5. PICK r : r = Run(c, s1, body, e, cut)
  OBVIOUS
<1>6. PICK p : p = apply_onerror(row, c, s1, e, h, hcut)
  OBVIOUS
<1>7. RowEnds(row, c, s, s1, r, p, o)
  BY <1>1, <1>4, <1>5, <1>6, RowCases
<1>8. /\ IsContext(c) /\ c.explicit \in BOOLEAN /\ c.trx = row.trx /\ c.trx \in Trx
      /\ row.sender # None => IsContext(HandlerContext(row, c))
  BY RowContextNumbers DEF IsRowContext, KnownRow
<1>9. ASSUME r.exc = None, o = Outcome(None, r.s, <<Receipt(row.trx_id, "executed", r.billed)>>)
      PROVE  Fine(o.s)
  <2>1. o.s = r.s /\ o.receipts = <<Receipt(row.trx_id, "executed", r.billed)>>
    BY <1>9, Receipts
  <2>2. ~(Taken(s1.gto, c.trx) /\ Data[c.trx].replace)
    BY <1>2, <1>8, <2>1 DEF Replacing
  <2>8. Fine(r.s)
    BY <1>3, <1>4, <1>5, <1>8, <1>9, <2>2, ExecutedFine
  <2> QED
    BY <2>1, <2>8
<1>10. ASSUME row.sender # None, p.exc = None,
              o = Outcome(None, p.s, <<Receipt(row.trx_id, "soft_fail", p.billed)>>)
       PROVE  Fine(o.s)
  <2>1. PICK d : d = HandlerContext(row, c)
    OBVIOUS
  <2>2. PICK b, n : b = HandlerBody(row, c.now, s1) /\ n = e + h
    OBVIOUS
  <2>3. p = Run(d, s1, b, n, hcut) /\ n \in Nat /\ IsContext(d)
    BY <1>6, <1>8, <1>10, <2>1, <2>2, HandlerRuns
  <2>4. Pays(d, s1, b, hcut, p)
    BY <1>3, <1>10, <2>3, RunPays, Zenon
  <2>5. b.exc = None
    BY <2>4 DEF Pays
  <2>6. b.s = [s1 EXCEPT !.ran = Append(@, <<"onerror", row.trx, c.now>>)]
    BY <2>2, <2>5 DEF HandlerBody, None
  <2>7. /\ DOMAIN b.s = Fields /\ b.s.gto = s1.gto /\ b.s.ram = s1.ram /\ b.s.next = s1.next
        /\ b.s.cpu = s1.cpu /\ b.s.block_cpu = s1.block_cpu
    BY <1>2, <2>6 DEF Fields
  <2>8. RamOK(b.s)
    BY <1>2, <2>7, RamOther
  <2>9. Fine(b.s) /\ b.s.block_cpu = s1.block_cpu
    BY <1>3, <2>7, <2>8 DEF Fine, UsageOK
  <2>10. Fine(p.s)
    BY <1>3, <1>10, <2>3, <2>9, RunFine
  <2> QED
    BY <1>10, <2>10, Receipts
<1>11. ASSUME NEW bill_to, NEW bill \in Nat, NEW exc, o = GiveUp(row, c, s, s1, bill_to, bill, exc)
       PROVE  Fine(o.s)
  <2>1. GivenUp(row, c, s, s1, bill_to, bill, exc, o)
    BY <1>8, <1>11, GivesUp
  <2>2. CASE o.s = s
    BY <2>2
  <2>3. CASE UsageAllowed(s1, bill_to, bill) /\ o.s = add_transaction_usage(s1, bill_to, bill)
    <3>1. s1.block_cpu + bill <= MaxBlockCpu
      BY <2>3 DEF UsageAllowed
    <3> QED
      BY <1>3, <2>3, <3>1, AddUsage
  <2> QED
    BY <2>1, <2>2, <2>3, Receipts DEF GivenUp
<1>12. /\ \A b \in Nat : HardFailCpu(c, s1, b) \in Nat
       /\ r.billed \in Nat /\ (row.sender # None => p.billed \in Nat)
  BY <1>3, <1>5, <1>6, RowNumbers
<1>15. CASE o = Outcome("not_ready", s, <<>>)
  BY <1>15, Receipts
<1>16. CASE o = Outcome(None, s1, <<Receipt(row.trx_id, "expired", c.billed)>>)
  BY <1>3, <1>16, Receipts
<1>17. CASE o = GiveUp(row, c, s, s1, r.bill_to, HardFailCpu(c, s1, r.billed), r.exc)
  BY <1>11, <1>12, <1>17
<1>18. CASE row.sender # None /\ o = GiveUp(row, c, s, s1, r.bill_to, HardFailCpu(c, s1, p.billed), p.exc)
  BY <1>11, <1>12, <1>18
<1> QED
  BY <1>7, <1>9, <1>10, <1>15, <1>16, <1>17, <1>18, Zenon DEF RowEnds

\* A node that produces has not replaced a row.
LEMMA RowKeeps ==
    ASSUME NEW s, Fine(s), NEW row \in s.gto, KnownRow(row), NEW slot, NEW c, IsRowContext(c, row, slot),
           c.producing, NEW e \in Nat, NEW cut, NEW h, NEW hcut, NEW o,
           o = push_scheduled_transaction(row, c, s, e, cut, h, hcut),
           NEW x, o.receipts = <<Receipt(row.trx_id, "executed", x)>>
    PROVE  ~Replacing(s, row)
<1>1. PICK s1 : s1 = remove_scheduled_transaction(s, row)
  OBVIOUS
<1>2. RamOK(s1) /\ DOMAIN s1 = Fields /\ s1.gto = s.gto \ {row} /\ s1.cpu = s.cpu /\ s1.block_cpu = s.block_cpu
  BY <1>1, RemoveRam DEF Fine
<1>3. UsageOK(s1)
  BY <1>2 DEF Fine, UsageOK
<1>4. PICK body : body = exec(c, s1)
  OBVIOUS
<1>5. PICK r : r = Run(c, s1, body, e, cut)
  OBVIOUS
<1>6. PICK p : p = apply_onerror(row, c, s1, e, h, hcut)
  OBVIOUS
<1>7. RowEnds(row, c, s, s1, r, p, o)
  BY <1>1, <1>4, <1>5, <1>6, RowCases
<1>8. IsContext(c) /\ c.explicit \in BOOLEAN /\ c.trx = row.trx /\ c.trx \in Trx
  BY RowContextNumbers DEF IsRowContext, KnownRow
<1>9. r.exc = None
  BY <1>7, <1>8, OnlyRan
<1>10. Pays(c, s1, body, cut, r)
  BY <1>3, <1>5, <1>8, <1>9, RunPays, Zenon
<1>11. body.exc = None
  BY <1>10 DEF Pays
<1>12. body.exc = Fails(s1.gto, c.trx, c.producing)
  BY <1>2, <1>4, <1>8, ExecRam
<1> QED
  BY <1>2, <1>8, <1>11, <1>12 DEF Fails, Replacing, None

-----------------------------------------------------------------------------
(***************************************************************************)
(* Blocks.                                                                 *)
(***************************************************************************)
LEMMA GenesisFine == Fine(GenesisState)
<1>1. PICK s : s = GenesisState
  OBVIOUS
<1>2. /\ DOMAIN s = Fields /\ s.gto = {} /\ s.ram = [a \in Account |-> 0] /\ s.cpu = [a \in Account |-> 0]
      /\ s.block_cpu = 0 /\ s.next = 0
  BY <1>1 DEF GenesisState, Fields
<1>3. IsFiniteSet({}) /\ Cardinality({}) = 0
  BY FS_EmptySet
<1>4. \A a : Paid({}, a) = {}
  BY DEF Paid
<1>5. s.ram = [a \in Account |-> Cardinality(Paid(s.gto, a))]
  BY <1>2, <1>3, <1>4
<1>6. RamOK(s)
  BY <1>2, <1>3, <1>5 DEF RamOK
<1>7. UsageOK(s)
  BY <1>2, Numbers DEF UsageOK
<1> QED
  BY <1>1, <1>2, <1>6, <1>7 DEF Fine

LEMMA StartFine ==
    ASSUME NEW s, Fine(s), NEW now
    PROVE  Fine(start_block(s, now)) /\ start_block(s, now).gto = s.gto
<1>1. PICK u : u = start_block(s, now)
  OBVIOUS
<1>2. /\ DOMAIN u = Fields /\ u.gto = s.gto /\ u.ram = s.ram /\ u.next = s.next /\ u.cpu = s.cpu
      /\ u.block_cpu = s.block_cpu
  BY <1>1 DEF start_block, clear_expired_input_transactions, Fine, Fields
<1>3. RamOK(u)
  BY <1>2, RamOther DEF Fine
<1>4. Fine(u)
  BY <1>2, <1>3 DEF Fine, UsageOK
<1> QED
  BY <1>1, <1>2, <1>4

LEMMA FinalizeFine ==
    ASSUME NEW s, Fine(s)
    PROVE  Fine(finalize_block(s))
<1>1. PICK u : u = finalize_block(s)
  OBVIOUS
<1>2. /\ DOMAIN u = Fields /\ u.gto = s.gto /\ u.ram = s.ram /\ u.next = s.next /\ u.cpu = s.cpu
      /\ u.block_cpu = 0
  BY <1>1 DEF finalize_block, Fine, Fields
<1>3. RamOK(u)
  BY <1>2, RamOther DEF Fine
<1>4. Fine(u)
  BY <1>2, <1>3, Numbers DEF Fine, UsageOK
<1> QED
  BY <1>1, <1>4

LEMMA Known ==
    ASSUME NEW done, NEW s, NEW slot, Good(done, s, slot), Fine(s), NEW row \in s.gto
    PROVE  KnownRow(row)
BY DEF Good, Ok, RowsOK, RowOK, Fine, RamOK, KnownRow

\* apply_block goes through one receipt or none.
LEMMA FewApplied ==
    ASSUME NEW s, NEW slot, NEW receipts, receipts = <<>> \/ \E r : receipts = <<r>>,
           NEW acc, acc = ApplyReceipts(s, receipts, slot)
    PROVE  acc.trxs \subseteq Input
<1>1. CASE receipts = <<>>
  <2>1. acc = Begun(s, slot)
    BY <1>1, ApplyNone
  <2> QED
    BY <2>1 DEF Begun
<1>2. ASSUME NEW r, receipts = <<r>> PROVE acc.trxs \subseteq Input
  <2>1. PICK o : o = OutcomeOf(start_block(s, slot), r, slot)
    OBVIOUS
  <2>2. acc = CheckReceipt(Begun(s, slot), r, o)
    BY <1>2, <2>1, ApplyOne DEF ApplyReceipt, Begun
  <2>3. CheckReceipt(Begun(s, slot), r, o).trxs \subseteq Input
    BY DEF CheckReceipt, Begun
  <2> QED
    BY <2>2, <2>3
<1> QED
  BY <1>1, <1>2

\* An input of a peer, which has not replaced a row.
LEMMA PeerInputFine ==
    ASSUME NEW done, NEW s, NEW base \in Nat, NEW slot \in Nat, Good(done, s, base), Fine(s), base < slot,
           NEW t \in Input, ~Replaces(s, t), NEW cpu \in Nat, NEW o,
           o = push_transaction(InputContext(t, slot, TRUE, cpu), start_block(s, slot), 0, None), o.exc = None
    PROVE  Fine(o.s)
<1>1. PICK u : u = start_block(s, slot)
  OBVIOUS
<1>2. Fine(u) /\ u.gto = s.gto /\ u.dedup = {x \in s.dedup : Data[x].expiration >= slot}
  BY <1>1, StartFine DEF Fine, Fields, start_block, clear_expired_input_transactions
<1>3. PICK c : c = InputContext(t, slot, TRUE, cpu)
  OBVIOUS
<1>4. /\ c.trx = t /\ c.payer = Data[t].payer /\ c.max_cpu = Data[t].max_cpu /\ c.billed = cpu
      /\ c.leeway = Leeway /\ c.explicit = TRUE /\ c.producing = FALSE
      /\ c.pre = validate_expiration(t, slot)
  BY <1>3 DEF InputContext, Context
<1>5. IsContext(c) /\ UsageOK(u) /\ DOMAIN u = Fields
  BY <1>2, <1>4, DataAssumption DEF IsContext, Fine
<1>6. PICK body : body = exec_input(c, u)
  OBVIOUS
<1>7. PICK r : r = Run(c, u, body, 0, None)
  OBVIOUS
<1>8. o.exc = r.exc /\ r.exc = None
  BY <1>1, <1>3, <1>4, <1>6, <1>7 DEF push_transaction, InputOutcome, Outcome
<1>9. c.pre = None /\ body.exc = None
  <2>1. Pays(c, u, body, None, r)
    BY <1>5, <1>7, <1>8, RunPays
  <2> QED
    BY <2>1 DEF Pays
<1>10. body.exc = IF c.trx \in u.dedup THEN "tx_duplicate"
                  ELSE IF Data[c.trx].delay = 0 THEN Fails(u.gto, c.trx, c.producing) ELSE None
  BY <1>4, <1>5, <1>6, ExecInputRam
<1>11. t \notin s.dedup
  <2>1. t \notin u.dedup
    BY <1>4, <1>9, <1>10 DEF None
  <2>2. ~(Data[t].expiration < slot) /\ Data[t].expiration \in Nat
    <3>1. Data[t].expiration \in Nat
      BY DataAssumption
    <3> QED
      BY <1>4, <1>9, <3>1 DEF validate_expiration, None
  <2> QED
    BY <1>2, <2>1, <2>2
<1>12. ~(Data[t].delay = 0 /\ Taken(u.gto, t) /\ Data[t].replace)
  <2> SUFFICES ASSUME Data[t].delay = 0, Taken(u.gto, t), Data[t].replace PROVE FALSE
    OBVIOUS
  <2>1. ~Data[t].asserts
    BY <1>4, <1>9, <1>10 DEF Fails, None
  <2>2. PICK d : d = InputContext(t, 0, FALSE, 0)
    OBVIOUS
  <2>3. d.trx = t /\ d.producing
    BY <2>2 DEF InputContext, Context
  <2>4. PICK b : b = exec_input(d, s)
    OBVIOUS
  <2>5. b.exc = IF d.trx \in s.dedup THEN "tx_duplicate"
                ELSE IF Data[d.trx].delay = 0 THEN Fails(s.gto, d.trx, d.producing) ELSE None
    BY <2>3, <2>4, ExecInputRam DEF Fine
  <2>6. b.exc # "subjective"
    BY <2>2, <2>4 DEF Replaces
  <2> QED
    BY <1>2, <1>11, <2>1, <2>3, <2>5, <2>6 DEF Fails
<1> QED
  BY <1>1, <1>2, <1>12, PushFine

LEMMA PeerFine ==
    ASSUME NEW done, NEW s, NEW base \in Nat, NEW slot \in Nat, Good(done, s, base), Fine(s), base < slot,
           NEW receipts \in PeerReceipts(s, slot), NEW acc, acc = ApplyReceipts(s, receipts, slot), acc.ok
    PROVE  Fine(acc.s)
<1>1. PICK u : u = start_block(s, slot)
  OBVIOUS
<1>2. Good(done, u, slot) /\ Fine(u) /\ u.gto = s.gto
  BY <1>1, StartGood, StartFine
<1>3. \/ receipts = <<>>
      \/ \E t \in Input, cpu \in PeerCpu :
            ~Replaces(s, t) /\ receipts = <<Receipt(Packed(t), InputStatus(t), cpu)>>
      \/ \E row \in s.gto, cpu \in PeerCpu : receipts = RowReceipts(u, row, slot, cpu)
  BY <1>1 DEF PeerReceipts
<1>4. CASE receipts = <<>>
  <2>1. acc = Begun(s, slot)
    BY <1>4, ApplyNone
  <2> QED
    BY <1>1, <1>2, <2>1 DEF Begun
<1>5. ASSUME NEW r, receipts = <<r>>, NEW o, o = OutcomeOf(u, r, slot)
      PROVE  acc.s = o.s /\ o.receipts = <<r>>
  <2>1. acc = CheckReceipt(Begun(s, slot), r, o)
    BY <1>1, <1>5, ApplyOne DEF ApplyReceipt, Begun
  <2>2. CheckReceipt(Begun(s, slot), r, o).ok => o.receipts = <<r>>
    BY DEF CheckReceipt
  <2>3. CheckReceipt(Begun(s, slot), r, o).s = o.s
    BY DEF CheckReceipt
  <2>4. acc.ok
    OBVIOUS
  <2>5. o.receipts = <<r>>
    BY <2>1, <2>2, <2>4, Zenon
  <2> QED
    BY <2>1, <2>3, <2>5
<1>6. ASSUME NEW t \in Input, NEW cpu \in PeerCpu, ~Replaces(s, t),
             receipts = <<Receipt(Packed(t), InputStatus(t), cpu)>>
      PROVE  Fine(acc.s)
  <2>1. PICK r : r = Receipt(Packed(t), InputStatus(t), cpu)
    OBVIOUS
  <2>2. r.id[1] = "packed" /\ r.id[2] = t /\ r.cpu = cpu /\ cpu \in Nat
    BY <2>1, Numbers DEF Receipt, Packed
  <2>3. PICK o : o = OutcomeOf(u, r, slot)
    OBVIOUS
  <2>4. acc.s = o.s /\ o.receipts = <<r>>
    BY <1>5, <1>6, <2>1, <2>3
  <2>5. o = push_transaction(InputContext(t, slot, TRUE, cpu), u, 0, None)
    BY <2>2, <2>3 DEF OutcomeOf
  <2>6. o.exc = None
    <3>1. InputResult(done, t, slot, push_transaction(InputContext(t, slot, TRUE, cpu), u, 0, None))
      BY <1>2, PushGood, Zenon
    <3>2. o.exc # None => o.receipts = <<>>
      BY <2>5, <3>1 DEF InputResult
    <3> QED
      BY <2>4, <3>2, OneOrNone
  <2>7. Fine(o.s)
    BY <1>1, <1>6, <2>2, <2>5, <2>6, PeerInputFine
  <2> QED
    BY <2>4, <2>7
<1>7. ASSUME NEW row \in s.gto, NEW cpu \in PeerCpu, receipts = RowReceipts(u, row, slot, cpu), receipts # <<>>
      PROVE  Fine(acc.s)
  <2>1. PICK c : c = PeerContext(row, slot, cpu)
    OBVIOUS
  <2>2. cpu \in Nat /\ IsRowContext(c, row, slot) /\ c.producing
    <3>1. cpu \in Nat
      BY Numbers
    <3> QED
      BY <2>1, <3>1, RowContexts
  <2>3. PICK p : p = push_scheduled_transaction(row, c, u, 0, None, 0, None)
    OBVIOUS
  <2>4. receipts = p.receipts
    BY <1>7, <2>1, <2>3 DEF RowReceipts
  <2>5. row \in u.gto /\ KnownRow(row) /\ row.published < slot
    <3>1. row.published \in Nat /\ row.published <= base
      BY DEF Good, Ok, RowsOK, RowOK
    <3> QED
      BY <1>2, <3>1, Known
  <2>6. PICK r : receipts = <<r>> /\ r.id = row.trx_id
    <3>1. c.trx = row.trx /\ c.now = slot
      BY <2>2 DEF IsRowContext
    <3>2. RowResult(done, u, row, slot, push_scheduled_transaction(row, c, u, 0, None, 0, None))
      BY <1>2, <2>5, <3>1, ScheduledGood, Zenon
    <3> QED
      BY <1>7, <2>3, <2>4, <3>2 DEF RowResult
  <2>7. PICK o : o = OutcomeOf(u, r, slot)
    OBVIOUS
  <2>8. acc.s = o.s /\ o.receipts = <<r>>
    BY <1>5, <2>6, <2>7
  <2>9. r.id[1] # "packed" /\ Rows(u, r.id) = {row}
    <3>1. PICK n \in Nat : row.trx_id = <<row.trx, n>> /\ row.trx \in Trx
      BY DEF Good, Ok, RowsOK, RowOK
    <3>2. r.id[1] # "packed"
      BY <2>6, <3>1, DataAssumption
    <3>3. \A q \in u.gto : q.trx_id = row.trx_id => q = row
      BY <1>2, <2>5 DEF Good, Ok, RowsOK
    <3> QED
      BY <2>5, <2>6, <3>2, <3>3 DEF Rows
  <2>10. (CHOOSE q \in Rows(u, r.id) : TRUE) = row
    BY <2>9
  <2>11. ASSUME NEW x, o.receipts = <<Receipt(row.trx_id, "executed", x)>> PROVE ~Replacing(u, row)
    <3>1. p.receipts = <<Receipt(row.trx_id, "executed", x)>>
      BY <2>4, <2>6, <2>8, <2>11
    <3> QED
      BY <1>2, <2>2, <2>3, <2>5, <3>1, RowKeeps
  <2>12. PICK v : v = RowContext(row, slot, TRUE, r.cpu)
    OBVIOUS
  <2>13. o = push_scheduled_transaction(row, v, u, 0, None, 0, None)
    BY <2>7, <2>9, <2>10, <2>12 DEF OutcomeOf
  <2>14. CASE r.cpu \in Nat
    <3>1. IsRowContext(v, row, slot)
      BY <2>12, <2>14, RowContexts
    <3>2. Fine(o.s)
      BY <1>2, <2>5, <2>11, <2>13, <3>1, RowFine
    <3> QED
      BY <2>8, <3>2
  <2>15. r.cpu \in Nat
    BY <1>2, <2>2, <2>3, <2>4, <2>5, <2>6, RowBills
  <2> QED
    BY <2>14, <2>15
<1> QED
  BY <1>3, <1>4, <1>6, <1>7

-----------------------------------------------------------------------------
(***************************************************************************)
(* What the node keeps is what it should be, and usage and RAM are right   *)
(* after every block and in the pending one.                               *)
(***************************************************************************)
Typed(b) == b.slot \in 0 .. MaxSlot /\ b.trxs \subseteq Input /\ Fine(b.db)

StateOK ==
    /\ \A i \in 1 .. Len(blocks) : Typed(blocks[i])
    /\ Typed(pending) /\ pending.todo \subseteq Input
    /\ pending.mode \in {None, "producing", "speculating"}
    /\ pending.mode = None => pending.db = GenesisState
    /\ unapplied \subseteq Input /\ owed \subseteq Input
    /\ \A b \in blacklist : b.id[1] \in Trx

LEMMA NoneTyped ==
    /\ Typed(NoPending) /\ NoPending.todo = {} /\ NoPending.mode = None /\ NoPending.db = GenesisState
    /\ NoPending.trxs = {}
<1>1. PICK p : p = NoPending
  OBVIOUS
<1>2. p.slot = 0 /\ p.trxs = {} /\ p.db = GenesisState /\ p.todo = {} /\ p.mode = None
  BY <1>1 DEF NoPending
<1> QED
  BY <1>1, <1>2, GenesisFine, Numbers DEF Typed

\* A block behind the head.
LEMMA TypedMore ==
    ASSUME NEW bs, Sequence(bs), \A i \in 1 .. Len(bs) : Typed(bs[i]), NEW b, Typed(b)
    PROVE  \A i \in 1 .. Len(Append(bs, b)) : Typed(Append(bs, b)[i])
<1>1. PICK cs : cs = Append(bs, b)
  OBVIOUS
<1>2. Len(bs) \in Nat
  BY SequenceLen
<1>3. Len(cs) = Len(bs) + 1 /\ cs[Len(bs) + 1] = b /\ \A i \in 1 .. Len(bs) : cs[i] = bs[i]
  BY <1>1, SequenceAppend
<1>4. \A i \in 1 .. Len(cs) : i \in 1 .. Len(bs) \/ i = Len(bs) + 1
  BY <1>2, <1>3
<1>5. \A i \in 1 .. Len(cs) : Typed(cs[i])
  BY <1>3, <1>4
<1> QED
  BY <1>1, <1>5

\* A block of a peer that is accepted behind bs.
LEMMA PeerTyped ==
    ASSUME NEW bs, Chain(bs), Fine(bs[Len(bs)].db), NEW slot \in 1 .. MaxSlot, slot > bs[Len(bs)].slot,
           NEW receipts \in PeerReceipts(bs[Len(bs)].db, slot), NEW acc,
           acc = ApplyReceipts(bs[Len(bs)].db, receipts, slot)
    PROVE  /\ acc.trxs \subseteq Input
           /\ acc.ok => Typed(Block(slot, acc, receipts))
<1>1. PICK done, s, base : done = DoneIn(bs, Len(bs)) /\ s = bs[Len(bs)].db /\ base = bs[Len(bs)].slot
  OBVIOUS
<1>2. base \in Nat /\ Good(done, s, base) /\ base < slot /\ slot \in Nat /\ Fine(s)
  BY <1>1, HeadGood, Numbers
<1>3. receipts \in PeerReceipts(s, slot) /\ acc = ApplyReceipts(s, receipts, slot)
  BY <1>1
<1>4. receipts = <<>> \/ \E r : receipts = <<r>>
  BY <1>2, <1>3, PeerBlock
<1>5. acc.trxs \subseteq Input
  BY <1>3, <1>4, FewApplied
<1>6. ASSUME acc.ok PROVE Typed(Block(slot, acc, receipts))
  <2>1. Fine(acc.s)
    BY <1>2, <1>3, <1>6, PeerFine
  <2>2. Fine(finalize_block(acc.s))
    BY <2>1, FinalizeFine
  <2>3. PICK b : b = Block(slot, acc, receipts)
    OBVIOUS
  <2>4. b.slot = slot /\ b.db = finalize_block(acc.s) /\ b.trxs = {}
    BY <2>3 DEF Block
  <2> QED
    BY <1>5, <2>2, <2>3, <2>4, Numbers DEF Typed
<1> QED
  BY <1>5, <1>6

LEMMA HeadTyped ==
    ASSUME NEW bs, Chain(bs), \A i \in 1 .. Len(bs) : Typed(bs[i])
    PROVE  Typed(bs[Len(bs)]) /\ Fine(bs[Len(bs)].db)
<1>1. Len(bs) \in 1 .. Len(bs)
  BY HeadGood
<1> QED
  BY <1>1 DEF Typed

\* The times a run may take are numbers.
LEMMA CostNumbers ==
    ASSUME NEW t \in Trx
    PROVE  Data[t].cost \subseteq Nat /\ Data[t].handler_cost \subseteq Nat
BY DataAssumption

LEMMA StateTook ==
    ASSUME BlocksOK, StateOK, pending.mode # None, NEW t \in Input, NEW e \in Nat, NEW cut, NEW o,
           o = push_transaction(InputContext(t, pending.slot, FALSE, 0), pending.db, e, cut),
           o.exc = None, Took(t, o)
    PROVE  StateOK'
<1>1. DOMAIN pending = DOMAIN NoPending
  BY DEF BlocksOK, PendingOK
<1>2. /\ pending'.mode = pending.mode /\ pending'.slot = pending.slot /\ pending'.db = o.s
      /\ pending'.trxs = pending.trxs \cup {t} /\ pending'.todo = pending.todo \ {t}
      /\ unapplied' = unapplied \ {t} /\ owed' = owed \cup {t} /\ blocks' = blocks /\ blacklist' = blacklist
  BY <1>1 DEF Took, NoPending
<1>3. pending.slot \in Nat /\ Fine(pending.db)
  BY Numbers DEF StateOK, Typed
<1>4. Fine(o.s)
  BY <1>3, PushFine
<1>5. Typed(pending')
  BY <1>2, <1>4 DEF StateOK, Typed
<1> QED
  BY <1>2, <1>5 DEF StateOK

\* A row that was tried.
LEMMA StateScheduled ==
    ASSUME BlocksOK, StateOK, RunScheduled
    PROVE  StateOK'
<1>1. PICK row \in Due : \E e \in Data[row.trx].cost, h \in Data[row.trx].handler_cost : \E cut, hcut :
        Tried(row, push_scheduled_transaction(row, RowContext(row, pending.slot, FALSE, 0), pending.db,
                                              e, cut, h, hcut))
  BY Zenon DEF RunScheduled
<1>2. PICK e \in Data[row.trx].cost, h \in Data[row.trx].handler_cost : \E cut, hcut :
        Tried(row, push_scheduled_transaction(row, RowContext(row, pending.slot, FALSE, 0), pending.db,
                                              e, cut, h, hcut))
  BY <1>1, Zenon
<1>3. PICK cut, hcut :
        Tried(row, push_scheduled_transaction(row, RowContext(row, pending.slot, FALSE, 0), pending.db,
                                              e, cut, h, hcut))
  BY <1>2, Zenon
<1>4. PICK s, slot, c : s = pending.db /\ slot = pending.slot /\ c = RowContext(row, slot, FALSE, 0)
  OBVIOUS
<1>5. PICK o : o = push_scheduled_transaction(row, c, s, e, cut, h, hcut)
  OBVIOUS
<1>6. Tried(row, o)
  BY <1>3, <1>4, <1>5
<1>7. pending.mode # None /\ DOMAIN pending = DOMAIN NoPending
  BY DEF RunScheduled, Preparing, BlocksOK, PendingOK
<1>8. row \in s.gto /\ Fine(s) /\ \E done : Good(done, s, slot)
  BY <1>1, <1>4, <1>7 DEF Due, BlocksOK, PendingOK, Fits, StateOK, Typed
<1>9. KnownRow(row) /\ row.trx_id[1] \in Trx
  <2>1. PICK done : Good(done, s, slot)
    BY <1>8
  <2>2. KnownRow(row)
    BY <1>8, <2>1, Known
  <2> QED
    BY <1>8, <2>1, <2>2 DEF Good, Ok, RowsOK, RowOK
<1>10. e \in Nat /\ h \in Nat
  BY <1>2, <1>9, CostNumbers DEF KnownRow
<1>11. IsRowContext(c, row, slot) /\ c.producing
  BY <1>4, RowContexts
<1>12. ASSUME NEW x, o.receipts = <<Receipt(row.trx_id, "executed", x)>> PROVE ~Replacing(s, row)
  BY <1>5, <1>8, <1>9, <1>10, <1>11, <1>12, RowKeeps
<1>13. Fine(o.s)
  BY <1>5, <1>8, <1>9, <1>10, <1>11, <1>12, RowFine
<1>14. /\ pending'.mode = pending.mode /\ pending'.slot = pending.slot /\ pending'.db = o.s
       /\ pending'.trxs = pending.trxs /\ pending'.todo = pending.todo
       /\ unapplied' = unapplied /\ owed' = owed /\ blocks' = blocks
  BY <1>6, <1>7 DEF Tried, NoPending
<1>15. Typed(pending')
  BY <1>13, <1>14 DEF StateOK, Typed
<1>16. \A b \in blacklist' : b \in blacklist \/ b.id = row.trx_id
  BY <1>6 DEF Tried
<1>17. \A b \in blacklist' : b.id[1] \in Trx
  BY <1>9, <1>16 DEF StateOK
<1> QED
  BY <1>7, <1>14, <1>15, <1>17 DEF StateOK

LEMMA StateQuiet ==
    ASSUME BlocksOK, StateOK, blocks' = blocks, pending.mode # None,
           \/ \E t : pending' = [pending EXCEPT !.todo = @ \ {t}]
           \/ pending' = [pending EXCEPT !.open = TRUE],
           unapplied' \subseteq unapplied, owed' \subseteq owed, blacklist' = blacklist
    PROVE  StateOK'
<1>1. DOMAIN pending = DOMAIN NoPending
  BY DEF BlocksOK, PendingOK
<1>2. /\ pending'.mode = pending.mode /\ pending'.slot = pending.slot /\ pending'.db = pending.db
      /\ pending'.trxs = pending.trxs /\ pending'.todo \subseteq pending.todo
  BY <1>1 DEF NoPending
<1> QED
  BY <1>2 DEF StateOK, Typed

LEMMA StateStart ==
    ASSUME BlocksOK, StateOK, NEW mode \in {"producing", "speculating"}, NEW slot \in 1 .. MaxSlot,
           Start(mode, slot)
    PROVE  StateOK'
<1>1. PendingTrxs \subseteq Input
  BY DEF PendingTrxs, StateOK, Typed
<1>2. Fine(head.db)
  BY HeadTyped DEF BlocksOK, StateOK, head, Last
<1>3. Fine(start_block(head.db, slot))
  BY <1>2, StartFine
<1>4. /\ blocks' = blocks /\ owed' = owed /\ unapplied' = unapplied \cup PendingTrxs
      /\ blacklist' \subseteq blacklist
  BY DEF Start
<1>5. /\ pending'.mode = mode /\ mode # None /\ pending'.slot = slot /\ pending'.db = start_block(head.db, slot)
      /\ pending'.trxs = {} /\ pending'.todo = unapplied'
  BY DEF Start, None
<1>6. Typed(pending')
  BY <1>3, <1>5, Numbers DEF Typed
<1>7. unapplied' \subseteq Input
  BY <1>1, <1>4 DEF StateOK
<1> QED
  BY <1>4, <1>5, <1>6, <1>7 DEF StateOK

LEMMA StateProduce ==
    ASSUME BlocksOK, StateOK, produce_block
    PROVE  StateOK'
<1>1. PICK b : b = [slot |-> pending.slot, db |-> finalize_block(pending.db),
                    trxs |-> pending.trxs, inputs |-> pending.trxs, receipts |-> pending.receipts]
  OBVIOUS
<1>2. blocks' = Append(blocks, b) /\ pending' = NoPending /\ UNCHANGED <<unapplied, blacklist, owed>>
  BY <1>1 DEF produce_block
<1>3. b.slot = pending.slot /\ b.db = finalize_block(pending.db) /\ b.trxs = pending.trxs
  BY <1>1
<1>4. Fine(finalize_block(pending.db))
  BY FinalizeFine DEF StateOK, Typed
<1>5. Typed(b)
  BY <1>3, <1>4 DEF StateOK, Typed
<1>6. Sequence(blocks)
  BY DEF BlocksOK, Chain
<1>7. \A i \in 1 .. Len(blocks') : Typed(blocks'[i])
  BY <1>2, <1>5, <1>6, TypedMore DEF StateOK
<1> QED
  BY <1>2, <1>7, NoneTyped DEF StateOK

LEMMA StateIncoming ==
    ASSUME BlocksOK, StateOK, NEW slot \in 1 .. MaxSlot, on_incoming_block(slot)
    PROVE  StateOK'
<1>1. Chain(blocks) /\ slot > blocks[Len(blocks)].slot
  BY DEF BlocksOK, on_incoming_block, head, Last
<1>2. PICK receipts \in PeerReceipts(blocks[Len(blocks)].db, slot) :
        apply_block(slot, receipts, ApplyReceipts(blocks[Len(blocks)].db, receipts, slot))
  BY DEF on_incoming_block, head, Last
<1>3. PICK acc : acc = ApplyReceipts(blocks[Len(blocks)].db, receipts, slot)
  OBVIOUS
<1>4. /\ blocks' = IF acc.ok THEN Append(blocks, Block(slot, acc, receipts)) ELSE blocks
      /\ unapplied' \subseteq unapplied \cup PendingTrxs \cup acc.trxs
      /\ owed' \subseteq owed \cup acc.trxs
      /\ pending' = NoPending /\ blacklist' = blacklist
  BY <1>2, <1>3 DEF apply_block
<1>5. Fine(blocks[Len(blocks)].db)
  BY <1>1, HeadTyped DEF StateOK
<1>6. acc.trxs \subseteq Input /\ (acc.ok => Typed(Block(slot, acc, receipts)))
  BY <1>1, <1>2, <1>3, <1>5, PeerTyped
<1>7. PendingTrxs \subseteq Input
  BY DEF PendingTrxs, StateOK, Typed
<1>8. unapplied' \subseteq Input /\ owed' \subseteq Input
  BY <1>4, <1>6, <1>7 DEF StateOK
<1>9. \A i \in 1 .. Len(blocks') : Typed(blocks'[i])
  <2>1. CASE acc.ok
    <3>1. blocks' = Append(blocks, Block(slot, acc, receipts)) /\ Typed(Block(slot, acc, receipts))
      BY <1>4, <1>6, <2>1
    <3> QED
      BY <1>1, <3>1, TypedMore DEF Chain, StateOK
  <2>2. CASE ~acc.ok
    BY <1>4, <2>2 DEF StateOK
  <2> QED
    BY <2>1, <2>2
<1> QED
  BY <1>4, <1>8, <1>9, NoneTyped DEF StateOK

LEMMA StateSwitch ==
    ASSUME BlocksOK, StateOK, NEW slot \in 1 .. MaxSlot - 1, switch_forks(slot)
    PROVE  StateOK'
<1>1. Chain(blocks) /\ slot \in 1 .. MaxSlot /\ slot + 1 \in 1 .. MaxSlot /\ Len(blocks) > 1
  BY Numbers DEF BlocksOK, switch_forks
<1>2. PICK bs : bs = Front(blocks)
  OBVIOUS
<1>3. Chain(bs) /\ Sequence(blocks) /\ Sequence(bs)
  BY <1>1, <1>2, ShortenChain DEF Chain
<1>4. /\ Len(blocks) \in Nat /\ Len(bs) = Len(blocks) - 1 /\ bs[Len(bs)] = blocks[Len(blocks) - 1]
      /\ \A i \in 1 .. Len(bs) : bs[i] = blocks[i]
  <2>1. Len(blocks) \in Nat
    BY <1>3, SequenceLen
  <2>2. Len(bs) = Len(blocks) - 1 /\ \A i \in 1 .. Len(blocks) - 1 : bs[i] = blocks[i]
    BY <1>1, <1>2, <1>3, <2>1, SequenceFront
  <2> QED
    BY <1>1, <2>1, <2>2
<1>5. slot > bs[Len(bs)].slot
  BY <1>4 DEF switch_forks
<1>6. PICK receipts \in PeerReceipts(bs[Len(bs)].db, slot) :
        apply_branch(slot, receipts, ApplyReceipts(bs[Len(bs)].db, receipts, slot))
  BY <1>4 DEF switch_forks
<1>7. PICK acc : acc = ApplyReceipts(bs[Len(bs)].db, receipts, slot)
  OBVIOUS
<1>8. PICK first, second : first = Block(slot, acc, receipts) /\ second = EmptyAfter(first)
  OBVIOUS
<1>9. /\ acc.ok /\ blocks' = bs \o <<first, second>> /\ pending' = NoPending /\ blacklist' = blacklist
      /\ unapplied' \subseteq unapplied \cup PendingTrxs \cup blocks[Len(blocks)].trxs
      /\ owed' \subseteq owed \cup acc.trxs
  BY <1>2, <1>6, <1>7, <1>8 DEF apply_branch, pop_block, head, Last
<1>10. \A i \in 1 .. Len(bs) : Typed(bs[i])
  BY <1>4 DEF StateOK
<1>11. Fine(bs[Len(bs)].db)
  BY <1>3, <1>10, HeadTyped
<1>12. acc.trxs \subseteq Input /\ Typed(first)
  BY <1>1, <1>3, <1>5, <1>6, <1>7, <1>8, <1>9, <1>11, PeerTyped
<1>13. Typed(second)
  <2>1. first.slot = slot
    BY <1>8 DEF Block
  <2>2. PICK u : u = start_block(first.db, slot + 1)
    OBVIOUS
  <2>3. Fine(u)
    BY <1>12, <2>2, StartFine DEF Typed
  <2>4. Fine(finalize_block(u))
    BY <2>3, FinalizeFine
  <2>5. second.slot = slot + 1 /\ second.db = finalize_block(u) /\ second.trxs = {}
    BY <1>8, <2>1, <2>2 DEF EmptyAfter, Block
  <2> QED
    BY <1>1, <2>4, <2>5, Numbers DEF Typed
<1>14. PICK cs : cs = Append(bs, first)
  OBVIOUS
<1>15. Sequence(cs) /\ \A i \in 1 .. Len(cs) : Typed(cs[i])
  BY <1>3, <1>10, <1>12, <1>14, SequenceAppend, TypedMore
<1>16. blocks' = Append(cs, second)
  BY <1>3, <1>9, <1>14, TwoBlocks
<1>17. \A i \in 1 .. Len(blocks') : Typed(blocks'[i])
  BY <1>13, <1>15, <1>16, TypedMore
<1>18. PendingTrxs \subseteq Input /\ blocks[Len(blocks)].trxs \subseteq Input
  <2>1. Typed(blocks[Len(blocks)])
    BY <1>1, HeadTyped DEF StateOK
  <2> QED
    BY <2>1 DEF PendingTrxs, StateOK, Typed
<1>19. unapplied' \subseteq Input /\ owed' \subseteq Input
  BY <1>9, <1>12, <1>18 DEF StateOK
<1> QED
  BY <1>9, <1>17, <1>19, NoneTyped DEF StateOK

LEMMA StateStep ==
    ASSUME BlocksOK, StateOK, [Next]_vars
    PROVE  StateOK'
<1>1. CASE \E mode \in {"producing", "speculating"}, slot \in 1 .. MaxSlot : Start(mode, slot)
  BY <1>1, StateStart
<1>2. ASSUME NEW t \in Input, ExpireUnapplied(t) PROVE StateOK'
  <2>1. /\ blocks' = blocks /\ pending.mode # None /\ pending' = [pending EXCEPT !.todo = @ \ {t}]
        /\ unapplied' \subseteq unapplied /\ owed' \subseteq owed /\ blacklist' = blacklist
    BY <1>2 DEF ExpireUnapplied, Drop, Preparing
  <2> QED
    BY <2>1, StateQuiet
<1>3. ASSUME NEW t \in Input, SkipUnapplied(t) PROVE StateOK'
  <2>1. /\ blocks' = blocks /\ pending.mode # None /\ pending' = [pending EXCEPT !.todo = @ \ {t}]
        /\ unapplied' \subseteq unapplied /\ owed' \subseteq owed /\ blacklist' = blacklist
    BY <1>3 DEF SkipUnapplied, Preparing
  <2> QED
    BY <2>1, StateQuiet
<1>4. ASSUME NEW t \in Input, RetryUnapplied(t) PROVE StateOK'
  <2>1. pending.mode # None /\ t \in Trx
    BY <1>4, DataAssumption DEF RetryUnapplied, Preparing
  <2>2. PICK e, cut :
          /\ e \in Data[t].cost
          /\ LET o == push_transaction(InputContext(t, pending.slot, FALSE, 0), pending.db, e, cut) IN
             \/ o.exc = None /\ Took(t, o)
             \/ o.exc # None /\ ~Exhausting(o.exc) /\ Drop(t)
             \/ /\ o.exc # None /\ Exhausting(o.exc)
                /\ pending' = [pending EXCEPT !.open = TRUE]
                /\ UNCHANGED <<blocks, unapplied, blacklist, owed>>
    BY <1>4, Zenon DEF RetryUnapplied
  <2>3. PICK o : o = push_transaction(InputContext(t, pending.slot, FALSE, 0), pending.db, e, cut)
    OBVIOUS
  <2>4. e \in Nat
    BY <2>1, <2>2, CostNumbers
  <2>5. CASE o.exc = None /\ Took(t, o)
    BY <2>1, <2>3, <2>4, <2>5, StateTook
  <2>6. CASE Drop(t)
    <3>1. /\ blocks' = blocks /\ pending' = [pending EXCEPT !.todo = @ \ {t}]
          /\ unapplied' \subseteq unapplied /\ owed' \subseteq owed /\ blacklist' = blacklist
      BY <2>6 DEF Drop
    <3> QED
      BY <2>1, <3>1, StateQuiet
  <2>7. CASE pending' = [pending EXCEPT !.open = TRUE] /\ UNCHANGED <<blocks, unapplied, blacklist, owed>>
    BY <2>1, <2>7, StateQuiet
  <2> QED
    BY <2>2, <2>3, <2>5, <2>6, <2>7
<1>5. CASE RunScheduled
  BY <1>5, StateScheduled
<1>6. CASE Open
  <2>1. /\ pending' = [pending EXCEPT !.open = TRUE] /\ UNCHANGED <<blocks, unapplied, blacklist, owed>>
        /\ pending.mode # None
    BY <1>6 DEF Open, Preparing
  <2> QED
    BY <2>1, StateQuiet
<1>7. ASSUME NEW t \in Input, on_incoming_transaction(t) PROVE StateOK'
  <2>1. pending.mode # None /\ t \in Trx
    BY <1>7, DataAssumption DEF on_incoming_transaction
  <2>2. PICK e, cut :
          /\ e \in Data[t].cost
          /\ LET o == push_transaction(InputContext(t, pending.slot, FALSE, 0), pending.db, e, cut) IN
             \/ o.exc = None /\ Took(t, o)
             \/ UNCHANGED <<unapplied, owed>> /\ UNCHANGED <<blocks, pending, blacklist>>
             \/ /\ unapplied' = unapplied \ {t} /\ owed' = owed \ {t}
                /\ UNCHANGED <<blocks, pending, blacklist>>
    BY <1>7, Zenon DEF on_incoming_transaction
  <2>3. PICK o : o = push_transaction(InputContext(t, pending.slot, FALSE, 0), pending.db, e, cut)
    OBVIOUS
  <2>4. e \in Nat
    BY <2>1, <2>2, CostNumbers
  <2>5. CASE o.exc = None /\ Took(t, o)
    BY <2>1, <2>3, <2>4, <2>5, StateTook
  <2>6. CASE /\ unapplied' \subseteq unapplied /\ owed' \subseteq owed
             /\ UNCHANGED <<blocks, pending, blacklist>>
    BY <2>6 DEF StateOK, Typed
  <2> QED
    BY <2>2, <2>3, <2>5, <2>6
<1>8. CASE produce_block
  BY <1>8, StateProduce
<1>9. CASE \E slot \in 1 .. MaxSlot : on_incoming_block(slot)
  BY <1>9, StateIncoming
<1>10. CASE \E slot \in 1 .. MaxSlot - 1 : switch_forks(slot)
  BY <1>10, StateSwitch
<1>11. CASE UNCHANGED vars
  BY <1>11 DEF vars, StateOK, Typed
<1> QED
  BY <1>1, <1>2, <1>3, <1>4, <1>5, <1>6, <1>7, <1>8, <1>9, <1>10, <1>11 DEF Next

LEMMA StateInit == Init => StateOK
<1> SUFFICES ASSUME Init PROVE StateOK
  OBVIOUS
<1>1. PICK b : b = [slot |-> 0, db |-> GenesisState, trxs |-> {}, inputs |-> {}, receipts |-> <<>>]
  OBVIOUS
<1>2. blocks = <<b>> /\ pending = NoPending /\ unapplied = {} /\ blacklist = {} /\ owed = {}
  BY <1>1 DEF Init
<1>3. b.slot = 0 /\ b.db = GenesisState /\ b.trxs = {}
  BY <1>1
<1>4. Typed(b)
  BY <1>3, GenesisFine, Numbers DEF Typed
<1>5. \A i \in 1 .. Len(blocks) : i = 1 /\ blocks[i] = b
  BY <1>2
<1>6. \A i \in 1 .. Len(blocks) : Typed(blocks[i])
  BY <1>4, <1>5
<1> QED
  BY <1>2, <1>6, NoneTyped DEF StateOK

LEMMA IsStateHolds ==
    ASSUME NEW done, NEW s, NEW slot, Good(done, s, slot), Fine(s)
    PROVE  IsState(s) /\ \A a \in Account : s.ram[a] = Cardinality({row \in s.gto : row.payer = a})
<1>1. DOMAIN s = DOMAIN GenesisState
  BY DEF Fine, Fields, GenesisState
<1>2. s.dedup \subseteq Input /\ {row.trx : row \in s.gto} \subseteq Trx
  BY DEF Good, Ok, RowsOK, RowOK
<1>3. s.cpu \in [Account -> Nat] /\ s.block_cpu \in 0 .. MaxBlockCpu /\ \A row \in s.gto : row.no < s.next
  BY DEF Fine, UsageOK, RamOK
<1>4. {id[1] : id \in s.sent} \subseteq Trx /\ s.cancelled \subseteq s.sent
  <2>1. \A id \in s.sent : \E t \in Trx, n \in Nat : id = <<t, n>>
    BY DEF Good, Ok, SentOK
  <2>2. \A id \in s.sent : id[1] \in Trx
    BY <2>1
  <2> QED
    BY <2>2 DEF Good, Ok, Accounted
<1>5. \A a \in Account : s.ram[a] = Cardinality(Paid(s.gto, a))
  BY DEF Fine, RamOK
<1>6. s.ram \in [Account -> Nat]
  <2>1. IsFiniteSet(s.gto) /\ s.ram = [a \in Account |-> Cardinality(Paid(s.gto, a))]
    BY DEF Fine, RamOK
  <2>2. \A a \in Account : Cardinality(Paid(s.gto, a)) \in Nat
    BY <2>1, PaidFinite
  <2> QED
    BY <2>1, <2>2
<1> QED
  BY <1>1, <1>2, <1>3, <1>4, <1>5, <1>6 DEF IsState, Paid

LEMMA RamHolds == BlocksOK /\ StateOK => RamMatchesRows
<1> SUFFICES ASSUME BlocksOK, StateOK PROVE RamMatchesRows
  OBVIOUS
<1>1. ASSUME NEW i \in 1 .. Len(blocks)
      PROVE  /\ IsState(blocks[i].db) /\ blocks[i].slot \in 0 .. MaxSlot /\ blocks[i].trxs \subseteq Input
             /\ \A a \in Account :
                   blocks[i].db.ram[a] = Cardinality({row \in blocks[i].db.gto : row.payer = a})
  <2>1. PICK done, s, slot : s = blocks[i].db /\ Good(done, s, slot)
    BY DEF BlocksOK, Chain
  <2>2. Typed(blocks[i]) /\ Fine(s)
    BY <2>1 DEF StateOK, Typed
  <2>3. IsState(s) /\ \A a \in Account : s.ram[a] = Cardinality({row \in s.gto : row.payer = a})
    BY <2>1, <2>2, IsStateHolds
  <2> QED
    BY <2>1, <2>2, <2>3 DEF Typed
<1>2. /\ IsState(pending.db)
      /\ \A a \in Account : pending.db.ram[a] = Cardinality({row \in pending.db.gto : row.payer = a})
  <2>1. PICK done, s, slot : s = pending.db /\ Good(done, s, slot)
    <3>1. CASE pending.mode = None
      BY <3>1, GenesisGood DEF StateOK
    <3>2. CASE pending.mode # None
      BY <3>2 DEF BlocksOK, PendingOK, Fits
    <3> QED
      BY <3>1, <3>2
  <2>2. Fine(s)
    BY <2>1 DEF StateOK, Typed
  <2> QED
    BY <2>1, <2>2, IsStateHolds
<1>3. TypeOK
  BY <1>1, <1>2 DEF TypeOK, StateOK, Typed
<1>4. Len(blocks) \in 1 .. Len(blocks) /\ head = blocks[Len(blocks)]
  BY HeadGood DEF BlocksOK, head, Last
<1>5. \A a \in Account : CurrentState.ram[a] = Cardinality({row \in CurrentState.gto : row.payer = a})
  BY <1>1, <1>2, <1>4 DEF CurrentState
<1> QED
  BY <1>3, <1>5 DEF RamMatchesRows

\* The invariant behind it: usage and RAM are right in every state kept.
THEOREM StateAlwaysOK == Spec => []StateOK
<1>1. Init => StateOK
  BY StateInit
<1>2. BlocksOK /\ StateOK /\ [Next]_vars => StateOK'
  BY StateStep
<1> QED
  BY <1>1, <1>2, BlocksAlwaysOK, PTL DEF Spec

\* The RAM billed to an account for deferred transactions is that of the rows
\* it pays for, whatever was sent, cancelled, retired or lost with a block, and
\* the CPU time billed in a block is within its limit.
THEOREM RamAlwaysMatches == Spec => []RamMatchesRows
<1>1. BlocksOK /\ StateOK => RamMatchesRows
  BY RamHolds
<1> QED
  BY <1>1, BlocksAlwaysOK, StateAlwaysOK, PTL

-----------------------------------------------------------------------------
(***************************************************************************)
(* Another node that applies the receipts.  Its contexts are explicit and  *)
(* bill what the receipts say.                                             *)
(***************************************************************************)
\* The contexts of the two nodes: of the same transaction, at the same time.
Twins(c, v) ==
    /\ IsContext(c) /\ IsContext(v) /\ v.payer = c.payer /\ v.max_cpu = c.max_cpu /\ v.pre = c.pre
    /\ v.trx = c.trx /\ v.now = c.now /\ ~c.explicit /\ c.billed = 0 /\ v.explicit /\ c.producing

LEMMA TwinLimits ==
    ASSUME NEW c, NEW v, Twins(c, v), NEW s
    PROVE  /\ initial_objective_duration_limit(v, s) = initial_objective_duration_limit(c, s)
           /\ billing_timer_exception_code(v, s) = billing_timer_exception_code(c, s)
<1>1. TrxCpuLimit(v) = TrxCpuLimit(c)
  BY DEF Twins, TrxCpuLimit
<1> QED
  BY <1>1 DEF initial_objective_duration_limit, billing_timer_exception_code

\* What throws no exception on a node that produces does the same on another,
\* where a row may be replaced.
LEMMA TwinExec ==
    ASSUME NEW c, NEW v, Twins(c, v), NEW s
    PROVE  exec(c, s).exc # "subjective" => exec(v, s) = exec(c, s)
<1> SUFFICES ASSUME exec(c, s).exc # "subjective" PROVE exec(v, s) = exec(c, s)
  OBVIOUS
<1>1. c.producing /\ v.trx = c.trx /\ v.now = c.now
  BY DEF Twins
<1>2. PICK d, s2 : /\ d = Data[c.trx]
                   /\ s2 = IF d.cancel = None THEN [s EXCEPT !.ran = Append(@, <<"run", c.trx, c.now>>)]
                           ELSE cancel_deferred_transaction(
                                    [s EXCEPT !.ran = Append(@, <<"run", c.trx, c.now>>)], d.cancel)
  OBVIOUS
<1>3. exec(c, s) = IF d.asserts THEN [exc |-> "assert", s |-> s]
                   ELSE IF d.send = None THEN [exc |-> None, s |-> s2]
                   ELSE schedule_deferred_transaction(s2, d.send, d.replace, c.now, c.producing)
  BY <1>2 DEF exec
<1>4. exec(v, s) = IF d.asserts THEN [exc |-> "assert", s |-> s]
                   ELSE IF d.send = None THEN [exc |-> None, s |-> s2]
                   ELSE schedule_deferred_transaction(s2, d.send, d.replace, c.now, v.producing)
  BY <1>1, <1>2 DEF exec
<1>5. CASE d.asserts \/ d.send = None
  BY <1>3, <1>4, <1>5
<1>6. CASE ~d.asserts /\ d.send # None
  <2>1. exec(c, s) = schedule_deferred_transaction(s2, d.send, d.replace, c.now, c.producing)
    BY <1>3, <1>6
  <2>2. exec(v, s) = schedule_deferred_transaction(s2, d.send, d.replace, c.now, v.producing)
    BY <1>4, <1>6
  <2>3. CASE SentRows(s2, d.send) = {}
    BY <2>1, <2>2, <2>3 DEF schedule_deferred_transaction
  <2>4. CASE SentRows(s2, d.send) # {} /\ ~d.replace
    BY <2>1, <2>2, <2>4 DEF schedule_deferred_transaction
  <2>5. CASE SentRows(s2, d.send) # {} /\ d.replace
    <3>1. exec(c, s) = [exc |-> "subjective", s |-> s2]
      BY <1>1, <2>1, <2>5 DEF schedule_deferred_transaction
    <3> QED
      BY <3>1
  <2> QED
    BY <2>3, <2>4, <2>5
<1> QED
  BY <1>5, <1>6

LEMMA TwinInput ==
    ASSUME NEW c, NEW v, Twins(c, v), NEW s
    PROVE  exec_input(c, s).exc # "subjective" => exec_input(v, s) = exec_input(c, s)
<1> SUFFICES ASSUME exec_input(c, s).exc # "subjective" PROVE exec_input(v, s) = exec_input(c, s)
  OBVIOUS
<1>1. v.trx = c.trx /\ v.now = c.now
  BY DEF Twins
<1>2. PICK s1 : s1 = [s EXCEPT !.dedup = @ \cup {c.trx}]
  OBVIOUS
<1>3. exec_input(c, s) = IF c.trx \in s.dedup THEN [exc |-> "tx_duplicate", s |-> s]
                         ELSE IF Data[c.trx].delay = 0 THEN exec(c, s1)
                         ELSE [exc |-> None, s |-> create_generated(s1, c.trx, c.now)]
  BY <1>2 DEF exec_input
<1>4. exec_input(v, s) = IF c.trx \in s.dedup THEN [exc |-> "tx_duplicate", s |-> s]
                         ELSE IF Data[c.trx].delay = 0 THEN exec(v, s1)
                         ELSE [exc |-> None, s |-> create_generated(s1, c.trx, c.now)]
  BY <1>1, <1>2 DEF exec_input
<1>5. CASE c.trx \in s.dedup
  BY <1>3, <1>4, <1>5
<1>6. CASE c.trx \notin s.dedup /\ Data[c.trx].delay = 0
  <2>1. exec_input(c, s) = exec(c, s1) /\ exec_input(v, s) = exec(v, s1)
    BY <1>3, <1>4, <1>6
  <2> QED
    BY <2>1, TwinExec
<1>7. CASE c.trx \notin s.dedup /\ Data[c.trx].delay # 0
  BY <1>3, <1>4, <1>7
<1> QED
  BY <1>5, <1>6, <1>7

\* What runs here within its limits runs there, too, and leaves the same state.
Agree(r, q) == q.exc = None /\ q.billed = r.billed /\ q.s = r.s

LEMMA TwinRun ==
    ASSUME NEW c, NEW v, Twins(c, v), NEW s, UsageOK(s), NEW body, NEW e \in Nat, NEW cut,
           NEW r, r = Run(c, s, body, e, cut), r.exc = None, v.billed = r.billed,
           NEW q, q = Run(v, s, body, 0, None)
    PROVE  Agree(r, q)
<1>1. IsContext(c) /\ IsContext(v) /\ v.payer = c.payer /\ v.pre = c.pre /\ v.explicit
  BY DEF Twins
<1>2. Pays(c, s, body, cut, r)
  BY <1>1, RunPays, Zenon
<1>3. /\ c.pre = None /\ cut = None /\ body.exc = None
      /\ r.billed \in Nat /\ r.billed >= MinTrxCpu
      /\ r.billed <= get_account_cpu_limit(s, c.payer)
      /\ r.billed <= initial_objective_duration_limit(c, s)
      /\ r.s = add_transaction_usage(body.s, {c.payer}, r.billed)
  BY <1>2 DEF Pays
<1>4. PICK limit \in Nat : limit = initial_objective_duration_limit(v, s) /\ r.billed <= limit
  BY <1>1, <1>3, Limits, TwinLimits
<1>5. PICK account \in Nat : account = get_account_cpu_limit(s, v.payer) /\ r.billed <= account
  BY <1>1, <1>3, Limits DEF IsContext
<1>6. Ran(v, s, body, 0, None, q, limit)
  BY <1>4, RunCases, Zenon
<1>7. q.billed = r.billed
  <2>1. q.billed = update_billed_cpu_time(v, 0)
    BY <1>6 DEF Ran
  <2> QED
    BY <1>1, <2>1 DEF update_billed_cpu_time
<1>8. ~(v.billed > limit)
  BY <1>3, <1>4
<1>9. q.exc = BillingFailure(v, s, r.billed, account, limit)
  BY <1>1, <1>3, <1>5, <1>6, <1>7, <1>8 DEF Ran
<1>10. Bill(v, s, r.billed, account, limit, q.exc)
  BY <1>3, <1>9, Billing
<1>11. q.exc = None
  BY <1>3, <1>4, <1>5, <1>10 DEF Bill
<1>12. q.s = add_transaction_usage(body.s, {v.payer}, q.billed)
  BY <1>6, <1>11 DEF Ran
<1> QED
  BY <1>1, <1>3, <1>7, <1>11, <1>12 DEF Agree

\* The other node accepts the receipt and has the same state.
Accepted(s, slot, o, r, out) ==
    /\ o.receipts = <<r>> /\ out = OutcomeOf(s, r, slot) /\ out.s = o.s /\ out.receipts = <<r>>
    /\ out.exc = None \/ (r.status = "hard_fail" /\ \A t \in Input : r.id # Packed(t))

Replays(s, slot, o) == \E r, out : Accepted(s, slot, o, r, out)

\* The receipt of an input that ran.
LEMMA ReplayInput ==
    ASSUME NEW s, Fine(s), NEW t \in Input, NEW slot \in Nat, NEW e \in Nat, NEW cut, NEW o,
           o = push_transaction(InputContext(t, slot, FALSE, 0), s, e, cut), o.exc = None
    PROVE  Replays(s, slot, o)
<1>1. PICK c : c = InputContext(t, slot, FALSE, 0)
  OBVIOUS
<1>2. /\ c.trx = t /\ c.payer = Data[t].payer /\ c.max_cpu = Data[t].max_cpu /\ c.billed = 0 /\ c.now = slot
      /\ c.leeway = Leeway /\ c.explicit = FALSE /\ c.producing /\ c.pre = validate_expiration(t, slot)
  BY <1>1 DEF InputContext, Context
<1>3. PICK body : body = exec_input(c, s)
  OBVIOUS
<1>4. PICK r : r = Run(c, s, body, e, cut)
  OBVIOUS
<1>5. /\ o.exc = r.exc /\ o.s = r.s /\ r.exc = None
      /\ o.receipts = <<Receipt(Packed(t), InputStatus(t), r.billed)>>
  BY <1>1, <1>2, <1>3, <1>4 DEF push_transaction, InputOutcome, Outcome
<1>a. Data[t].payer \in Account /\ Data[t].max_cpu \in Nat /\ Leeway \in Nat
  BY DataAssumption
<1>b. c.payer \in Account /\ c.max_cpu \in Nat /\ c.billed \in Nat /\ c.leeway \in Nat
  BY <1>2, <1>a
<1>c. c.explicit \in BOOLEAN /\ ~c.explicit
  BY <1>2
<1>6. IsContext(c) /\ UsageOK(s)
  BY <1>b, <1>c DEF IsContext, Fine
<1>7. Pays(c, s, body, cut, r)
  BY <1>4, <1>5, <1>6, RunPays
<1>8. r.billed \in Nat /\ body.exc = None
  BY <1>7 DEF Pays
<1>9. PICK v : v = InputContext(t, slot, TRUE, r.billed)
  OBVIOUS
<1>10. /\ v.trx = t /\ v.payer = Data[t].payer /\ v.max_cpu = Data[t].max_cpu /\ v.billed = r.billed
       /\ v.now = slot /\ v.leeway = Leeway /\ v.explicit = TRUE /\ v.pre = validate_expiration(t, slot)
  BY <1>9 DEF InputContext, Context
<1>11. IsContext(v)
  BY <1>8, <1>10, <1>a DEF IsContext
<1>12. Twins(c, v)
  BY <1>2, <1>6, <1>10, <1>11 DEF Twins
<1>13. exec_input(v, s) = body
  BY <1>3, <1>8, <1>12, TwinInput DEF None
<1>14. PICK q : q = Run(v, s, body, 0, None)
  OBVIOUS
<1>15. Agree(r, q)
  BY <1>4, <1>5, <1>6, <1>10, <1>12, <1>14, TwinRun
<1>16. PICK receipt : receipt = Receipt(Packed(t), InputStatus(t), r.billed)
  OBVIOUS
<1>17. receipt.id[1] = "packed" /\ receipt.id[2] = t /\ receipt.cpu = r.billed
  BY <1>16 DEF Receipt, Packed
<1>18. PICK out : out = OutcomeOf(s, receipt, slot)
  OBVIOUS
<1>19. out = push_transaction(v, s, 0, None)
  BY <1>9, <1>17, <1>18 DEF OutcomeOf
<1>20. out = InputOutcome(t, q)
  BY <1>10, <1>13, <1>14, <1>19 DEF push_transaction
<1>21. out.exc = None /\ out.s = o.s /\ out.receipts = <<receipt>>
  BY <1>5, <1>15, <1>16, <1>20 DEF InputOutcome, Outcome, Agree
<1>22. Accepted(s, slot, o, receipt, out)
  BY <1>5, <1>16, <1>18, <1>21 DEF Accepted
<1> QED
  BY <1>22 DEF Replays

-----------------------------------------------------------------------------
\* The contexts of a row and of its error handler on the two nodes.
RowPair(c, v, row, slot, b) ==
    /\ Twins(c, v) /\ c.pre = None /\ v.billed = b /\ c.payer = row.payer /\ c.trx = row.trx
    /\ IsRowContext(c, row, slot) /\ IsRowContext(v, row, slot) /\ c.now = slot
    /\ row.sender # None => /\ Twins(HandlerContext(row, c), HandlerContext(row, v))
                            /\ HandlerContext(row, c).pre = None /\ HandlerContext(row, c).max_cpu = 0
                            /\ HandlerContext(row, v).billed = b

LEMMA RowTwins ==
    ASSUME NEW row, KnownRow(row), NEW slot, NEW b \in Nat, NEW c, c = RowContext(row, slot, FALSE, 0),
           NEW v, v = RowContext(row, slot, TRUE, b)
    PROVE  RowPair(c, v, row, slot, b)
<1>1. /\ IsRowContext(c, row, slot) /\ ~c.explicit /\ c.producing /\ c.billed = 0
      /\ IsRowContext(v, row, slot) /\ v.explicit /\ v.billed = b
  <2>1. IsRowContext(c, row, slot) /\ ~c.explicit /\ c.producing /\ c.billed = 0
    BY DEF RowContext, Context, IsRowContext, None
  <2>2. IsRowContext(v, row, slot) /\ v.explicit /\ v.billed = b
    BY DEF RowContext, Context, IsRowContext, None
  <2> QED
    BY <2>1, <2>2
<1>2. /\ IsContext(c) /\ (row.sender # None => IsContext(HandlerContext(row, c)))
      /\ IsContext(v) /\ (row.sender # None => IsContext(HandlerContext(row, v)))
  BY <1>1, RowContextNumbers
<1>3. Twins(c, v) /\ c.pre = None /\ c.payer = row.payer /\ c.trx = row.trx /\ c.now = slot
  BY <1>1, <1>2 DEF Twins, IsRowContext
<1>4. ASSUME row.sender # None
      PROVE  /\ Twins(HandlerContext(row, c), HandlerContext(row, v))
             /\ HandlerContext(row, c).pre = None /\ HandlerContext(row, c).max_cpu = 0
             /\ HandlerContext(row, v).billed = b
  <2>1. PICK d, w : d = HandlerContext(row, c) /\ w = HandlerContext(row, v)
    OBVIOUS
  <2>2. /\ d.payer = row.sender /\ d.max_cpu = 0 /\ d.pre = None /\ d.billed = c.billed
        /\ d.explicit = c.explicit /\ d.now = c.now /\ d.producing = c.producing /\ d.trx = c.trx
    BY <1>1, <2>1 DEF IsRowContext, HandlerContext
  <2>3. /\ w.payer = row.sender /\ w.max_cpu = 0 /\ w.pre = None /\ w.billed = v.billed
        /\ w.explicit = v.explicit /\ w.now = v.now /\ w.producing = v.producing /\ w.trx = v.trx
    BY <1>1, <2>1 DEF IsRowContext, HandlerContext
  <2>4. IsContext(d) /\ IsContext(w)
    BY <1>2, <1>4, <2>1
  <2>5. Twins(d, w)
    BY <1>3, <2>2, <2>3, <2>4 DEF Twins
  <2> QED
    BY <1>1, <2>1, <2>2, <2>3, <2>5
<1> QED
  BY <1>1, <1>3, <1>4 DEF RowPair

\* What cuts a run short is a reason of this node, or the time for the
\* transaction is over.
LEMMA CutShort ==
    ASSUME NEW c, ~c.explicit, NEW s, NEW e, NEW cut \in Cuts(c, s, e), cut # None
    PROVE  /\ scheduled_failure_is_subjective(cut)
           /\ ~failure_is_subjective(cut) => e > initial_objective_duration_limit(c, s) /\ cut = "tx_cpu"
<1>1. cut \in {"block_deadline", "deadline"} \/ (cut = Timer(c, s).code /\ e > Timer(c, s).at)
  BY DEF Cuts
<1>2. \/ Timer(c, s).code = "leeway"
      \/ /\ Timer(c, s).code = billing_timer_exception_code(c, s)
         /\ Timer(c, s).at = initial_objective_duration_limit(c, s)
  BY DEF Timer
<1>3. billing_timer_exception_code(c, s) \in {"block_cpu", "tx_cpu"}
  BY DEF billing_timer_exception_code
<1> QED
  BY <1>1, <1>2, <1>3 DEF scheduled_failure_is_subjective, failure_is_subjective

\* Why a run fails on a node with a clock, if not for a reason of this node: it
\* took longer than it may, or than its account can pay, or its code throws.
TooLong(r, limit) == r.exc = "tx_cpu" /\ r.billed > limit
TooDear(c, s, body, r, limit) ==
    /\ r.exc = "tx_cpu" /\ body.exc = None
    /\ get_account_cpu_limit(s, c.payer) <= limit /\ r.billed > get_account_cpu_limit(s, c.payer)
Throws(body, r) == r.exc = body.exc /\ body.exc # None

Faulty(c, s, body, e, r, limit) ==
    /\ r.bill_to = {c.payer} /\ r.billed \in Nat /\ r.billed >= MinTrxCpu
    /\ r.billed >= e /\ (r.billed = e \/ r.billed = MinTrxCpu)
    /\ r.exc # None /\ ~failure_is_subjective(r.exc) =>
         TooLong(r, limit) \/ TooDear(c, s, body, r, limit) \/ Throws(body, r)
    /\ r.exc # None /\ ~scheduled_failure_is_subjective(r.exc) => Throws(body, r)

LEMMA Fault ==
    ASSUME NEW c, IsContext(c), ~c.explicit, c.billed = 0, c.pre = None, NEW s, UsageOK(s), NEW body,
           NEW e \in Nat, NEW cut \in Cuts(c, s, e), NEW r, r = Run(c, s, body, e, cut),
           NEW limit, limit = initial_objective_duration_limit(c, s)
    PROVE  Faulty(c, s, body, e, r, limit)
<1>1. limit \in Nat /\ ~(c.billed > limit)
  BY Limits
<1>2. PICK account \in Nat : account = get_account_cpu_limit(s, c.payer)
  BY Limits DEF IsContext
<1>3. Ran(c, s, body, e, cut, r, limit)
  BY RunCases, Zenon
<1>4. PICK b : b = r.billed /\ b = update_billed_cpu_time(c, e)
  BY <1>3 DEF Ran
<1>5. b \in Nat /\ b >= MinTrxCpu /\ b >= e /\ (b = e \/ b = MinTrxCpu)
  BY <1>4, Billed
<1>6. r.bill_to = {c.payer}
  BY <1>1, <1>3 DEF Ran
<1>7. CASE cut # None
  <2>1. r.exc = cut
    BY <1>1, <1>3, <1>7 DEF Ran
  <2>2. /\ scheduled_failure_is_subjective(cut)
        /\ ~failure_is_subjective(cut) => e > limit /\ cut = "tx_cpu"
    BY <1>7, CutShort
  <2>3. ~failure_is_subjective(cut) => TooLong(r, limit)
    BY <1>1, <1>4, <1>5, <2>1, <2>2 DEF TooLong
  <2> QED
    BY <1>4, <1>5, <1>6, <2>1, <2>2, <2>3 DEF Faulty
<1>8. CASE cut = None /\ body.exc # None
  <2>1. Throws(body, r)
    BY <1>1, <1>3, <1>8 DEF Ran, Throws
  <2> QED
    BY <1>4, <1>5, <1>6, <2>1 DEF Faulty
<1>9. CASE cut = None /\ body.exc = None
  <2>1. r.exc = BillingFailure(c, s, b, account, limit)
    BY <1>1, <1>2, <1>3, <1>4, <1>9 DEF Ran
  <2>2. Bill(c, s, b, account, limit, r.exc)
    BY <1>1, <1>5, <2>1, Billing
  <2>3. billing_timer_exception_code(c, s) \in {"block_cpu", "tx_cpu"}
    BY DEF billing_timer_exception_code
  <2>4. \/ r.exc = None \/ (r.exc = "tx_cpu" /\ account <= limit /\ b > account)
        \/ (r.exc \in {"block_cpu", "tx_cpu"} /\ b > limit)
    <3>1. MinTrxCpu \in Nat
      BY Numbers
    <3> QED
      BY <1>1, <1>5, <2>2, <2>3, <3>1 DEF Bill
  <2>5. r.exc # None => scheduled_failure_is_subjective(r.exc)
    BY <2>4 DEF scheduled_failure_is_subjective, failure_is_subjective
  <2>6. r.exc # None /\ ~failure_is_subjective(r.exc) => TooLong(r, limit) \/ TooDear(c, s, body, r, limit)
    BY <1>2, <1>4, <1>9, <2>4 DEF TooLong, TooDear, failure_is_subjective
  <2> QED
    BY <1>4, <1>5, <1>6, <2>5, <2>6 DEF Faulty
<1> QED
  BY <1>7, <1>8, <1>9

\* A run that failed here fails there as well, not for a reason of that node,
\* if it is billed what the error handler took, and there is room for that.
LEMMA TwinFault ==
    ASSUME NEW c, NEW v, Twins(c, v), c.pre = None, NEW s, UsageOK(s), NEW e \in Nat,
           NEW cut \in Cuts(c, s, e), NEW r, r = Run(c, s, exec(c, s), e, cut),
           r.exc # None, ~failure_is_subjective(r.exc),
           v.billed >= r.billed, v.billed <= get_block_cpu_limit(s),
           NEW q, q = Run(v, s, exec(v, s), 0, None)
    PROVE  q.exc # None /\ ~failure_is_subjective(q.exc)
<1>1. /\ IsContext(c) /\ IsContext(v) /\ v.payer = c.payer /\ v.pre = None /\ ~c.explicit /\ c.billed = 0
      /\ v.explicit
  BY DEF Twins
<1>2. PICK limit \in Nat : limit = initial_objective_duration_limit(c, s)
  BY <1>1, Limits
<1>3. limit = initial_objective_duration_limit(v, s)
  BY <1>2, TwinLimits
<1>4. PICK account \in Nat : account = get_account_cpu_limit(s, v.payer)
  BY <1>1, Limits DEF IsContext
<1>5. PICK body : body = exec(c, s)
  OBVIOUS
<1>6. /\ r.billed \in Nat /\ r.billed >= MinTrxCpu
      /\ TooLong(r, limit) \/ TooDear(c, s, body, r, limit) \/ Throws(body, r)
  <2>1. Faulty(c, s, body, e, r, limit)
    BY <1>1, <1>2, <1>5, Fault
  <2> QED
    BY <2>1 DEF Faulty
<1>7. PICK b \in Nat : b = v.billed
  BY <1>1 DEF IsContext
<1>8. Ran(v, s, exec(v, s), 0, None, q, limit)
  BY <1>3, RunCases, Zenon
<1>9. CASE b > limit
  <2>1. q.exc = billing_timer_exception_code(v, s)
    BY <1>1, <1>7, <1>8, <1>9 DEF Ran
  <2>2. PICK block \in Nat, trx \in Nat : block = get_block_cpu_limit(s) /\ trx = TrxCpuLimit(v)
    BY <1>1, Limits
  <2>3. limit = IF block <= trx THEN block ELSE trx
    BY <1>1, <1>3, <2>2, Limits
  <2>4. billing_timer_exception_code(v, s) = IF block < trx THEN "block_cpu" ELSE "tx_cpu"
    BY <2>2 DEF billing_timer_exception_code
  <2>5. q.exc = "tx_cpu"
    BY <1>7, <1>9, <2>1, <2>2, <2>3, <2>4
  <2> QED
    BY <2>5 DEF failure_is_subjective, None
<1>10. CASE ~(b > limit)
  <2>1. ~TooLong(r, limit)
    BY <1>6, <1>7, <1>10 DEF TooLong
  <2>2. body.exc # "subjective"
    BY <1>6, <2>1 DEF TooDear, Throws, failure_is_subjective, None
  <2>3. exec(v, s) = body
    BY <1>5, <2>2, TwinExec
  <2>4. CASE Throws(body, r)
    <3>1. q.exc = r.exc
      BY <1>1, <1>7, <1>8, <1>10, <2>3, <2>4 DEF Ran, Throws
    <3> QED
      BY <3>1
  <2>5. CASE TooDear(c, s, body, r, limit)
    <3>1. q.billed = b
      BY <1>1, <1>7, <1>8 DEF Ran, update_billed_cpu_time
    <3>2. q.exc = BillingFailure(v, s, b, account, limit)
      BY <1>1, <1>4, <1>7, <1>8, <1>10, <2>3, <2>5, <3>1 DEF Ran, TooDear
    <3>3. Bill(v, s, b, account, limit, q.exc)
      BY <3>2, Billing
    <3>4. account <= limit /\ b > account /\ b >= MinTrxCpu
      BY <1>1, <1>4, <1>6, <1>7, <2>5, Numbers DEF TooDear
    <3>5. q.exc = "tx_cpu"
      BY <3>3, <3>4 DEF Bill
    <3> QED
      BY <3>5 DEF failure_is_subjective, None
  <2> QED
    BY <1>6, <2>1, <2>4, <2>5
<1> QED
  BY <1>9, <1>10

\* A body that throws, throws there, too, if what is billed is within the limit.
LEMMA TwinThrows ==
    ASSUME NEW c, NEW v, Twins(c, v), c.pre = None, NEW s, NEW body, body.exc # None,
           ~(v.billed > initial_objective_duration_limit(c, s)), NEW q, q = Run(v, s, body, 0, None)
    PROVE  q.exc = body.exc /\ q.bill_to = {c.payer} /\ q.billed = v.billed
<1>1. v.payer = c.payer /\ v.pre = None /\ v.explicit
  BY DEF Twins
<1>2. PICK limit : limit = initial_objective_duration_limit(v, s) /\ ~(v.billed > limit)
  BY TwinLimits
<1>3. Ran(v, s, body, 0, None, q, limit)
  BY <1>2, RunCases, Zenon
<1> QED
  BY <1>1, <1>2, <1>3 DEF Ran, update_billed_cpu_time

-----------------------------------------------------------------------------
\* A row that is pushed here, and there with what the receipt bills.
Pushed(s, row, slot, c, s1, e, cut, h, hcut, r, p) ==
    /\ KnownRow(row) /\ UsageOK(s1) /\ c = RowContext(row, slot, FALSE, 0)
    /\ e \in Nat /\ h \in Nat /\ cut \in Cuts(c, s1, e)
    /\ row.sender # None => hcut \in Cuts(HandlerContext(row, c), s1, e + h)
    /\ r = Run(c, s1, exec(c, s1), e, cut) /\ p = apply_onerror(row, c, s1, e, h, hcut)

Checked(row, slot, b, v, s1, q, k) ==
    /\ b \in Nat /\ v = RowContext(row, slot, TRUE, b)
    /\ q = Run(v, s1, exec(v, s1), 0, None) /\ k = apply_onerror(row, v, s1, 0, 0, None)

LEMMA CheckedRan ==
    ASSUME NEW s, NEW row, NEW slot, NEW c, NEW s1, NEW e, NEW cut, NEW h, NEW hcut, NEW r, NEW p,
           Pushed(s, row, slot, c, s1, e, cut, h, hcut, r, p), r.exc = None,
           NEW v, NEW q, NEW k, Checked(row, slot, r.billed, v, s1, q, k)
    PROVE  Agree(r, q)
<1>1. Twins(c, v) /\ v.billed = r.billed
  <2>1. RowPair(c, v, row, slot, r.billed)
    BY RowTwins DEF Pushed, Checked
  <2> QED
    BY <2>1 DEF RowPair
<1>2. PICK body : body = exec(c, s1)
  OBVIOUS
<1>3. IsContext(c) /\ UsageOK(s1) /\ e \in Nat /\ r = Run(c, s1, body, e, cut)
  BY <1>1, <1>2 DEF Pushed, Twins
<1>4. Pays(c, s1, body, cut, r)
  BY <1>3, RunPays
<1>5. body.exc = None
  BY <1>4 DEF Pays
<1>6. exec(v, s1) = body
  BY <1>1, <1>2, <1>5, TwinExec DEF None
<1>7. q = Run(v, s1, body, 0, None)
  BY <1>6 DEF Checked
<1> QED
  BY <1>1, <1>3, <1>7, TwinRun

LEMMA HandlerTwins ==
    ASSUME NEW s, NEW row, NEW slot, NEW c, NEW s1, NEW e, NEW cut, NEW h, NEW hcut, NEW r, NEW p,
           Pushed(s, row, slot, c, s1, e, cut, h, hcut, r, p), row.sender # None,
           NEW b, NEW v, NEW q, NEW k, Checked(row, slot, b, v, s1, q, k)
    PROVE  \E d, w, body, n :
              /\ Twins(d, w) /\ d.pre = None /\ d.max_cpu = 0 /\ w.billed = b /\ d.payer = row.sender
              /\ n \in Nat /\ n >= e /\ body = HandlerBody(row, slot, s1) /\ hcut \in Cuts(d, s1, n)
              /\ p = Run(d, s1, body, n, hcut) /\ k = Run(w, s1, body, 0, None)
<1>1. PICK d, w, body, n : /\ d = HandlerContext(row, c) /\ w = HandlerContext(row, v)
                           /\ body = HandlerBody(row, slot, s1) /\ n = e + h
  OBVIOUS
<1>2. /\ c = RowContext(row, slot, FALSE, 0) /\ v = RowContext(row, slot, TRUE, b) /\ b \in Nat /\ KnownRow(row)
      /\ e \in Nat /\ h \in Nat /\ hcut \in Cuts(d, s1, n)
      /\ p = apply_onerror(row, c, s1, e, h, hcut) /\ k = apply_onerror(row, v, s1, 0, 0, None)
  BY <1>1 DEF Pushed, Checked
<1>3. Twins(d, w) /\ d.pre = None /\ d.max_cpu = 0 /\ w.billed = b /\ c.now = slot /\ Twins(c, v)
      /\ IsRowContext(c, row, slot)
  <2>1. RowPair(c, v, row, slot, b)
    BY <1>2, RowTwins
  <2> QED
    BY <1>1, <2>1 DEF RowPair
<1>4. v.now = slot
  BY <1>3 DEF Twins
<1>5. p = Run(d, s1, body, n, hcut) /\ k = Run(w, s1, body, 0 + 0, None)
  BY <1>1, <1>2, <1>3, <1>4, HandlerRuns
<1>6. k = Run(w, s1, body, 0, None) /\ n \in Nat /\ n >= e
  <2>1. PICK z \in Nat : z = 0 + 0 /\ z = 0
    OBVIOUS
  <2>2. k = Run(w, s1, body, 0, None)
    BY <1>5, <2>1, Zenon
  <2>3. e \in Nat /\ h \in Nat /\ n = e + h
    BY <1>1, <1>2
  <2>4. n \in Nat /\ n >= e
    BY <2>3
  <2> QED
    BY <2>2, <2>4
<1>7. d.payer = row.sender
  BY <1>1, <1>3, HandlerContexts
<1> QED
  BY <1>1, <1>2, <1>3, <1>5, <1>6, <1>7

\* The error handler ran: there the row fails, too, and its handler runs.
LEMMA CheckedHandled ==
    ASSUME NEW s, NEW row, NEW slot, NEW c, NEW s1, NEW e, NEW cut, NEW h, NEW hcut, NEW r, NEW p,
           Pushed(s, row, slot, c, s1, e, cut, h, hcut, r, p), row.sender # None,
           r.exc # None, ~failure_is_subjective(r.exc), p.exc = None,
           NEW v, NEW q, NEW k, Checked(row, slot, p.billed, v, s1, q, k)
    PROVE  q.exc # None /\ ~failure_is_subjective(q.exc) /\ Agree(p, k)
<1>1. PICK d, w, body, n :
              /\ Twins(d, w) /\ d.pre = None /\ d.max_cpu = 0 /\ w.billed = p.billed /\ d.payer = row.sender
              /\ n \in Nat /\ n >= e /\ body = HandlerBody(row, slot, s1) /\ hcut \in Cuts(d, s1, n)
              /\ p = Run(d, s1, body, n, hcut) /\ k = Run(w, s1, body, 0, None)
  BY HandlerTwins
<1>2. UsageOK(s1) /\ IsContext(d) /\ ~d.explicit /\ d.billed = 0
  BY <1>1 DEF Pushed, Twins
<1>3. Agree(p, k)
  BY <1>1, <1>2, TwinRun
<1>4. Pays(d, s1, body, hcut, p)
  BY <1>1, <1>2, RunPays
<1>5. PICK b \in Nat : b = p.billed /\ b <= initial_objective_duration_limit(d, s1)
  BY <1>4 DEF Pays
<1>6. b <= get_block_cpu_limit(s1)
  BY <1>2, <1>5, Limits
<1>7. Twins(c, v) /\ c.pre = None /\ v.billed = b
  <2>1. RowPair(c, v, row, slot, b)
    BY <1>5, RowTwins DEF Pushed, Checked
  <2> QED
    BY <2>1 DEF RowPair
<1>8. /\ IsContext(c) /\ ~c.explicit /\ c.billed = 0 /\ e \in Nat /\ cut \in Cuts(c, s1, e)
      /\ r = Run(c, s1, exec(c, s1), e, cut) /\ q = Run(v, s1, exec(v, s1), 0, None)
  BY <1>7 DEF Pushed, Checked, Twins
<1>9. r.billed \in Nat /\ (r.billed = e \/ r.billed = MinTrxCpu)
  <2>1. PICK x, l : x = exec(c, s1) /\ l = initial_objective_duration_limit(c, s1)
    OBVIOUS
  <2>2. Faulty(c, s1, x, e, r, l)
    BY <1>2, <1>7, <1>8, <2>1, Fault
  <2> QED
    BY <2>2 DEF Faulty
<1>10. b >= n /\ b >= MinTrxCpu
  <2>1. PICK l : l = initial_objective_duration_limit(d, s1)
    OBVIOUS
  <2>2. Faulty(d, s1, body, n, p, l)
    BY <1>1, <1>2, <2>1, Fault
  <2> QED
    BY <1>5, <2>2 DEF Faulty
<1>11. b >= r.billed
  BY <1>1, <1>8, <1>9, <1>10, Numbers
<1> QED
  BY <1>2, <1>3, <1>6, <1>7, <1>8, <1>11, TwinFault

\* What a hard failure bills is within the limit of the row.
LEMMA HardBill ==
    ASSUME NEW c, IsContext(c), ~c.explicit, NEW s, UsageOK(s), NEW billed \in Nat, NEW b,
           b = HardFailCpu(c, s, billed)
    PROVE  b \in Nat /\ ~(b > initial_objective_duration_limit(c, s))
<1>1. PICK account \in Nat, limit \in Nat : /\ account = get_account_cpu_limit(s, c.payer)
                                            /\ limit = initial_objective_duration_limit(c, s)
  BY Limits DEF IsContext
<1>2. Min({billed, account, limit}) \in Nat /\ Min({billed, account, limit}) <= limit
  BY LeastOfThree
<1> QED
  BY <1>1, <1>2 DEF HardFailCpu

LEMMA CheckedFailed ==
    ASSUME NEW s, NEW row, NEW slot, NEW c, NEW s1, NEW e, NEW cut, NEW h, NEW hcut, NEW r, NEW p,
           Pushed(s, row, slot, c, s1, e, cut, h, hcut, r, p),
           r.exc # None, ~scheduled_failure_is_subjective(r.exc),
           NEW v, NEW q, NEW k, NEW b, b = HardFailCpu(c, s1, r.billed), Checked(row, slot, b, v, s1, q, k)
    PROVE  q.exc = r.exc /\ q.bill_to = r.bill_to /\ q.billed = b
<1>1. Twins(c, v) /\ c.pre = None /\ v.billed = b
  <2>1. RowPair(c, v, row, slot, b)
    BY RowTwins DEF Pushed, Checked
  <2> QED
    BY <2>1 DEF RowPair
<1>2. /\ IsContext(c) /\ ~c.explicit /\ c.billed = 0 /\ e \in Nat /\ cut \in Cuts(c, s1, e) /\ UsageOK(s1)
      /\ r = Run(c, s1, exec(c, s1), e, cut) /\ q = Run(v, s1, exec(v, s1), 0, None)
  BY <1>1 DEF Pushed, Checked, Twins
<1>3. PICK body : body = exec(c, s1)
  OBVIOUS
<1>4. r.bill_to = {c.payer} /\ r.billed \in Nat /\ Throws(body, r)
  <2>1. PICK l : l = initial_objective_duration_limit(c, s1)
    OBVIOUS
  <2>2. Faulty(c, s1, body, e, r, l)
    BY <1>1, <1>2, <1>3, <2>1, Fault
  <2> QED
    BY <2>2 DEF Faulty
<1>5. ~(v.billed > initial_objective_duration_limit(c, s1))
  BY <1>1, <1>2, <1>4, HardBill
<1>6. r.exc = body.exc /\ body.exc # None /\ body.exc # "subjective"
  BY <1>4 DEF Throws, scheduled_failure_is_subjective, failure_is_subjective
<1>7. q = Run(v, s1, body, 0, None)
  BY <1>1, <1>2, <1>3, <1>6, TwinExec
<1>8. q.exc = body.exc /\ q.bill_to = {c.payer} /\ q.billed = v.billed
  BY <1>1, <1>5, <1>6, <1>7, TwinThrows
<1> QED
  BY <1>1, <1>4, <1>6, <1>8

\* A deferred transaction whose error handler fails always fails itself.  It is
\* not so for every contract: see the run transactions_fail.
Handled == \A t \in Trx : Data[t].sender # None /\ ~Data[t].handler => Data[t].asserts

LEMMA CheckedTwice ==
    ASSUME Handled,
           NEW s, NEW row, NEW slot, NEW c, NEW s1, NEW e, NEW cut, NEW h, NEW hcut, NEW r, NEW p,
           Pushed(s, row, slot, c, s1, e, cut, h, hcut, r, p), row.sender # None,
           r.exc # None, ~failure_is_subjective(r.exc), p.exc # None, ~scheduled_failure_is_subjective(p.exc),
           NEW v, NEW q, NEW k, NEW b, b = HardFailCpu(c, s1, p.billed), Checked(row, slot, b, v, s1, q, k)
    PROVE  /\ q.exc # None /\ ~failure_is_subjective(q.exc) /\ q.bill_to = r.bill_to
           /\ k.exc = p.exc /\ k.billed = b
<1>1. PICK d, w, body, n :
              /\ Twins(d, w) /\ d.pre = None /\ d.max_cpu = 0 /\ w.billed = b /\ d.payer = row.sender
              /\ n \in Nat /\ n >= e /\ body = HandlerBody(row, slot, s1) /\ hcut \in Cuts(d, s1, n)
              /\ p = Run(d, s1, body, n, hcut) /\ k = Run(w, s1, body, 0, None)
  BY HandlerTwins
<1>2. UsageOK(s1) /\ IsContext(d) /\ ~d.explicit /\ d.billed = 0
  BY <1>1 DEF Pushed, Twins
<1>3. p.billed \in Nat /\ Throws(body, p)
  <2>1. PICK l : l = initial_objective_duration_limit(d, s1)
    OBVIOUS
  <2>2. Faulty(d, s1, body, n, p, l)
    BY <1>1, <1>2, <2>1, Fault
  <2> QED
    BY <2>2 DEF Faulty
<1>4. p.exc = body.exc /\ body.exc # None
  BY <1>3 DEF Throws
<1>5. Twins(c, v) /\ c.pre = None /\ v.billed = b /\ c.trx = row.trx
  <2>1. RowPair(c, v, row, slot, b)
    BY RowTwins DEF Pushed, Checked
  <2> QED
    BY <2>1 DEF RowPair
<1>6. /\ IsContext(c) /\ ~c.explicit /\ c.billed = 0 /\ e \in Nat /\ cut \in Cuts(c, s1, e) /\ KnownRow(row)
      /\ r = Run(c, s1, exec(c, s1), e, cut) /\ q = Run(v, s1, exec(v, s1), 0, None)
  BY <1>5 DEF Pushed, Checked, Twins
<1>7. b \in Nat /\ ~(b > initial_objective_duration_limit(c, s1))
  BY <1>2, <1>3, <1>6, HardBill
<1>8. ~(w.billed > initial_objective_duration_limit(d, s1))
  <2>1. PICK block \in Nat, trx \in Nat : block = get_block_cpu_limit(s1) /\ trx = TrxCpuLimit(c)
    BY <1>2, <1>6, Limits
  <2>2. trx <= MaxTrxCpu /\ initial_objective_duration_limit(c, s1) = IF block <= trx THEN block ELSE trx
    BY <1>2, <1>6, <2>1, Limits
  <2>3. TrxCpuLimit(d) = MaxTrxCpu
    BY <1>1, <1>2, Limits
  <2>4. initial_objective_duration_limit(d, s1) = IF block <= MaxTrxCpu THEN block ELSE MaxTrxCpu
    BY <1>2, <2>1, <2>3, Limits
  <2> QED
    BY <1>1, <1>7, <2>1, <2>2, <2>4, Numbers
<1>9. k.exc = body.exc /\ k.billed = b
  BY <1>1, <1>4, <1>8, TwinThrows
<1>10. ~Data[row.trx].handler
  BY <1>1, <1>4 DEF HandlerBody
<1>11. Data[row.trx].asserts
  BY <1>6, <1>10 DEF Handled, KnownRow
<1>12. PICK t : t = exec(v, s1)
  OBVIOUS
<1>13. t.exc = "assert"
  <2>1. v.trx = row.trx
    BY <1>5 DEF Twins
  <2> QED
    BY <1>11, <1>12, <2>1 DEF exec
<1>14. q.exc = t.exc /\ q.bill_to = {c.payer}
  <2>1. t.exc # None
    BY <1>13 DEF None
  <2> QED
    BY <1>5, <1>6, <1>7, <1>12, <2>1, TwinThrows
<1>15. r.bill_to = {c.payer}
  <2>1. PICK x, l : x = exec(c, s1) /\ l = initial_objective_duration_limit(c, s1)
    OBVIOUS
  <2>2. Faulty(c, s1, x, e, r, l)
    BY <1>2, <1>5, <1>6, <2>1, Fault
  <2> QED
    BY <2>2 DEF Faulty
<1> QED
  BY <1>4, <1>9, <1>13, <1>14, <1>15 DEF failure_is_subjective, None

-----------------------------------------------------------------------------
\* What the pushing of a row comes to, on either node.
Ends(row, c, slot, s, s1, r, p, o) ==
    /\ row.delay_until > slot => o = Outcome("not_ready", s, <<>>)
    /\ ~(row.delay_until > slot) /\ row.expiration < slot =>
         o = Outcome(None, s1, <<Receipt(row.trx_id, "expired", c.billed)>>)
    /\ ~(row.delay_until > slot) /\ ~(row.expiration < slot) => o = Retire(row, c, s, s1, r, p)

LEMMA EndsIn ==
    ASSUME NEW row, NEW c, NEW slot, c.now = slot, NEW s, NEW e, NEW cut, NEW h, NEW hcut,
           NEW s1, s1 = remove_scheduled_transaction(s, row),
           NEW r, r = Run(c, s1, exec(c, s1), e, cut), NEW p, p = apply_onerror(row, c, s1, e, h, hcut),
           NEW o, o = push_scheduled_transaction(row, c, s, e, cut, h, hcut)
    PROVE  Ends(row, c, slot, s, s1, r, p, o)
BY DEF push_scheduled_transaction, Ends

\* What the other node makes of a receipt for the row.
Checks(row, slot, s, s1, receipt, b, v, q, k, out) ==
    /\ out = OutcomeOf(s, receipt, slot) /\ Checked(row, slot, b, v, s1, q, k)
    /\ Ends(row, v, slot, s, s1, q, k, out) /\ v.explicit /\ v.billed = b
    /\ \A t \in Input : receipt.id # Packed(t)

LEMMA ReceiptChecks ==
    ASSUME NEW done, NEW s, NEW slot \in Nat, Good(done, s, slot), NEW row \in s.gto,
           NEW s1, s1 = remove_scheduled_transaction(s, row),
           NEW status, NEW b \in Nat, NEW receipt, receipt = Receipt(row.trx_id, status, b)
    PROVE  \E v, q, k, out : Checks(row, slot, s, s1, receipt, b, v, q, k, out)
<1>1. receipt.id = row.trx_id /\ receipt.cpu = b
  BY Receipts
<1>2. PICK n \in Nat : row.trx_id = <<row.trx, n>> /\ row.trx \in Trx
  BY DEF Good, Ok, RowsOK, RowOK
<1>3. receipt.id[1] # "packed"
  BY <1>1, <1>2, DataAssumption
<1>4. \A t \in Input : receipt.id # Packed(t)
  <2>1. \A t : Packed(t)[1] = "packed"
    BY DEF Packed
  <2> QED
    BY <1>3, <2>1
<1>5. Rows(s, receipt.id) = {row}
  <2>1. \A x \in s.gto : x.trx_id = row.trx_id => x = row
    BY DEF Good, Ok, RowsOK
  <2> QED
    BY <1>1, <2>1 DEF Rows
<1>6. (CHOOSE x \in Rows(s, receipt.id) : TRUE) = row
  BY <1>5
<1>7. PICK v : v = RowContext(row, slot, TRUE, b)
  OBVIOUS
<1>8. v.now = slot /\ v.explicit /\ v.billed = b
  BY <1>7 DEF RowContext, Context
<1>9. PICK q, k : q = Run(v, s1, exec(v, s1), 0, None) /\ k = apply_onerror(row, v, s1, 0, 0, None)
  OBVIOUS
<1>10. PICK out : out = push_scheduled_transaction(row, v, s, 0, None, 0, None)
  OBVIOUS
<1>11. out = OutcomeOf(s, receipt, slot)
  BY <1>1, <1>3, <1>5, <1>6, <1>7, <1>10 DEF OutcomeOf
<1>12. Ends(row, v, slot, s, s1, q, k, out)
  BY <1>8, <1>9, <1>10, EndsIn
<1>13. Checked(row, slot, b, v, s1, q, k)
  BY <1>7, <1>9 DEF Checked
<1> QED
  BY <1>4, <1>8, <1>11, <1>12, <1>13 DEF Checks

\* How a row that has a receipt was retired by a node with a clock.
Retired(row, c, s, s1, r, p, status, b, o) ==
    \/ /\ status = "executed" /\ r.exc = None /\ b = r.billed
       /\ o = Outcome(None, r.s, <<Receipt(row.trx_id, status, b)>>)
    \/ /\ status = "soft_fail" /\ row.sender # None /\ r.exc # None /\ ~failure_is_subjective(r.exc)
       /\ p.exc = None /\ b = p.billed
       /\ o = Outcome(None, p.s, <<Receipt(row.trx_id, status, b)>>)
    \/ /\ status = "hard_fail" /\ row.sender = None /\ r.exc # None /\ ~scheduled_failure_is_subjective(r.exc)
       /\ b = HardFailCpu(c, s1, r.billed) /\ UsageAllowed(s1, r.bill_to, b)
       /\ o = Outcome(r.exc, add_transaction_usage(s1, r.bill_to, b), <<Receipt(row.trx_id, status, b)>>)
    \/ /\ status = "hard_fail" /\ row.sender # None /\ r.exc # None /\ ~failure_is_subjective(r.exc)
       /\ p.exc # None /\ ~scheduled_failure_is_subjective(p.exc)
       /\ b = HardFailCpu(c, s1, p.billed) /\ UsageAllowed(s1, r.bill_to, b)
       /\ o = Outcome(p.exc, add_transaction_usage(s1, r.bill_to, b), <<Receipt(row.trx_id, status, b)>>)

LEMMA RetiredBy ==
    ASSUME NEW row, NEW c, c.explicit = FALSE, NEW s, NEW s1, NEW r, NEW p, NEW o,
           o = Retire(row, c, s, s1, r, p), o.receipts # <<>>
    PROVE  \E status, b : Retired(row, c, s, s1, r, p, status, b, o)
<1>0. c.explicit \in BOOLEAN
  OBVIOUS
<1>1. CASE r.exc = None
  <2>1. o = Outcome(None, r.s, <<Receipt(row.trx_id, "executed", r.billed)>>)
    BY <1>1 DEF Retire
  <2>2. Retired(row, c, s, s1, r, p, "executed", r.billed, o)
    BY <1>1, <2>1 DEF Retired
  <2> QED
    BY <2>2
<1>2. CASE r.exc # None /\ (row.sender = None \/ failure_is_subjective(r.exc))
  <2>1. PICK b : b = HardFailCpu(c, s1, r.billed)
    OBVIOUS
  <2>2. o = GiveUp(row, c, s, s1, r.bill_to, b, r.exc)
    BY <1>2, <2>1 DEF Retire
  <2>3. GivenUp(row, c, s, s1, r.bill_to, b, r.exc, o)
    BY <1>0, <2>2, GivesUp
  <2>4. Retired(row, c, s, s1, r, p, "hard_fail", b, o)
    BY <1>2, <2>1, <2>3 DEF GivenUp, Retired
  <2> QED
    BY <2>4
<1>3. CASE r.exc # None /\ row.sender # None /\ ~failure_is_subjective(r.exc) /\ p.exc = None
  <2>1. o = Outcome(None, p.s, <<Receipt(row.trx_id, "soft_fail", p.billed)>>)
    BY <1>3 DEF Retire
  <2>2. Retired(row, c, s, s1, r, p, "soft_fail", p.billed, o)
    BY <1>3, <2>1 DEF Retired
  <2> QED
    BY <2>2
<1>4. CASE r.exc # None /\ row.sender # None /\ ~failure_is_subjective(r.exc) /\ p.exc # None
  <2>1. PICK b : b = HardFailCpu(c, s1, p.billed)
    OBVIOUS
  <2>2. o = GiveUp(row, c, s, s1, r.bill_to, b, p.exc)
    BY <1>4, <2>1 DEF Retire
  <2>3. GivenUp(row, c, s, s1, r.bill_to, b, p.exc, o)
    BY <1>0, <2>2, GivesUp
  <2>4. Retired(row, c, s, s1, r, p, "hard_fail", b, o)
    BY <1>4, <2>1, <2>3 DEF GivenUp, Retired
  <2> QED
    BY <2>4
<1> QED
  BY <1>1, <1>2, <1>3, <1>4

\* The other node gives up, too, for a reason that is not its own.
LEMMA GivesUpToo ==
    ASSUME NEW row, NEW v, v.explicit, NEW s, NEW s1, NEW bill_to, NEW b, NEW exc, ~failure_is_subjective(exc),
           UsageAllowed(s1, bill_to, b), NEW billed, billed = b
    PROVE  GiveUp(row, v, s, s1, bill_to, HardFailCpu(v, s1, billed), exc) =
               Outcome(exc, add_transaction_usage(s1, bill_to, b), <<Receipt(row.trx_id, "hard_fail", b)>>)
BY DEF GiveUp, HardFailCpu

\* The receipt of a row that was retired.
LEMMA ReplayRetired ==
    ASSUME Handled, NEW s, NEW row, NEW slot, NEW c, NEW s1, NEW e, NEW cut, NEW h, NEW hcut, NEW r, NEW p,
           Pushed(s, row, slot, c, s1, e, cut, h, hcut, r, p),
           NEW status, NEW b, NEW o, Retired(row, c, s, s1, r, p, status, b, o),
           NEW receipt, receipt = Receipt(row.trx_id, status, b),
           NEW v, NEW q, NEW k, NEW out, Checks(row, slot, s, s1, receipt, b, v, q, k, out),
           out = Retire(row, v, s, s1, q, k)
    PROVE  Accepted(s, slot, o, receipt, out)
<1>1. /\ out = OutcomeOf(s, receipt, slot) /\ Checked(row, slot, b, v, s1, q, k) /\ v.explicit
      /\ \A t \in Input : receipt.id # Packed(t)
  BY DEF Checks
<1>2. receipt.status = status
  BY Receipts
<1>3. CASE r.exc = None /\ b = r.billed /\ o = Outcome(None, r.s, <<receipt>>) /\ status = "executed"
  <2>1. Agree(r, q)
    BY <1>1, <1>3, CheckedRan
  <2>2. out = Outcome(None, r.s, <<receipt>>)
    BY <1>3, <2>1 DEF Agree, Retire
  <2> QED
    BY <1>1, <1>3, <2>2, Receipts DEF Accepted
<1>4. CASE /\ row.sender # None /\ r.exc # None /\ ~failure_is_subjective(r.exc) /\ status = "soft_fail"
           /\ p.exc = None /\ b = p.billed /\ o = Outcome(None, p.s, <<receipt>>)
  <2>1. q.exc # None /\ ~failure_is_subjective(q.exc) /\ Agree(p, k)
    BY <1>1, <1>4, CheckedHandled
  <2>2. out = Outcome(None, p.s, <<receipt>>)
    BY <1>4, <2>1 DEF Agree, Retire
  <2> QED
    BY <1>1, <1>4, <2>2, Receipts DEF Accepted
<1>5. CASE /\ status = "hard_fail" /\ row.sender = None /\ r.exc # None /\ ~scheduled_failure_is_subjective(r.exc)
           /\ b = HardFailCpu(c, s1, r.billed) /\ UsageAllowed(s1, r.bill_to, b)
           /\ o = Outcome(r.exc, add_transaction_usage(s1, r.bill_to, b), <<receipt>>)
  <2>1. q.exc = r.exc /\ q.bill_to = r.bill_to /\ q.billed = b
    BY <1>1, <1>5, CheckedFailed
  <2>2. ~failure_is_subjective(r.exc)
    BY <1>5 DEF scheduled_failure_is_subjective
  <2>3. out = GiveUp(row, v, s, s1, r.bill_to, HardFailCpu(v, s1, q.billed), r.exc)
    BY <1>5, <2>1 DEF Retire
  <2>4. out = Outcome(r.exc, add_transaction_usage(s1, r.bill_to, b), <<receipt>>)
    BY <1>1, <1>5, <2>1, <2>2, <2>3, GivesUpToo
  <2> QED
    BY <1>1, <1>2, <1>5, <2>4, Receipts DEF Accepted
<1>6. CASE /\ status = "hard_fail" /\ row.sender # None /\ r.exc # None /\ ~failure_is_subjective(r.exc)
           /\ p.exc # None /\ ~scheduled_failure_is_subjective(p.exc)
           /\ b = HardFailCpu(c, s1, p.billed) /\ UsageAllowed(s1, r.bill_to, b)
           /\ o = Outcome(p.exc, add_transaction_usage(s1, r.bill_to, b), <<receipt>>)
  <2>1. /\ q.exc # None /\ ~failure_is_subjective(q.exc) /\ q.bill_to = r.bill_to
        /\ k.exc = p.exc /\ k.billed = b
    BY <1>1, <1>6, CheckedTwice
  <2>2. ~failure_is_subjective(p.exc)
    BY <1>6 DEF scheduled_failure_is_subjective
  <2>3. out = GiveUp(row, v, s, s1, r.bill_to, HardFailCpu(v, s1, k.billed), p.exc)
    BY <1>6, <2>1 DEF Retire
  <2>4. out = Outcome(p.exc, add_transaction_usage(s1, r.bill_to, b), <<receipt>>)
    BY <1>1, <1>6, <2>1, <2>2, <2>3, GivesUpToo
  <2> QED
    BY <1>1, <1>2, <1>6, <2>4, Receipts DEF Accepted
<1> QED
  BY <1>3, <1>4, <1>5, <1>6 DEF Retired

\* The context of a row on a node with a clock.
Clocked(c, row, slot) == c = RowContext(row, slot, FALSE, 0)

\* The receipt of a row, whichever it is.
LEMMA ReplayRow ==
    ASSUME Handled, NEW done, NEW s, NEW slot \in Nat, Good(done, s, slot), Fine(s), NEW row \in s.gto,
           NEW c, Clocked(c, row, slot), NEW s1, s1 = remove_scheduled_transaction(s, row),
           NEW e \in Nat, NEW h \in Nat, NEW cut \in Cuts(c, s1, e), NEW hcut,
           row.sender # None => hcut \in Cuts(HandlerContext(row, c), s1, e + h),
           NEW o, o = push_scheduled_transaction(row, c, s, e, cut, h, hcut), o.receipts # <<>>
    PROVE  Replays(s, slot, o)
<1>1. KnownRow(row)
  BY Known
<1>2. UsageOK(s1)
  BY RemoveRam DEF Fine, UsageOK
<1>3. PICK r, p : r = Run(c, s1, exec(c, s1), e, cut) /\ p = apply_onerror(row, c, s1, e, h, hcut)
  OBVIOUS
<1>4. Pushed(s, row, slot, c, s1, e, cut, h, hcut, r, p)
  BY <1>1, <1>2, <1>3 DEF Pushed, Clocked
<1>5. c.now = slot /\ c.explicit = FALSE /\ c.billed = 0
  BY DEF Clocked, RowContext, Context
<1>6. Ends(row, c, slot, s, s1, r, p, o)
  BY <1>3, <1>5, EndsIn
<1>7. ~(row.delay_until > slot)
  <2> SUFFICES ASSUME row.delay_until > slot PROVE FALSE
    OBVIOUS
  <2>1. o = Outcome("not_ready", s, <<>>)
    BY <1>6 DEF Ends
  <2>2. o.receipts = <<>>
    BY <2>1 DEF Outcome
  <2> QED
    BY <2>2
<1>8. CASE row.expiration < slot
  <2>1. PICK receipt : receipt = Receipt(row.trx_id, "expired", 0)
    OBVIOUS
  <2>2. o = Outcome(None, s1, <<receipt>>)
    BY <1>5, <1>6, <1>7, <1>8, <2>1 DEF Ends
  <2>3. PICK v, q, k, out : Checks(row, slot, s, s1, receipt, 0, v, q, k, out)
    <3>1. 0 \in Nat
      OBVIOUS
    <3> QED
      BY <2>1, <3>1, ReceiptChecks
  <2>4. out = Outcome(None, s1, <<receipt>>)
    BY <1>7, <1>8, <2>1, <2>3 DEF Checks, Ends
  <2>5. o.receipts = <<receipt>> /\ o.s = s1 /\ out.receipts = <<receipt>> /\ out.s = s1 /\ out.exc = None
    BY <2>2, <2>4 DEF Outcome
  <2>6. out = OutcomeOf(s, receipt, slot)
    BY <2>3 DEF Checks
  <2>7. Accepted(s, slot, o, receipt, out)
    BY <2>5, <2>6 DEF Accepted
  <2> QED
    BY <2>7 DEF Replays
<1>9. CASE ~(row.expiration < slot)
  <2>1. o = Retire(row, c, s, s1, r, p)
    BY <1>6, <1>7, <1>9 DEF Ends
  <2>2. PICK status, b : Retired(row, c, s, s1, r, p, status, b, o)
    BY <1>5, <2>1, RetiredBy
  <2>3. PICK receipt : receipt = Receipt(row.trx_id, status, b)
    OBVIOUS
  <2>4. b \in Nat
    <3>1. IsRowContext(c, row, slot)
      BY RowContexts DEF Clocked
    <3>2. \E x, y : o = Outcome(x, y, <<receipt>>)
      BY <2>2, <2>3 DEF Retired
    <3>a. o.receipts = <<receipt>>
      BY <3>2 DEF Outcome
    <3>3. receipt.cpu \in Nat
      BY <1>1, <3>1, <3>a, RowBills
    <3> QED
      BY <2>3, <3>3, Receipts
  <2>5. PICK v, q, k, out : Checks(row, slot, s, s1, receipt, b, v, q, k, out)
    BY <2>3, <2>4, ReceiptChecks
  <2>6. out = Retire(row, v, s, s1, q, k)
    BY <1>7, <1>9, <2>5 DEF Checks, Ends
  <2>7. Accepted(s, slot, o, receipt, out)
    BY <1>4, <2>2, <2>3, <2>5, <2>6, ReplayRetired
  <2> QED
    BY <2>7 DEF Replays
<1> QED
  BY <1>8, <1>9

-----------------------------------------------------------------------------
\* Another node that applies receipts to s accepts them and has the state db.
Matches(s, receipts, slot, db) ==
    LET acc == ApplyReceipts(s, receipts, slot) IN acc.ok /\ acc.s = db

LEMMA MatchMore ==
    ASSUME NEW s, NEW old, Sequence(old), NEW slot, NEW db, Matches(s, old, slot, db),
           NEW o, Replays(db, slot, o)
    PROVE  Matches(s, old \o o.receipts, slot, o.s)
<1>1. PICK r, out : Accepted(db, slot, o, r, out)
  BY DEF Replays
<1>2. /\ o.receipts = <<r>> /\ out = OutcomeOf(db, r, slot) /\ out.s = o.s /\ out.receipts = <<r>>
      /\ out.exc = None \/ (r.status = "hard_fail" /\ \A t \in Input : r.id # Packed(t))
  BY <1>1 DEF Accepted
<1>3. PICK acc : acc = ApplyReceipts(s, old, slot) /\ acc.ok /\ acc.s = db
  BY DEF Matches
<1>4. PICK new : new = Append(old, r)
  OBVIOUS
<1>5. /\ Len(old) \in Nat /\ Len(new) = Len(old) + 1 /\ new[Len(old) + 1] = r
      /\ \A i \in 1 .. Len(old) : new[i] = old[i]
      /\ new = old \o o.receipts
  BY <1>2, <1>4, SequenceLen, SequenceAppend
<1>6. ApplyReceipts(s, new, slot) = ApplyReceipt(acc, r, slot)
  BY <1>3, <1>5, ApplyMore
<1>7. ApplyReceipt(acc, r, slot) = CheckReceipt(acc, r, out)
  BY <1>2, <1>3 DEF ApplyReceipt
<1>8. CheckReceipt(acc, r, out).ok /\ CheckReceipt(acc, r, out).s = o.s
  BY <1>2 DEF CheckReceipt
<1> QED
  BY <1>5, <1>6, <1>7, <1>8 DEF Matches

\* A receipt more in the pending block.
LEMMA AgreeAdds ==
    ASSUME BlocksOK, ValidatorsAgree, pending.mode # None, blocks' = blocks,
           pending'.slot = pending.slot, NEW o, pending'.receipts = pending.receipts \o o.receipts,
           pending'.db = o.s, Replays(pending.db, pending.slot, o)
    PROVE  ValidatorsAgree'
<1>1. Sequence(pending.receipts)
  BY DEF BlocksOK, PendingOK, Fits
<1>2. Matches(head.db, pending.receipts, pending.slot, pending.db)
  BY DEF ValidatorsAgree, Matches
<1>3. Matches(head.db, pending.receipts \o o.receipts, pending.slot, o.s)
  BY <1>1, <1>2, MatchMore
<1>4. head' = head
  BY DEF head
<1> QED
  BY <1>3, <1>4 DEF ValidatorsAgree, Matches

LEMMA AgreeSame ==
    ASSUME ValidatorsAgree, blocks' = blocks, pending'.mode = pending.mode,
           pending'.slot = pending.slot, pending'.receipts = pending.receipts, pending'.db = pending.db
    PROVE  ValidatorsAgree'
<1>1. head' = head
  BY DEF head
<1> QED
  BY <1>1 DEF ValidatorsAgree

LEMMA AgreeQuiet ==
    ASSUME BlocksOK, ValidatorsAgree, blocks' = blocks,
           \/ \E t : pending' = [pending EXCEPT !.todo = @ \ {t}]
           \/ pending' = [pending EXCEPT !.open = TRUE]
    PROVE  ValidatorsAgree'
<1>1. DOMAIN pending = DOMAIN NoPending
  BY DEF BlocksOK, PendingOK
<1>2. /\ pending'.mode = pending.mode /\ pending'.slot = pending.slot
      /\ pending'.receipts = pending.receipts /\ pending'.db = pending.db
  BY <1>1 DEF NoPending
<1> QED
  BY <1>2, AgreeSame

LEMMA AgreeNone ==
    ASSUME pending' = NoPending
    PROVE  ValidatorsAgree'
BY DEF ValidatorsAgree, NoPending

LEMMA AgreeStart ==
    ASSUME NEW mode, NEW slot, Start(mode, slot)
    PROVE  ValidatorsAgree'
<1>1. blocks' = blocks /\ pending'.receipts = <<>> /\ pending'.slot = slot /\ pending'.db = start_block(head.db, slot)
  BY DEF Start
<1>2. head' = head
  BY <1>1 DEF head
<1>3. PICK acc : acc = ApplyReceipts(head.db, <<>>, slot)
  OBVIOUS
<1>4. acc = Begun(head.db, slot)
  BY <1>3, ApplyNone
<1>5. acc.ok /\ acc.s = start_block(head.db, slot)
  BY <1>4 DEF Begun
<1> QED
  BY <1>1, <1>2, <1>3, <1>5 DEF ValidatorsAgree

LEMMA AgreeTook ==
    ASSUME BlocksOK, StateOK, ValidatorsAgree, pending.mode # None, NEW t \in Input, NEW e \in Nat, NEW cut,
           NEW o, o = push_transaction(InputContext(t, pending.slot, FALSE, 0), pending.db, e, cut),
           o.exc = None, Took(t, o)
    PROVE  ValidatorsAgree'
<1>1. DOMAIN pending = DOMAIN NoPending
  BY DEF BlocksOK, PendingOK
<1>2. /\ pending'.slot = pending.slot /\ pending'.db = o.s /\ blocks' = blocks
      /\ pending'.receipts = pending.receipts \o o.receipts
  BY <1>1 DEF Took, NoPending
<1>3. pending.slot \in Nat /\ Fine(pending.db)
  BY Numbers DEF StateOK, Typed
<1>4. Replays(pending.db, pending.slot, o)
  BY <1>3, ReplayInput
<1> QED
  BY <1>2, <1>4, AgreeAdds

\* What a row that is tried comes with.
Tries(row, c, s1, e, h, cut, hcut) ==
    /\ row \in Due /\ Clocked(c, row, pending.slot) /\ s1 = remove_scheduled_transaction(pending.db, row)
    /\ e \in Data[row.trx].cost /\ h \in Data[row.trx].handler_cost /\ cut \in Cuts(c, s1, e)
    /\ hcut \in IF row.sender = None THEN {None} ELSE Cuts(HandlerContext(row, c), s1, e + h)
    /\ Tried(row, push_scheduled_transaction(row, c, pending.db, e, cut, h, hcut))

LEMMA AgreeScheduled ==
    ASSUME Handled, BlocksOK, StateOK, ValidatorsAgree, RunScheduled
    PROVE  ValidatorsAgree'
<1>1. PICK row, c, s1, e, h, cut, hcut : Tries(row, c, s1, e, h, cut, hcut)
  BY Zenon DEF RunScheduled, Tries, Clocked
<1>2. /\ row \in Due /\ Clocked(c, row, pending.slot) /\ s1 = remove_scheduled_transaction(pending.db, row)
      /\ e \in Data[row.trx].cost /\ h \in Data[row.trx].handler_cost /\ cut \in Cuts(c, s1, e)
      /\ row.sender # None => hcut \in Cuts(HandlerContext(row, c), s1, e + h)
  BY <1>1 DEF Tries
<1>3. PICK o : o = push_scheduled_transaction(row, c, pending.db, e, cut, h, hcut)
  OBVIOUS
<1>4. Tried(row, o)
  BY <1>1, <1>3 DEF Tries
<1>5. pending.mode # None /\ DOMAIN pending = DOMAIN NoPending /\ PendingOK
  BY DEF RunScheduled, Preparing, BlocksOK, PendingOK
<1>6. /\ pending'.mode = pending.mode /\ pending'.slot = pending.slot /\ pending'.db = o.s
      /\ pending'.receipts = pending.receipts \o o.receipts /\ blocks' = blocks
  BY <1>4, <1>5 DEF Tried, NoPending
<1>7. PICK done : done = DoneIn(blocks, Len(blocks)) \cup Ids(pending.receipts)
  OBVIOUS
<1>8. pending.slot \in Nat /\ Good(done, pending.db, pending.slot) /\ Sequence(pending.receipts)
  BY <1>5, <1>7 DEF PendingOK, Fits
<1>9. row \in pending.db.gto /\ row.published < pending.slot /\ Fine(pending.db)
  BY <1>2 DEF Due, StateOK, Typed
<1>10. e \in Nat /\ h \in Nat
  <2>1. KnownRow(row)
    BY <1>8, <1>9, Known
  <2> QED
    BY <1>2, <2>1, CostNumbers DEF KnownRow
<1>11. CASE o.receipts = <<>>
  <2>1. c.trx = row.trx /\ c.now = pending.slot
    BY <1>2 DEF Clocked, RowContext, Context
  <2>2. RowResult(done, pending.db, row, pending.slot,
                  push_scheduled_transaction(row, c, pending.db, e, cut, h, hcut))
    BY <1>8, <1>9, <2>1, ScheduledGood, Zenon
  <2>3. RowResult(done, pending.db, row, pending.slot, o)
    BY <1>3, <2>2
  <2>4. o.s = pending.db
    BY <1>11, <2>3, OneOrNone DEF RowResult
  <2>5. PICK S : pending.receipts \in Seq(S)
    BY <1>8 DEF Sequence
  <2>6. pending.receipts \o <<>> = pending.receipts
    BY <2>5
  <2> QED
    BY <1>6, <1>11, <2>4, <2>6, AgreeSame
<1>12. CASE o.receipts # <<>>
  <2>1. Replays(pending.db, pending.slot, o)
    BY <1>2, <1>3, <1>8, <1>9, <1>10, <1>12, ReplayRow
  <2> QED
    BY <1>5, <1>6, <2>1, AgreeAdds
<1> QED
  BY <1>11, <1>12

LEMMA AgreeStep ==
    ASSUME Handled, BlocksOK, StateOK, ValidatorsAgree, [Next]_vars
    PROVE  ValidatorsAgree'
<1>1. CASE \E mode \in {"producing", "speculating"}, slot \in 1 .. MaxSlot : Start(mode, slot)
  BY <1>1, AgreeStart
<1>2. ASSUME NEW t \in Input, ExpireUnapplied(t) PROVE ValidatorsAgree'
  BY <1>2, AgreeQuiet DEF ExpireUnapplied, Drop
<1>3. ASSUME NEW t \in Input, SkipUnapplied(t) PROVE ValidatorsAgree'
  BY <1>3, AgreeQuiet DEF SkipUnapplied
<1>4. ASSUME NEW t \in Input, RetryUnapplied(t) PROVE ValidatorsAgree'
  <2>1. pending.mode # None /\ t \in Trx
    BY <1>4, DataAssumption DEF RetryUnapplied, Preparing
  <2>2. PICK e, cut :
          /\ e \in Data[t].cost
          /\ LET o == push_transaction(InputContext(t, pending.slot, FALSE, 0), pending.db, e, cut) IN
             \/ o.exc = None /\ Took(t, o)
             \/ o.exc # None /\ ~Exhausting(o.exc) /\ Drop(t)
             \/ /\ o.exc # None /\ Exhausting(o.exc)
                /\ pending' = [pending EXCEPT !.open = TRUE]
                /\ UNCHANGED <<blocks, unapplied, blacklist, owed>>
    BY <1>4, Zenon DEF RetryUnapplied
  <2>3. PICK o : o = push_transaction(InputContext(t, pending.slot, FALSE, 0), pending.db, e, cut)
    OBVIOUS
  <2>4. e \in Nat
    BY <2>1, <2>2, CostNumbers
  <2>5. CASE o.exc = None /\ Took(t, o)
    BY <2>1, <2>3, <2>4, <2>5, AgreeTook
  <2>6. CASE Drop(t)
    BY <2>6, AgreeQuiet DEF Drop
  <2>7. CASE pending' = [pending EXCEPT !.open = TRUE] /\ blocks' = blocks
    BY <2>7, AgreeQuiet
  <2> QED
    BY <2>2, <2>3, <2>5, <2>6, <2>7
<1>5. CASE RunScheduled
  BY <1>5, AgreeScheduled
<1>6. CASE Open
  BY <1>6, AgreeQuiet DEF Open
<1>7. ASSUME NEW t \in Input, on_incoming_transaction(t) PROVE ValidatorsAgree'
  <2>1. pending.mode # None /\ t \in Trx
    BY <1>7, DataAssumption DEF on_incoming_transaction
  <2>2. PICK e, cut :
          /\ e \in Data[t].cost
          /\ LET o == push_transaction(InputContext(t, pending.slot, FALSE, 0), pending.db, e, cut) IN
             \/ o.exc = None /\ Took(t, o)
             \/ UNCHANGED <<blocks, pending, blacklist>>
    BY <1>7, Zenon DEF on_incoming_transaction
  <2>3. PICK o : o = push_transaction(InputContext(t, pending.slot, FALSE, 0), pending.db, e, cut)
    OBVIOUS
  <2>4. e \in Nat
    BY <2>1, <2>2, CostNumbers
  <2>5. CASE o.exc = None /\ Took(t, o)
    BY <2>1, <2>3, <2>4, <2>5, AgreeTook
  <2>6. CASE UNCHANGED <<blocks, pending, blacklist>>
    BY <2>6, AgreeSame
  <2> QED
    BY <2>2, <2>3, <2>5, <2>6
<1>8. CASE produce_block
  BY <1>8, AgreeNone DEF produce_block
<1>9. CASE \E slot \in 1 .. MaxSlot : on_incoming_block(slot)
  BY <1>9, AgreeNone DEF on_incoming_block, apply_block
<1>10. CASE \E slot \in 1 .. MaxSlot - 1 : switch_forks(slot)
  BY <1>10, AgreeNone DEF switch_forks, apply_branch
<1>11. CASE UNCHANGED vars
  BY <1>11, AgreeSame DEF vars
<1> QED
  BY <1>1, <1>2, <1>3, <1>4, <1>5, <1>6, <1>7, <1>8, <1>9, <1>10, <1>11 DEF Next

\* Whatever the node has put into its pending block, another node that applies
\* the receipts to the same head accepts each and reaches the same state, for
\* every CPU time, limit and allowance, if the transactions whose error handler
\* fails always fail themselves (push_scheduled_transaction, apply_block).
THEOREM ValidatorsAlwaysAgree == Handled /\ Spec => []ValidatorsAgree
<1>1. Init => ValidatorsAgree
  BY DEF Init, NoPending, ValidatorsAgree
<1>2. Handled /\ BlocksOK /\ StateOK /\ ValidatorsAgree /\ [Next]_vars => ValidatorsAgree'
  BY AgreeStep
<1>3. Handled => Handled'
  BY DEF Handled
<1> QED
  BY <1>1, <1>2, <1>3, BlocksAlwaysOK, StateAlwaysOK, PTL DEF Spec
===============================================================================
