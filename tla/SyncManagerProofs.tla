-------------------------- MODULE SyncManagerProofs --------------------------
(***************************************************************************)
(* Proof that no block is skipped (SyncManager!NothingSkipped).            *)
(*                                                                         *)
(* The invariant says of each node that its state is well formed and that  *)
(* in lib_catchup it has the blocks below sync_next_expected_num, and of   *)
(* each message under way that the blocks it names are blocks of the       *)
(* chain: a block that is received is at most MaxHead and a request starts *)
(* at 1 or later.  There is one lemma per operator of the module: it keeps *)
(* the state good and, apart from the handler of a block, the head.        *)
(***************************************************************************)
EXTENDS SyncManager, Induction, FiniteSetTheorems, TLAPS

\* What travels: the blocks are those of the chain, a request starts at a block
\* unless it cancels.
Sendable ==
    {m \in Message : /\ m.type = "block" => m.num \in 1 .. MaxHead
                     /\ m.type = "sync_request" => m.start > 0 \/ m.end = 0}

Conn ==
    [phase : {"closed", "connecting", "open"}, syncing : BOOLEAN, sent : Nat, recv : Nat,
     fork : Nat, request : {NoRequest} \cup [last : Nat, end : Nat, idle : BOOLEAN], timer : BOOLEAN,
     out : Seq(Sendable), waiting : Seq(Sendable)]

NodeState(n) ==
    [head : Lag + 1 .. MaxHead, known : Nat, last : Nat, next : Nat \ {0},
     source : Peers(n) \cup {None}, state : {"lib_catchup", "head_catchup", "in_sync"},
     connections : SUBSET Peers(n), conn : [Peers(n) -> Conn]]

\* The node has every block below the one it expects.
Held(s) == s.state = "lib_catchup" => s.head >= s.next - 1

Good(n, s) == s \in NodeState(n) /\ Held(s)

IInv ==
    /\ node = [n \in Nodes |-> node[n]] /\ \A n \in Nodes : Good(n, node[n])
    /\ silent \subseteq Nodes /\ faults \in 0 .. MaxFaults

\* What most calls keep: the state is good and the head is where it was.
Same(n, s, u) == Good(n, u) /\ u.head = s.head

----------------------------------------------------------------------------
\* The smaller of two numbers.
LEMMA MinOfTwo ==
    ASSUME NEW a \in Nat, NEW b \in Nat
    PROVE  Min({a, b}) \in {a, b} /\ Min({a, b}) <= a /\ Min({a, b}) <= b
<1>1. \E x \in {a, b} : \A y \in {a, b} : x =< y
  OBVIOUS
<1> QED
  BY <1>1 DEF Min

\* The larger of two numbers.
LEMMA MaxOfTwo ==
    ASSUME NEW a \in Nat, NEW b \in Nat
    PROVE  Max({a, b}) \in {a, b}
<1>1. \E x \in {a, b} : \A y \in {a, b} : x >= y
  OBVIOUS
<1> QED
  BY <1>1 DEF Max

\* A set of numbers that is not empty has a smallest element.
LEMMA MinInSet ==
    ASSUME NEW S \in SUBSET Nat, S # {}
    PROVE  Min(S) \in S
<1>1. \E x \in S : \A y \in S : x =< y
  BY LeastNat
<1> QED
  BY <1>1 DEF Min

\* The last irreversible block of a node is one of its blocks, below its head.
LEMMA Lib ==
    ASSUME NEW n \in Nodes, NEW s, Good(n, s)
    PROVE  /\ last_irreversible_block_num(s) \in Nat \ {0}
           /\ last_irreversible_block_num(s) < s.head
BY BlockAssumption DEF Good, NodeState, last_irreversible_block_num

\* What a good state says of its parts.
LEMMA Typed ==
    ASSUME NEW n \in Nodes, NEW s, Good(n, s), NEW c \in Peers(n)
    PROVE  /\ s.conn[c] \in Conn /\ s.conn \in [Peers(n) -> Conn] /\ s.connections \subseteq Peers(n)
           /\ s.head \in Lag + 1 .. MaxHead /\ s.known \in Nat /\ s.last \in Nat /\ s.next \in Nat \ {0}
           /\ s.source \in Peers(n) \cup {None}
BY DEF Good, NodeState

\* What the type of a connection says of its parts.
LEMMA ConnTyped ==
    ASSUME NEW k \in Conn
    PROVE  /\ k.sent \in Nat /\ k.recv \in Nat /\ k.fork \in Nat
           /\ k.request \in {NoRequest} \cup [last : Nat, end : Nat, idle : BOOLEAN]
           /\ k.out \in Seq(Sendable) /\ k.waiting \in Seq(Sendable)
BY DEF Conn

\* All connections may be replaced by connections.
LEMMA SetConns ==
    ASSUME NEW n \in Nodes, NEW s, Good(n, s), NEW f \in [Peers(n) -> Conn]
    PROVE  Same(n, s, [s EXCEPT !.conn = f])
BY DEF Same, Good, NodeState, Held

\* A connection may be replaced by a connection.
LEMMA SetConn ==
    ASSUME NEW n \in Nodes, NEW s, Good(n, s), NEW c \in Peers(n), NEW k \in Conn
    PROVE  Same(n, s, [s EXCEPT !.conn[c] = k])
<1>1. [s.conn EXCEPT ![c] = k] \in [Peers(n) -> Conn]
  BY DEF Good, NodeState
<1> QED
  BY <1>1, SetConns

\* known, last, source and the states other than lib_catchup may be assigned freely.
LEMMA SetField ==
    ASSUME NEW n \in Nodes, NEW s, Good(n, s), NEW k \in Nat, NEW p \in Peers(n) \cup {None}
    PROVE  /\ Same(n, s, [s EXCEPT !.known = k])
           /\ Same(n, s, [s EXCEPT !.last = k])
           /\ Same(n, s, [s EXCEPT !.source = p])
           /\ Same(n, s, [s EXCEPT !.state = "in_sync"])
           /\ Same(n, s, [s EXCEPT !.state = "head_catchup"])
BY DEF Same, Good, NodeState, Held

\* sync_next_expected_num may be assigned a number whose predecessors the node has,
\* also together with a change to lib_catchup.
LEMMA SetNext ==
    ASSUME NEW n \in Nodes, NEW s, Good(n, s), NEW k \in Nat \ {0}, k - 1 <= s.head
    PROVE  /\ Same(n, s, [s EXCEPT !.next = k])
           /\ Same(n, s, [s EXCEPT !.state = "lib_catchup", !.next = k])
BY DEF Same, Good, NodeState, Held

\* One call after the other.
LEMMA SameTrans ==
    ASSUME NEW n, NEW s, NEW t, NEW u, Same(n, s, t), Same(n, t, u)
    PROVE  Same(n, s, u)
BY DEF Same

\* No change.
LEMMA SameSelf ==
    ASSUME NEW n, NEW s, Good(n, s)
    PROVE  Same(n, s, s)
BY DEF Same

\* A closed connection is a connection.
LEMMA ClosedTyped == Closed \in Conn
<1>1. <<>> \in Seq(Sendable)
  OBVIOUS
<1> QED
  BY <1>1 DEF Closed, Conn

\* The fields of a connection may be assigned values of their types.
LEMMA ConnFields ==
    ASSUME NEW k \in Conn
    PROVE  /\ \A x \in {"closed", "connecting", "open"} : [k EXCEPT !.phase = x] \in Conn
           /\ \A x \in BOOLEAN : [k EXCEPT !.syncing = x] \in Conn /\ [k EXCEPT !.timer = x] \in Conn
           /\ \A x \in Nat : /\ [k EXCEPT !.sent = x] \in Conn /\ [k EXCEPT !.recv = x] \in Conn
                             /\ [k EXCEPT !.fork = x] \in Conn
           /\ \A x \in {NoRequest} \cup [last : Nat, end : Nat, idle : BOOLEAN] : [k EXCEPT !.request = x] \in Conn
           /\ \A x \in Seq(Sendable) : [k EXCEPT !.out = x] \in Conn /\ [k EXCEPT !.waiting = x] \in Conn
BY DEF Conn

\* The same, for a connection of a node.
LEMMA SetConnFields ==
    ASSUME NEW n \in Nodes, NEW s, Good(n, s), NEW c \in Peers(n)
    PROVE  /\ \A x \in {"closed", "connecting", "open"} : Same(n, s, [s EXCEPT !.conn[c].phase = x])
           /\ \A x \in BOOLEAN : /\ Same(n, s, [s EXCEPT !.conn[c].syncing = x])
                                 /\ Same(n, s, [s EXCEPT !.conn[c].timer = x])
           /\ \A x \in Nat : /\ Same(n, s, [s EXCEPT !.conn[c].sent = x])
                             /\ Same(n, s, [s EXCEPT !.conn[c].recv = x])
                             /\ Same(n, s, [s EXCEPT !.conn[c].fork = x])
           /\ \A x \in {NoRequest} \cup [last : Nat, end : Nat, idle : BOOLEAN] :
                Same(n, s, [s EXCEPT !.conn[c].request = x])
           /\ \A x \in Seq(Sendable) : /\ Same(n, s, [s EXCEPT !.conn[c].out = x])
                                       /\ Same(n, s, [s EXCEPT !.conn[c].waiting = x])
<1>1. s.conn[c] \in Conn
  BY Typed
<1> QED
  BY <1>1, ConnFields, SetConn

\* enqueue puts a message into one of two queues; the write may wake a request.
LEMMA Enqueue ==
    ASSUME NEW n \in Nodes, NEW s, Good(n, s), NEW c \in Peers(n), NEW m \in Sendable
    PROVE  Same(n, s, enqueue(s, c, m))
<1>1. s.conn[c].out \in Seq(Sendable) /\ s.conn[c].waiting \in Seq(Sendable)
  BY Typed, ConnTyped
<1>2. Append(s.conn[c].out, m) \in Seq(Sendable) /\ Append(s.conn[c].waiting, m) \in Seq(Sendable)
  BY <1>1
<1>3. Same(n, s, [s EXCEPT !.conn[c].out = Append(@, m)])
  BY <1>2, SetConnFields
<1>4. Same(n, s, [s EXCEPT !.conn[c].waiting = Append(@, m)])
  BY <1>2, SetConnFields
<1>5. CASE s.conn[c].request # NoRequest
  <2> DEFINE r == [s.conn[c].request EXCEPT !.idle = FALSE]
             t == [s EXCEPT !.conn[c].out = Append(@, m)]
  <2>1. r \in [last : Nat, end : Nat, idle : BOOLEAN]
    BY <1>5, Typed, ConnTyped
  <2>2. Good(n, t)
    BY <1>3 DEF Same
  <2>3. Same(n, t, [t EXCEPT !.conn[c].request = r])
    BY <2>1, <2>2, SetConnFields
  <2>4. Same(n, s, [t EXCEPT !.conn[c].request = r])
    BY <1>3, <2>3, SameTrans
  <2>5. [t EXCEPT !.conn[c].request = r]
           = [s EXCEPT !.conn[c].out = Append(@, m), !.conn[c].request = r]
    OBVIOUS
  <2> QED
    BY <1>3, <1>4, <2>4, <2>5, SameSelf DEF enqueue
<1>6. CASE s.conn[c].request = NoRequest
  BY <1>3, <1>6, SameSelf DEF enqueue
<1> QED
  BY <1>5, <1>6

\* What the code sends is Sendable.
LEMMA Messages ==
    /\ \A b \in BOOLEAN, h, l \in Nat : [type |-> "handshake", first |-> b, head |-> h, lib |-> l] \in Sendable
    /\ \A l \in Nat : [type |-> "last_irr_catch_up", lib |-> l] \in Sendable
    /\ \A k \in Nat : [type |-> "catch_up", num |-> k] \in Sendable
    /\ \A k \in 1 .. MaxHead : [type |-> "block", num |-> k] \in Sendable
    /\ [type |-> "request_catch_up"] \in Sendable /\ [type |-> "request_none"] \in Sendable
    /\ \A f, l \in Nat : f > 0 \/ l = 0 => [type |-> "sync_request", start |-> f, end |-> l] \in Sendable
<1>1. \A b \in BOOLEAN, h, l \in Nat : [type |-> "handshake", first |-> b, head |-> h, lib |-> l] \in Sendable
  BY DEF Sendable, Message
<1>2. \A l \in Nat : [type |-> "last_irr_catch_up", lib |-> l] \in Sendable
  BY DEF Sendable, Message
<1>3. \A k \in Nat : [type |-> "catch_up", num |-> k] \in Sendable
  BY DEF Sendable, Message
<1>4. \A k \in 1 .. MaxHead : [type |-> "block", num |-> k] \in Sendable
  BY DEF Sendable, Message
<1>5. [type |-> "request_catch_up"] \in Sendable /\ [type |-> "request_none"] \in Sendable
  BY DEF Sendable, Message
<1>6. \A f, l \in Nat : f > 0 \/ l = 0 => [type |-> "sync_request", start |-> f, end |-> l] \in Sendable
  BY DEF Sendable, Message
<1> QED
  BY <1>1, <1>2, <1>3, <1>4, <1>5, <1>6

\* send_handshake keeps the state good and the head.
LEMMA SendHandshake ==
    ASSUME NEW n \in Nodes, NEW s, Good(n, s), NEW c \in Peers(n)
    PROVE  Same(n, s, send_handshake(s, c))
<1> DEFINE l == last_irreversible_block_num(s)
           t == [s EXCEPT !.conn[c].sent = l]
           m == [type |-> "handshake", first |-> s.conn[c].sent = 0, head |-> s.head, lib |-> l]
<1>1. l \in Nat /\ s.head \in Nat
  BY Lib, Typed, BlockAssumption
<1> HIDE DEF l
<1>2. Same(n, s, t)
  BY <1>1, SetConnFields
<1>3. (s.conn[c].sent = 0) \in BOOLEAN
  OBVIOUS
<1>4. m \in Sendable
  BY <1>1, <1>3, Messages
<1>5. send_handshake(s, c) = enqueue(t, c, m)
  BY DEF send_handshake, l
<1> HIDE DEF t, m
<1>6. Same(n, t, enqueue(t, c, m))
  BY <1>2, <1>4, Enqueue DEF Same
<1> QED
  BY <1>2, <1>5, <1>6, SameTrans

\* send_handshakes keeps the state good and the head.
LEMMA SendHandshakes ==
    ASSUME NEW n \in Nodes, NEW s, Good(n, s)
    PROVE  Same(n, s, send_handshakes(s))
<1>1. DOMAIN s.conn = Peers(n)
  BY DEF Good, NodeState
<1>2. ASSUME NEW c \in Peers(n) PROVE s.conn[c] \in Conn /\ send_handshake(s, c).conn[c] \in Conn
  <2>1. Good(n, send_handshake(s, c))
    BY SendHandshake DEF Same
  <2> QED
    BY <2>1, Typed
<1>3. [c \in DOMAIN s.conn |->
        IF c \in s.connections /\ current(s, c) THEN send_handshake(s, c).conn[c] ELSE s.conn[c]]
          \in [Peers(n) -> Conn]
  BY <1>1, <1>2
<1> QED
  BY <1>3, SetConns DEF send_handshakes

\* bcast_block sends the head, a block of the chain.
LEMMA BcastBlock ==
    ASSUME NEW n \in Nodes, NEW s, Good(n, s), NEW from
    PROVE  Same(n, s, bcast_block(s, from))
<1>1. DOMAIN s.conn = Peers(n)
  BY DEF Good, NodeState
<1>0. [type |-> "block", num |-> s.head] \in Sendable
  <2>1. s.head \in 1 .. MaxHead
    BY BlockAssumption DEF Good, NodeState
  <2> QED
    BY <2>1, Messages
<1>2. ASSUME NEW c \in Peers(n)
      PROVE  s.conn[c] \in Conn /\ enqueue(s, c, [type |-> "block", num |-> s.head]).conn[c] \in Conn
  <2>1. Good(n, enqueue(s, c, [type |-> "block", num |-> s.head]))
    BY <1>0, Enqueue DEF Same
  <2> QED
    BY <2>1, Typed
<1>3. [c \in DOMAIN s.conn |->
        IF c \in s.connections /\ c # from /\ current(s, c)
        THEN enqueue(s, c, [type |-> "block", num |-> s.head]).conn[c] ELSE s.conn[c]]
          \in [Peers(n) -> Conn]
  BY <1>1, <1>2
<1> QED
  BY <1>3, SetConns DEF bcast_block

\* flush_queues keeps the state good and the head.
LEMMA FlushQueues ==
    ASSUME NEW n \in Nodes, NEW s, Good(n, s), NEW c \in Peers(n)
    PROVE  Same(n, s, flush_queues(s, c))
<1>1. <<>> \in Seq(Sendable)
  OBVIOUS
<1> QED
  BY <1>1, SetConnFields DEF flush_queues

\* The request and both queues of a connection may be assigned at once.
LEMMA SetQueues ==
    ASSUME NEW n \in Nodes, NEW s, Good(n, s), NEW c \in Peers(n),
           NEW r \in {NoRequest} \cup [last : Nat, end : Nat, idle : BOOLEAN],
           NEW q \in Seq(Sendable), NEW w \in Seq(Sendable)
    PROVE  Same(n, s, [s EXCEPT !.conn[c] = [s.conn[c] EXCEPT !.request = r, !.out = q, !.waiting = w]])
<1>1. s.conn[c] \in Conn
  BY Typed
<1>2. [s.conn[c] EXCEPT !.request = r, !.out = q, !.waiting = w] \in Conn
  BY <1>1 DEF Conn
<1> QED
  BY <1>2, SetConn

\* enqueue_sync_block sends a block only if the node has it.
LEMMA EnqueueSyncBlock ==
    ASSUME NEW n \in Nodes, NEW s, Good(n, s), NEW c \in Peers(n)
    PROVE  Same(n, s, enqueue_sync_block(s, c))
<1>1. CASE s.conn[c].request = NoRequest
  BY <1>1, SameSelf DEF enqueue_sync_block
<1>2. CASE s.conn[c].request # NoRequest
  <2> DEFINE k    == s.conn[c]
             num  == k.request.last + 1
             done == num = k.request.end
             held == num <= s.head
             sent == IF held THEN <<[type |-> "block", num |-> num]>> ELSE <<>>
             req  == IF done THEN NoRequest
                     ELSE [last |-> num, end |-> k.request.end, idle |-> ~held /\ k.waiting = <<>>]
             q    == k.out \o sent \o (IF done \/ ~held THEN k.waiting ELSE <<>>)
             w    == IF done \/ ~held THEN <<>> ELSE k.waiting
  <2>1. k \in Conn /\ s.head \in Lag + 1 .. MaxHead
    BY Typed
  <2>2. k.request \in [last : Nat, end : Nat, idle : BOOLEAN] /\ k.out \in Seq(Sendable) /\ k.waiting \in Seq(Sendable)
    BY <1>2, <2>1, ConnTyped
  <2>3. num \in Nat \ {0} /\ req \in {NoRequest} \cup [last : Nat, end : Nat, idle : BOOLEAN]
    BY <2>2
  <2>4. sent \in Seq(Sendable)
    <3>1. CASE num <= s.head
      <4>1. num \in 1 .. MaxHead
        BY <2>1, <2>3, <3>1, BlockAssumption
      <4>2. [type |-> "block", num |-> num] \in Sendable
        BY <4>1, Messages
      <4> QED
        BY <3>1, <4>2
    <3>2. CASE ~(num <= s.head)
      BY <3>2
    <3> QED
      BY <3>1, <3>2
  <2>5. q \in Seq(Sendable) /\ w \in Seq(Sendable)
    <3> HIDE DEF sent, done, held
    <3>1. k.out \o sent \in Seq(Sendable)
      BY <2>2, <2>4
    <3>2. (IF done \/ ~held THEN k.waiting ELSE <<>>) \in Seq(Sendable)
      BY <2>2
    <3> QED
      BY <2>2, <3>1, <3>2
  <2>6. enqueue_sync_block(s, c)
          = [s EXCEPT !.conn[c] = [k EXCEPT !.request = req, !.out = q, !.waiting = w]]
    BY <1>2 DEF enqueue_sync_block
  <2>7. Same(n, s, [s EXCEPT !.conn[c] = [s.conn[c] EXCEPT !.request = req, !.out = q, !.waiting = w]])
    <3> HIDE DEF k, num, done, held, sent, req, q, w
    <3> QED
      BY <2>3, <2>5, SetQueues
  <2> QED
    BY <2>6, <2>7
<1> QED
  BY <1>1, <1>2

\* request_sync_blocks keeps the state good and the head.
LEMMA RequestSyncBlocks ==
    ASSUME NEW n \in Nodes, NEW s, Good(n, s), NEW c \in Peers(n), NEW f \in Nat \ {0}, NEW l \in Nat
    PROVE  Same(n, s, request_sync_blocks(s, c, f, l))
<1> DEFINE m == [type |-> "sync_request", start |-> f, end |-> l]
           t == enqueue(s, c, m)
<1>1. m \in Sendable
  BY Messages
<1>2. Same(n, s, t)
  BY <1>1, Enqueue
<1>3. request_sync_blocks(s, c, f, l) = [t EXCEPT !.conn[c].timer = TRUE]
  BY DEF request_sync_blocks
<1> HIDE DEF t
<1>5. Good(n, t)
  BY <1>2 DEF Same
<1>4. Same(n, t, [t EXCEPT !.conn[c].timer = TRUE])
  BY <1>5, SetConnFields
<1> QED
  BY <1>2, <1>3, <1>4, SameTrans

\* cancel_sync keeps the state good and the head.
LEMMA CancelSync ==
    ASSUME NEW n \in Nodes, NEW s, Good(n, s), NEW c \in Peers(n)
    PROVE  Same(n, s, cancel_sync(s, c))
<1> DEFINE m == [type |-> "sync_request", start |-> 0, end |-> 0]
           t == [s EXCEPT !.conn[c].timer = FALSE]
           u == flush_queues(t, c)
<1>1. m \in Sendable
  BY Messages
<1>2. Same(n, s, t)
  BY SetConnFields
<1>3. cancel_sync(s, c) = enqueue(u, c, m)
  BY DEF cancel_sync
<1> HIDE DEF t
<1>4. Same(n, t, u)
  BY <1>2, FlushQueues DEF Same
<1> HIDE DEF u, m
<1>5. Same(n, u, enqueue(u, c, m))
  BY <1>1, <1>4, Enqueue DEF Same
<1> QED
  BY <1>2, <1>3, <1>4, <1>5, SameTrans

----------------------------------------------------------------------------
\* The connection asked next is one of the node, or none.
LEMMA NextSource ==
    ASSUME NEW n \in Nodes, NEW s, Good(n, s), NEW c \in Peers(n) \cup {None}
    PROVE  next_source(s, c) \in Peers(n) \cup {None}
<1> DEFINE usable == {p \in s.connections : current(s, p)}
           old    == IF s.source \in s.connections THEN s.source ELSE None
           after  == {p \in usable : p > old}
<1>1. s.connections \subseteq Peers(n) /\ s.source \in Peers(n) \cup {None}
  BY DEF Good, NodeState
<1>2. Peers(n) \subseteq Nat
  BY NetworkAssumption DEF Peers
<1>3. Cardinality(s.connections) = 1 => (CHOOSE p \in s.connections : TRUE) \in s.connections
  <2>1. Cardinality(s.connections) = 1 => s.connections # {}
    BY FS_EmptySet
  <2> QED
    BY <2>1
<1>4. after # {} => Min(after) \in Peers(n)
  <2>1. after \in SUBSET Nat /\ after \subseteq Peers(n)
    BY <1>1, <1>2
  <2> QED
    BY <2>1, MinInSet
<1>5. usable # {} => Min(usable) \in Peers(n)
  <2>1. usable \in SUBSET Nat /\ usable \subseteq Peers(n)
    BY <1>1, <1>2
  <2> QED
    BY <2>1, MinInSet
<1>6. old \in Peers(n) \cup {None}
  BY <1>1
<1>7. (IF after # {} THEN Min(after) ELSE IF usable # {} THEN Min(usable) ELSE old)
        \in Peers(n) \cup {None}
  <2> HIDE DEF after, usable, old
  <2> QED
    BY <1>4, <1>5, <1>6
<1>8. (IF Cardinality(s.connections) = 1
       THEN IF s.source = None THEN CHOOSE p \in s.connections : TRUE ELSE s.source
       ELSE IF after # {} THEN Min(after) ELSE IF usable # {} THEN Min(usable) ELSE old)
         \in Peers(n) \cup {None}
  <2> HIDE DEF after, usable, old
  <2> QED
    BY <1>1, <1>3, <1>7
<1>9. next_source(s, c)
        = IF c # None /\ current(s, c) THEN c
          ELSE IF Cardinality(s.connections) = 1
               THEN IF s.source = None THEN CHOOSE p \in s.connections : TRUE ELSE s.source
               ELSE IF after # {} THEN Min(after) ELSE IF usable # {} THEN Min(usable) ELSE old
  BY DEF next_source
<1> HIDE DEF after, usable, old
<1> QED
  BY <1>8, <1>9

\* request_chunk does not touch sync_next_expected_num.
LEMMA RequestChunk ==
    ASSUME NEW n \in Nodes, NEW s, Good(n, s)
    PROVE  Same(n, s, request_chunk(s))
<1> DEFINE l == last_irreversible_block_num(s)
           final == Min({s.next + Span - 1, s.known})
           t == [s EXCEPT !.last = final]
<1>0. s.source \in Peers(n) \cup {None} /\ s.next \in Nat \ {0} /\ s.known \in Nat
  BY DEF Good, NodeState
<1>1. CASE s.source = None \/ ~current(s, s.source)
  <2>1. l \in Nat
    BY Lib
  <2>2. request_chunk(s) = [s EXCEPT !.known = l, !.last = 0, !.state = "in_sync"]
    BY <1>1 DEF request_chunk
  <2> HIDE DEF l
  <2>3. Same(n, s, [s EXCEPT !.known = l, !.last = 0, !.state = "in_sync"])
    BY <2>1 DEF Same, Good, NodeState, Held
  <2> QED
    BY <2>2, <2>3
<1>2. CASE ~(s.source = None \/ ~current(s, s.source))
  <2>1. final \in Nat
    <3>1. s.next + Span - 1 \in Nat
      BY <1>0, BlockAssumption
    <3> QED
      BY <1>0, <3>1, MinOfTwo
  <2>2. request_chunk(s) = s \/ request_chunk(s) = request_sync_blocks(t, s.source, s.next, final)
    BY <1>2 DEF request_chunk
  <2> HIDE DEF final
  <2>3. Same(n, s, t)
    BY <2>1, SetField
  <2> HIDE DEF t
  <2>4. Good(n, t)
    BY <2>3 DEF Same
  <2>7. s.source \in Peers(n)
    BY <1>0, <1>2
  <2>5. Same(n, t, request_sync_blocks(t, s.source, s.next, final))
    BY <1>0, <2>1, <2>4, <2>7, RequestSyncBlocks
  <2>6. Same(n, s, request_sync_blocks(t, s.source, s.next, final))
    BY <2>3, <2>5, SameTrans
  <2> QED
    BY <2>2, <2>6, SameSelf
<1> QED
  BY <1>1, <1>2

\* request_next_chunk keeps the state good and the head.
LEMMA RequestNextChunk ==
    ASSUME NEW n \in Nodes, NEW s, Good(n, s), NEW c \in Peers(n) \cup {None}
    PROVE  Same(n, s, request_next_chunk(s, c))
<1> DEFINE t == [s EXCEPT !.source = next_source(s, c)]
<1>1. Same(n, s, t)
  BY NextSource, SetField
<1>2. request_next_chunk(s, c) = s \/ request_next_chunk(s, c) = request_chunk(t)
  BY DEF request_next_chunk
<1> HIDE DEF t
<1>3. Good(n, t)
  BY <1>1 DEF Same
<1>4. Same(n, t, request_chunk(t))
  BY <1>3, RequestChunk
<1>5. Same(n, s, request_chunk(t))
  BY <1>1, <1>4, SameTrans
<1> QED
  BY <1>2, <1>5, SameSelf

\* reset_lib_num keeps the state good and the head.
LEMMA ResetLibNum ==
    ASSUME NEW n \in Nodes, NEW s, Good(n, s), NEW c \in Peers(n)
    PROVE  Same(n, s, reset_lib_num(s, c))
<1>1. Same(n, s, reset_source(s))
  BY SetField, SameSelf DEF reset_source
<1>2. ASSUME NEW t, Good(n, t) PROVE Same(n, t, reset_known(t, c))
  <2> DEFINE u == [t EXCEPT !.last = 0]
  <2>1. t.known \in Nat /\ t.conn[c].recv \in Nat
    BY <1>2, Typed, ConnTyped
  <2>2. Max({t.known, t.conn[c].recv}) \in Nat
    BY <2>1, MaxOfTwo
  <2>3. Same(n, t, [t EXCEPT !.known = Max({@, t.conn[c].recv})])
    BY <1>2, <2>2, SetField
  <2>4. Same(n, t, u)
    BY <1>2, SetField
  <2>5. \/ reset_known(t, c) = t
        \/ reset_known(t, c) = [t EXCEPT !.known = Max({@, t.conn[c].recv})]
        \/ reset_known(t, c) = request_next_chunk(u, None)
    BY DEF reset_known
  <2> HIDE DEF u
  <2>6. Good(n, u)
    BY <2>4 DEF Same
  <2>7. Same(n, u, request_next_chunk(u, None))
    BY <2>6, RequestNextChunk
  <2>8. Same(n, t, request_next_chunk(u, None))
    BY <2>4, <2>7, SameTrans
  <2>9. Same(n, t, t)
    BY <1>2, SameSelf
  <2> QED
    BY <2>3, <2>5, <2>8, <2>9
<1>3. Good(n, reset_source(s))
  BY <1>1 DEF Same
<1>4. Same(n, reset_source(s), reset_known(reset_source(s), c))
  BY <1>2, <1>3
<1> QED
  BY <1>1, <1>4, SameTrans DEF reset_lib_num

\* close keeps the state good and the head.
LEMMA Close ==
    ASSUME NEW n \in Nodes, NEW s, Good(n, s), NEW c \in Peers(n)
    PROVE  Same(n, s, close(s, c))
<1> DEFINE k == [Closed EXCEPT !.fork = s.conn[c].fork, !.out = s.conn[c].out]
           t == [s EXCEPT !.conn[c] = k]
<1>1. s.conn[c].fork \in Nat /\ s.conn[c].out \in Seq(Sendable)
  BY Typed, ConnTyped
<1>2. k \in Conn
  <2>1. [Closed EXCEPT !.fork = s.conn[c].fork] \in Conn
    BY <1>1, ClosedTyped, ConnFields
  <2>2. [[Closed EXCEPT !.fork = s.conn[c].fork] EXCEPT !.out = s.conn[c].out] \in Conn
    BY <1>1, <2>1, ConnFields
  <2> QED
    BY <2>2
<1>3. Same(n, s, t)
  BY <1>2, SetConn
<1>4. close(s, c) = reset_lib_num(t, c)
  BY DEF close
<1> HIDE DEF t
<1>5. Good(n, t)
  BY <1>3 DEF Same
<1>6. Same(n, t, reset_lib_num(t, c))
  BY <1>5, ResetLibNum
<1> QED
  BY <1>3, <1>4, <1>6, SameTrans

\* start_sync expects the block after the last irreversible one, which is below the head.
LEMMA StartSync ==
    ASSUME NEW n \in Nodes, NEW s, Good(n, s), NEW c \in Peers(n), NEW target \in Nat
    PROVE  Same(n, s, start_sync(s, c, target))
<1> DEFINE t == [s EXCEPT !.known = Max({@, target})]
<1>1. Same(n, s, t)
  <2>1. s.known \in Nat
    BY DEF Good, NodeState
  <2>2. Max({s.known, target}) \in Nat
    BY <2>1, MaxOfTwo
  <2> QED
    BY <2>2, SetField
<1>2. start_sync(s, c, target) = t \/ start_sync(s, c, target) = request_next_chunk(begin_catchup(t), c)
  BY DEF start_sync, continue_sync
<1> HIDE DEF t
<1>3. Good(n, t)
  BY <1>1 DEF Same
<1>4. Same(n, t, begin_catchup(t))
  <2> DEFINE l == last_irreversible_block_num(t)
  <2>1. l + 1 \in Nat \ {0} /\ (l + 1) - 1 <= t.head
    <3>1. l \in Nat \ {0} /\ l < t.head
      BY <1>3, Lib
    <3>2. t.head \in Nat
      BY <1>3, BlockAssumption DEF Good, NodeState
    <3> HIDE DEF l
    <3> QED
      BY <3>1, <3>2
  <2>2. begin_catchup(t) = t \/ begin_catchup(t) = [t EXCEPT !.state = "lib_catchup", !.next = l + 1]
    BY DEF begin_catchup
  <2> HIDE DEF l
  <2>3. Same(n, t, [t EXCEPT !.state = "lib_catchup", !.next = l + 1])
    BY <1>3, <2>1, SetNext
  <2>4. Same(n, t, t)
    BY <1>3, SameSelf
  <2> QED
    BY <2>2, <2>3, <2>4
<1>5. Good(n, begin_catchup(t))
  BY <1>4 DEF Same
<1>6. Same(n, begin_catchup(t), request_next_chunk(begin_catchup(t), c))
  BY <1>5, RequestNextChunk
<1> QED
  BY <1>1, <1>2, <1>4, <1>6, SameTrans

\* reassign_fetch keeps the state good and the head.
LEMMA ReassignFetch ==
    ASSUME NEW n \in Nodes, NEW s, Good(n, s), NEW c \in Peers(n)
    PROVE  Same(n, s, reassign_fetch(s, c))
<1> DEFINE t == cancel_sync(s, c)
           u == [t EXCEPT !.last = 0]
<1>1. reassign_fetch(s, c) = s \/ reassign_fetch(s, c) = request_next_chunk(u, None)
  BY DEF reassign_fetch
<1>2. Same(n, s, t)
  BY CancelSync
<1> HIDE DEF t
<1>3. Good(n, t)
  BY <1>2 DEF Same
<1>4. Same(n, t, u)
  BY <1>3, SetField
<1> HIDE DEF u
<1>5. Good(n, u)
  BY <1>4 DEF Same
<1>6. Same(n, u, request_next_chunk(u, None))
  BY <1>5, RequestNextChunk
<1>7. Same(n, s, request_next_chunk(u, None))
  BY <1>2, <1>4, <1>6, SameTrans
<1> QED
  BY <1>1, <1>7, SameSelf

\* verify_catchup keeps the state good and the head.
LEMMA VerifyCatchup ==
    ASSUME NEW n \in Nodes, NEW s, Good(n, s), NEW c \in Peers(n), NEW num \in Nat
    PROVE  Same(n, s, verify_catchup(s, c, num))
<1> DEFINE none == [type |-> "request_none"]
           wish == [type |-> "request_catch_up"]
           t0   == [s EXCEPT !.conn[c].fork = 0]
           t1   == [s EXCEPT !.conn[c].fork = num]
           t2   == [t1 EXCEPT !.state = "head_catchup"]
<1>1. \/ verify_catchup(s, c, num) = enqueue(t0, c, none)
      \/ verify_catchup(s, c, num) = t1
      \/ verify_catchup(s, c, num) = enqueue(t2, c, wish)
  BY DEF verify_catchup
<1>2. Same(n, s, t0) /\ Same(n, s, t1)
  BY SetConnFields
<1>3. none \in Sendable /\ wish \in Sendable
  BY Messages
<1> HIDE DEF t0, t1, none, wish
<1>4. Good(n, t0) /\ Good(n, t1)
  BY <1>2 DEF Same
<1>5. Same(n, t1, t2)
  BY <1>4, SetField
<1> HIDE DEF t2
<1>6. Good(n, t2)
  BY <1>5 DEF Same
<1>7. Same(n, t0, enqueue(t0, c, none)) /\ Same(n, t2, enqueue(t2, c, wish))
  BY <1>3, <1>4, <1>6, Enqueue
<1>8. Same(n, s, enqueue(t0, c, none)) /\ Same(n, s, enqueue(t2, c, wish))
  BY <1>2, <1>5, <1>7, SameTrans
<1> QED
  BY <1>1, <1>2, <1>8

\* The sync checks of a handshake keep the state good and the head.
LEMMA SyncCheck ==
    ASSUME NEW n \in Nodes, NEW s, Good(n, s), NEW c \in Peers(n), NEW m, m.head \in Nat, m.lib \in Nat
    PROVE  Same(n, s, sync_check(s, c, m))
<1> DEFINE m1 == [type |-> "last_irr_catch_up", lib |-> last_irreversible_block_num(s)]
           m2 == [type |-> "catch_up", num |-> s.head]
           t1 == enqueue(s, c, m1)
           t2 == enqueue(s, c, m2)
<1>1. \/ sync_check(s, c, m) = s
      \/ sync_check(s, c, m) = [t1 EXCEPT !.conn[c].syncing = TRUE]
      \/ sync_check(s, c, m) = verify_catchup(s, c, m.head)
      \/ sync_check(s, c, m) = [t2 EXCEPT !.conn[c].syncing = TRUE]
  BY DEF sync_check
<1>2. m1 \in Sendable /\ m2 \in Sendable
  <2>1. last_irreversible_block_num(s) \in Nat /\ s.head \in Nat
    BY Lib, Typed, BlockAssumption
  <2> QED
    BY <2>1, Messages
<1> HIDE DEF m1, m2
<1>3. Same(n, s, t1) /\ Same(n, s, t2)
  BY <1>2, Enqueue
<1> HIDE DEF t1, t2
<1>4. Good(n, t1) /\ Good(n, t2)
  BY <1>3 DEF Same
<1>5. Same(n, t1, [t1 EXCEPT !.conn[c].syncing = TRUE]) /\ Same(n, t2, [t2 EXCEPT !.conn[c].syncing = TRUE])
  BY <1>4, SetConnFields
<1>6. /\ Same(n, s, [t1 EXCEPT !.conn[c].syncing = TRUE])
      /\ Same(n, s, [t2 EXCEPT !.conn[c].syncing = TRUE])
  BY <1>3, <1>5, SameTrans
<1>7. Same(n, s, verify_catchup(s, c, m.head)) /\ Same(n, s, s)
  BY VerifyCatchup, SameSelf
<1> QED
  BY <1>1, <1>6, <1>7

\* recv_handshake keeps the state good and the head.
LEMMA RecvHandshake ==
    ASSUME NEW n \in Nodes, NEW s, Good(n, s), NEW c \in Peers(n), NEW m, m.head \in Nat, m.lib \in Nat
    PROVE  Same(n, s, recv_handshake(s, c, m))
<1> DEFINE t == reset_lib_num(s, c)
           u == [t EXCEPT !.conn[c].syncing = FALSE]
<1>1. Same(n, s, t)
  BY ResetLibNum
<1>2. recv_handshake(s, c, m) = sync_check(u, c, m)
  BY DEF recv_handshake
<1> HIDE DEF t
<1>3. Good(n, t)
  BY <1>1 DEF Same
<1>4. Same(n, t, u)
  BY <1>3, SetConnFields
<1> HIDE DEF u
<1>5. Good(n, u)
  BY <1>4 DEF Same
<1>6. Same(n, u, sync_check(u, c, m))
  BY <1>5, SyncCheck
<1> QED
  BY <1>1, <1>2, <1>4, <1>6, SameTrans

\* rejected_block keeps the state good and the head.
LEMMA RejectedBlock ==
    ASSUME NEW n \in Nodes, NEW s, Good(n, s), NEW c \in Peers(n)
    PROVE  Same(n, s, rejected_block(s, c))
<1> DEFINE t1 == [s EXCEPT !.last = 0]
           t  == [t1 EXCEPT !.source = None]
           u  == close(t, c)
           v  == [u EXCEPT !.state = "in_sync"]
<1>1. rejected_block(s, c) = s \/ rejected_block(s, c) = send_handshakes(v)
  BY DEF rejected_block, set_state
<1>2. Same(n, s, t1)
  BY SetField
<1> HIDE DEF t1
<1>3. Good(n, t1)
  BY <1>2 DEF Same
<1>4. Same(n, t1, t)
  BY <1>3, SetField
<1> HIDE DEF t
<1>5. Good(n, t)
  BY <1>4 DEF Same
<1>6. Same(n, t, u)
  BY <1>5, Close
<1> HIDE DEF u
<1>7. Good(n, u)
  BY <1>6 DEF Same
<1>8. Same(n, u, v)
  BY <1>7, SetField
<1> HIDE DEF v
<1>9. Good(n, v)
  BY <1>8 DEF Same
<1>10. Same(n, v, send_handshakes(v))
  BY <1>9, SendHandshakes
<1>11. Same(n, s, send_handshakes(v))
  BY <1>2, <1>4, <1>6, <1>8, <1>10, SameTrans
<1> QED
  BY <1>1, <1>11, SameSelf

\* recv_block in head_catchup keeps the state good and the head.
LEMMA RecvHeadBlock ==
    ASSUME NEW n \in Nodes, NEW s, Good(n, s), NEW c \in Peers(n), NEW num \in Nat
    PROVE  Same(n, s, recv_head_block(s, c, num))
<1> DEFINE t == [s EXCEPT !.source = None]
<1>1. PICK ahead, f : /\ f \in {0, s.conn[c].fork}
                      /\ recv_head_block(s, c, num)
                           = [s EXCEPT !.source = None,
                                       !.state = IF ahead = {} THEN "in_sync" ELSE "head_catchup",
                                       !.conn[c].fork = f]
  BY DEF recv_head_block
<1>2. PICK st \in {"in_sync", "head_catchup"} :
        recv_head_block(s, c, num) = [s EXCEPT !.source = None, !.state = st, !.conn[c].fork = f]
  BY <1>1
<1> DEFINE u == [t EXCEPT !.state = st]
<1>3. f \in Nat
  BY <1>1, Typed, ConnTyped
<1>4. recv_head_block(s, c, num) = [u EXCEPT !.conn[c].fork = f]
  BY <1>2
<1>5. Same(n, s, t)
  BY SetField
<1> HIDE DEF t
<1>6. Good(n, t)
  BY <1>5 DEF Same
<1>7. Same(n, t, u)
  BY <1>2, <1>6, SetField
<1> HIDE DEF u
<1>8. Good(n, u)
  BY <1>7 DEF Same
<1>9. Same(n, u, [u EXCEPT !.conn[c].fork = f])
  BY <1>3, <1>8, SetConnFields
<1> QED
  BY <1>4, <1>5, <1>7, <1>9, SameTrans

\* recv_block in lib_catchup, the number expected being counted, keeps the state good.
LEMMA RecvLibBlock ==
    ASSUME NEW n \in Nodes, NEW s, Good(n, s), NEW c \in Peers(n), NEW num \in Nat
    PROVE  Same(n, s, recv_lib_block(s, c, num))
<1> DEFINE t == [s EXCEPT !.state = "in_sync"]
<1>1. \/ recv_lib_block(s, c, num) = send_handshakes(t)
      \/ recv_lib_block(s, c, num) = request_next_chunk(s, None)
      \/ recv_lib_block(s, c, num) = [s EXCEPT !.conn[c].timer = TRUE]
  BY DEF recv_lib_block, set_state
<1>2. Same(n, s, t)
  BY SetField
<1> HIDE DEF t
<1>3. Good(n, t)
  BY <1>2 DEF Same
<1>4. Same(n, t, send_handshakes(t))
  BY <1>3, SendHandshakes
<1>5. Same(n, s, send_handshakes(t))
  BY <1>2, <1>4, SameTrans
<1>6. Same(n, s, request_next_chunk(s, None))
  BY RequestNextChunk
<1>7. Same(n, s, [s EXCEPT !.conn[c].timer = TRUE])
  BY SetConnFields
<1> QED
  BY <1>1, <1>5, <1>6, <1>7

\* The block received is one the controller has accepted.
LEMMA RecvBlock ==
    ASSUME NEW n \in Nodes, NEW s, Good(n, s), NEW c \in Peers(n), NEW num \in Nat, num <= s.head
    PROVE  Same(n, s, recv_block(s, c, num))
<1> DEFINE t == [s EXCEPT !.next = num + 1]
<1>1. \/ recv_block(s, c, num) = close(s, c)
      \/ recv_block(s, c, num) = recv_lib_block(t, c, num)
      \/ recv_block(s, c, num) = recv_head_block(s, c, num)
      \/ recv_block(s, c, num) = s
  BY DEF recv_block
<1>2. Same(n, s, t)
  <2>1. num + 1 \in Nat \ {0} /\ (num + 1) - 1 <= s.head
    OBVIOUS
  <2> QED
    BY <2>1, SetNext
<1> HIDE DEF t
<1>3. Good(n, t)
  BY <1>2 DEF Same
<1>4. Same(n, t, recv_lib_block(t, c, num))
  BY <1>3, RecvLibBlock
<1>5. Same(n, s, recv_lib_block(t, c, num))
  BY <1>2, <1>4, SameTrans
<1>6. Same(n, s, close(s, c)) /\ Same(n, s, recv_head_block(s, c, num)) /\ Same(n, s, s)
  BY Close, RecvHeadBlock, SameSelf
<1> QED
  BY <1>1, <1>5, <1>6

----------------------------------------------------------------------------
\* A handshake is handled.
LEMMA HandleHandshake ==
    ASSUME NEW n \in Nodes, NEW s, Good(n, s), NEW c \in Peers(n), NEW m, m.head \in Nat, m.lib \in Nat
    PROVE  Good(n, handle_handshake(s, c, m))
<1> DEFINE t == IF m.first /\ s.conn[c].sent = 0 THEN send_handshake(s, c) ELSE s
           u == [t EXCEPT !.conn[c].phase = "open"]
           v == [u EXCEPT !.conn[c].recv = m.lib]
<1>1. handle_handshake(s, c, m) = recv_handshake(v, c, m)
  BY DEF handle_handshake
<1>2. Good(n, t)
  BY SendHandshake DEF Same
<1> HIDE DEF t
<1>3. Good(n, u)
  <2>1. Same(n, t, u)
    BY <1>2, SetConnFields
  <2> QED
    BY <2>1 DEF Same
<1> HIDE DEF u
<1>4. Good(n, v)
  <2>1. Same(n, u, v)
    BY <1>3, SetConnFields
  <2> QED
    BY <2>1 DEF Same
<1> HIDE DEF v
<1>5. Same(n, v, recv_handshake(v, c, m))
  BY <1>4, RecvHandshake
<1> QED
  BY <1>1, <1>5 DEF Same

\* A notice of irreversible blocks is handled.
LEMMA HandleLastIrr ==
    ASSUME NEW n \in Nodes, NEW s, Good(n, s), NEW c \in Peers(n), NEW m, m.lib \in Nat
    PROVE  Good(n, handle_last_irr(s, c, m))
<1> DEFINE u == [s EXCEPT !.conn[c].phase = "open"]
           v == [u EXCEPT !.conn[c].recv = m.lib]
           w == reset_lib_num(v, c)
<1>1. handle_last_irr(s, c, m) = start_sync(w, c, m.lib)
  BY DEF handle_last_irr
<1>3. Good(n, u)
  <2>1. Same(n, s, u)
    BY SetConnFields
  <2> QED
    BY <2>1 DEF Same
<1> HIDE DEF u
<1>4. Good(n, v)
  <2>1. Same(n, u, v)
    BY <1>3, SetConnFields
  <2> QED
    BY <2>1 DEF Same
<1> HIDE DEF v
<1>5. Good(n, w)
  BY <1>4, ResetLibNum DEF Same
<1> HIDE DEF w
<1>6. Same(n, w, start_sync(w, c, m.lib))
  BY <1>5, StartSync
<1> QED
  BY <1>1, <1>6 DEF Same

\* A notice of a branch is handled.
LEMMA HandleCatchUp ==
    ASSUME NEW n \in Nodes, NEW s, Good(n, s), NEW c \in Peers(n), NEW m, m.num \in Nat
    PROVE  Good(n, handle_catch_up(s, c, m))
<1> DEFINE u == [s EXCEPT !.conn[c].phase = "open"]
<1>1. handle_catch_up(s, c, m) = verify_catchup(u, c, m.num)
  BY DEF handle_catch_up
<1>2. Same(n, s, u)
  BY SetConnFields
<1> HIDE DEF u
<1>3. Good(n, u)
  BY <1>2 DEF Same
<1>4. Same(n, u, verify_catchup(u, c, m.num))
  BY <1>3, VerifyCatchup
<1> QED
  BY <1>1, <1>4 DEF Same

\* A request is set and its first block written.
LEMMA ServeRequest ==
    ASSUME NEW n \in Nodes, NEW s, Good(n, s), NEW c \in Peers(n), NEW r \in [last : Nat, end : Nat, idle : BOOLEAN]
    PROVE  Good(n, enqueue_sync_block([s EXCEPT !.conn[c].request = r], c))
<1> DEFINE t == [s EXCEPT !.conn[c].request = r]
<1>1. Same(n, s, t)
  BY SetConnFields
<1> HIDE DEF t
<1>2. Good(n, t)
  BY <1>1 DEF Same
<1>3. Same(n, t, enqueue_sync_block(t, c))
  BY <1>2, EnqueueSyncBlock
<1>4. Good(n, enqueue_sync_block(t, c))
  BY <1>3 DEF Same
<1> QED
  BY <1>4 DEF t

\* A request for the branch is handled: it begins with a block of the chain.
LEMMA HandleRequestCatchUp ==
    ASSUME NEW n \in Nodes, NEW s, Good(n, s), NEW c \in Peers(n)
    PROVE  Good(n, handle_request_catch_up(s, c))
<1> DEFINE k      == s.conn[c]
           l      == IF k.sent # 0 THEN k.sent ELSE last_irreversible_block_num(s)
           branch == IF k.request = NoRequest THEN [last |-> l, end |-> s.head, idle |-> FALSE]
                     ELSE [last |-> Min({k.request.last, l}), end |-> Max({k.request.end, s.head}),
                           idle |-> FALSE]
           t      == enqueue_sync_block([s EXCEPT !.conn[c].request = branch], c)
<1>1. handle_request_catch_up(s, c) = [t EXCEPT !.conn[c].syncing = FALSE]
  BY DEF handle_request_catch_up
<1>2. k.sent \in Nat /\ k.request \in {NoRequest} \cup [last : Nat, end : Nat, idle : BOOLEAN] /\ s.head \in Nat
  BY Typed, ConnTyped, BlockAssumption
<1>3. l \in Nat
  BY <1>2, Lib
<1> HIDE DEF l
<1>4. branch \in [last : Nat, end : Nat, idle : BOOLEAN]
  <2>1. CASE k.request = NoRequest
    BY <1>2, <1>3, <2>1
  <2>2. CASE k.request # NoRequest
    <3>1. k.request.last \in Nat /\ k.request.end \in Nat
      BY <1>2, <2>2
    <3>2. Min({k.request.last, l}) \in Nat /\ Max({k.request.end, s.head}) \in Nat
      BY <1>2, <1>3, <3>1, MinOfTwo, MaxOfTwo
    <3> QED
      BY <2>2, <3>2
  <2> QED
    BY <2>1, <2>2
<1> HIDE DEF branch
<1>5. Good(n, t)
  BY <1>4, ServeRequest
<1> HIDE DEF t
<1>6. Same(n, t, [t EXCEPT !.conn[c].syncing = FALSE])
  BY <1>5, SetConnFields
<1> QED
  BY <1>1, <1>6 DEF Same

\* A request for irreversible blocks is handled; a request that does not cancel starts
\* at a block, so that the number before it exists.
LEMMA HandleSyncRequest ==
    ASSUME NEW n \in Nodes, NEW s, Good(n, s), NEW c \in Peers(n), NEW m,
           m.start \in Nat, m.end \in Nat, m.start > 0 \/ m.end = 0
    PROVE  Good(n, handle_sync_request(s, c, m))
<1>1. CASE m.end = 0
  <2> DEFINE t == [s EXCEPT !.conn[c].request = NoRequest]
  <2>1. handle_sync_request(s, c, m) = flush_queues(t, c)
    BY <1>1 DEF handle_sync_request
  <2>2. Same(n, s, t)
    BY SetConnFields
  <2> HIDE DEF t
  <2>3. Good(n, t)
    BY <2>2 DEF Same
  <2>4. Same(n, t, flush_queues(t, c))
    BY <2>3, FlushQueues
  <2> QED
    BY <2>1, <2>4 DEF Same
<1>2. CASE m.end # 0
  <2>1. [last |-> m.start - 1, end |-> m.end, idle |-> FALSE] \in [last : Nat, end : Nat, idle : BOOLEAN]
    BY <1>2
  <2> QED
    BY <1>2, <2>1, ServeRequest DEF handle_sync_request
<1> QED
  BY <1>1, <1>2

\* A block is handled: recv_block sees it only after the controller has it.
LEMMA HandleBlock ==
    ASSUME NEW n \in Nodes, NEW s, Good(n, s), NEW c \in Peers(n), NEW m, m.num \in 1 .. MaxHead
    PROVE  Good(n, handle_block(s, c, m))
<1>0. s.head \in Nat /\ m.num \in Nat /\ MaxHead \in Nat
  BY BlockAssumption DEF Good, NodeState
<1>1. CASE m.num <= s.head
  <2>1. Same(n, s, recv_block(s, c, m.num))
    BY <1>0, <1>1, RecvBlock
  <2> QED
    BY <1>1, <2>1 DEF handle_block, Same
<1>2. CASE m.num = s.head + 1
  <2> DEFINE t == [s EXCEPT !.head = m.num]
             u == bcast_block(t, c)
  <2>1. handle_block(s, c, m) = recv_block(u, c, m.num)
    BY <1>0, <1>2 DEF handle_block
  <2>2. Good(n, t) /\ t.head = m.num
    BY <1>2, BlockAssumption DEF Good, NodeState, Held
  <2> HIDE DEF t
  <2>3. Same(n, t, u)
    BY <2>2, BcastBlock
  <2> HIDE DEF u
  <2>4. Good(n, u) /\ u.head = m.num
    BY <2>2, <2>3 DEF Same
  <2>5. Same(n, u, recv_block(u, c, m.num))
    BY <1>0, <2>4, RecvBlock
  <2> QED
    BY <2>1, <2>5 DEF Same
<1>3. CASE ~(m.num <= s.head) /\ m.num # s.head + 1
  <2>1. Same(n, s, rejected_block(s, c))
    BY RejectedBlock
  <2> QED
    BY <1>3, <2>1 DEF handle_block, Same
<1> QED
  BY <1>1, <1>2, <1>3

\* Whatever may be sent is handled.
LEMMA HandleMessage ==
    ASSUME NEW n \in Nodes, NEW s, Good(n, s), NEW c \in Peers(n), NEW m \in Sendable
    PROVE  Good(n, handle_message(s, c, m))
<1>0. m.type \in {"handshake", "last_irr_catch_up", "catch_up", "request_catch_up", "request_none",
                  "sync_request", "block"}
  BY DEF Sendable, Message
<1>1. CASE m.type = "handshake"
  <2>1. m.head \in Nat /\ m.lib \in Nat
    BY <1>1 DEF Sendable, Message
  <2>2. handle_message(s, c, m) = handle_handshake(s, c, m)
    BY <1>1 DEF handle_message
  <2> QED
    BY <2>1, <2>2, HandleHandshake
<1>2. CASE m.type = "last_irr_catch_up"
  <2>1. m.lib \in Nat
    BY <1>2 DEF Sendable, Message
  <2>2. handle_message(s, c, m) = handle_last_irr(s, c, m)
    BY <1>2 DEF handle_message
  <2> QED
    BY <2>1, <2>2, HandleLastIrr
<1>3. CASE m.type = "catch_up"
  <2>1. m.num \in Nat
    BY <1>3 DEF Sendable, Message
  <2>2. handle_message(s, c, m) = handle_catch_up(s, c, m)
    BY <1>3 DEF handle_message
  <2> QED
    BY <2>1, <2>2, HandleCatchUp
<1>4. CASE m.type = "request_catch_up"
  <2>2. handle_message(s, c, m) = handle_request_catch_up(s, c)
    BY <1>4 DEF handle_message
  <2> QED
    BY <2>2, HandleRequestCatchUp
<1>5. CASE m.type = "request_none"
  <2>1. handle_message(s, c, m) = [s EXCEPT !.conn[c].syncing = FALSE]
    BY <1>5 DEF handle_message, handle_request_none
  <2>2. Same(n, s, [s EXCEPT !.conn[c].syncing = FALSE])
    BY SetConnFields
  <2> QED
    BY <2>1, <2>2 DEF Same
<1>6. CASE m.type = "sync_request"
  <2>1. m.start \in Nat /\ m.end \in Nat /\ (m.start > 0 \/ m.end = 0)
    BY <1>6 DEF Sendable, Message
  <2>2. handle_message(s, c, m) = handle_sync_request(s, c, m)
    BY <1>6 DEF handle_message
  <2> QED
    BY <2>1, <2>2, HandleSyncRequest
<1>7. CASE m.type = "block"
  <2> DEFINE t == [s EXCEPT !.conn[c].timer = FALSE]
  <2>1. m.num \in 1 .. MaxHead
    BY <1>7 DEF Sendable
  <2>2. handle_message(s, c, m) = handle_block(t, c, m)
    BY <1>7 DEF handle_message
  <2>3. Same(n, s, t)
    BY SetConnFields
  <2> HIDE DEF t
  <2>4. Good(n, t)
    BY <2>3 DEF Same
  <2> QED
    BY <2>1, <2>2, <2>4, HandleBlock
<1> QED
  BY <1>0, <1>1, <1>2, <1>3, <1>4, <1>5, <1>6, <1>7

\* Clearing what nobody reads.
LEMMA Unread ==
    ASSUME NEW n \in Nodes, NEW s, Good(n, s), NEW gone
    PROVE  Good(n, unread(s, gone))
<1> DEFINE f == [c \in DOMAIN s.conn |->
                  IF c \in gone THEN [s.conn[c] EXCEPT !.out = <<>>, !.waiting = <<>>] ELSE s.conn[c]]
<1>1. DOMAIN s.conn = Peers(n)
  BY DEF Good, NodeState
<1>2. ASSUME NEW c \in Peers(n)
      PROVE  s.conn[c] \in Conn /\ [s.conn[c] EXCEPT !.out = <<>>, !.waiting = <<>>] \in Conn
  <2> DEFINE k == [s.conn[c] EXCEPT !.out = <<>>]
  <2>1. <<>> \in Seq(Sendable) /\ s.conn[c] \in Conn
    BY Typed
  <2>2. k \in Conn
    BY <2>1, ConnFields
  <2> HIDE DEF k
  <2>3. [k EXCEPT !.waiting = <<>>] \in Conn
    BY <2>1, <2>2, ConnFields
  <2> QED
    BY <2>1, <2>3 DEF k
<1>3. f \in [Peers(n) -> Conn]
  BY <1>1, <1>2
<1>4. unread(s, gone) = [s EXCEPT !.conn = f]
  BY DEF unread
<1> HIDE DEF f
<1> QED
  BY <1>3, <1>4, SetConns DEF Same

----------------------------------------------------------------------------
\* One or two nodes change.
LEMMA Update ==
    ASSUME IInv, NEW n \in Nodes, NEW s, Good(n, s)
    PROVE  LET f == [node EXCEPT ![n] = s]
           IN  f = [x \in Nodes |-> f[x]] /\ \A x \in Nodes : Good(x, f[x])
<1> DEFINE f == [node EXCEPT ![n] = s]
<1>1. DOMAIN node = Nodes
  <2>1. node = [x \in Nodes |-> node[x]]
    BY DEF IInv
  <2> QED
    BY <2>1
<1>2. f = [x \in Nodes |-> IF x = n THEN s ELSE node[x]]
  BY <1>1
<1>3. \A x \in Nodes : Good(x, node[x])
  BY DEF IInv
<1>4. f = [x \in Nodes |-> f[x]]
  BY <1>2
<1>5. ASSUME NEW x \in Nodes PROVE Good(x, f[x])
  <2>1. CASE x = n
    BY <1>2, <2>1
  <2>2. CASE x # n
    BY <1>2, <1>3, <2>2
  <2> QED
    BY <2>1, <2>2
<1> QED
  BY <1>4, <1>5

\* A step of one node and of its end of a socket at another.
LEMMA UpdateTwo ==
    ASSUME IInv, NEW n \in Nodes, NEW p \in Nodes, n # p, NEW s, Good(n, s), NEW t, Good(p, t)
    PROVE  LET f == [node EXCEPT ![n] = s, ![p] = t]
           IN  f = [x \in Nodes |-> f[x]] /\ \A x \in Nodes : Good(x, f[x])
<1> DEFINE f == [node EXCEPT ![n] = s, ![p] = t]
<1>1. DOMAIN node = Nodes
  <2>1. node = [x \in Nodes |-> node[x]]
    BY DEF IInv
  <2> QED
    BY <2>1
<1>2. f = [x \in Nodes |-> IF x = p THEN t ELSE IF x = n THEN s ELSE node[x]]
  BY <1>1
<1>3. \A x \in Nodes : Good(x, node[x])
  BY DEF IInv
<1>4. f = [x \in Nodes |-> f[x]]
  BY <1>2
<1>5. ASSUME NEW x \in Nodes PROVE Good(x, f[x])
  <2>1. CASE x = n
    BY <1>2, <2>1
  <2>2. CASE x = p
    BY <1>2, <2>2
  <2>3. CASE x # n /\ x # p
    BY <1>2, <1>3, <2>3
  <2> QED
    BY <2>1, <2>2, <2>3
<1> QED
  BY <1>4, <1>5

\* A node is not its own peer.
LEMMA PeersAreOthers ==
    ASSUME NEW n \in Nodes, NEW p \in Peers(n)
    PROVE  p \in Nodes /\ p # n /\ n \in Peers(p)
<1>1. p \in Nodes /\ n \in Peers(p)
  BY DEF Peers
<1>2. p # n
  <2> SUFFICES ASSUME p = n PROVE FALSE
    OBVIOUS
  <2>1. <<n, n>> \in Dials
    BY DEF Peers
  <2> QED
    BY <2>1, NetworkAssumption
<1> QED
  BY <1>1, <1>2

\* The initial state is good.
LEMMA InitGood == Init => IInv
<1> SUFFICES ASSUME Init PROVE IInv
  OBVIOUS
<1> DEFINE s(n) == [head |-> InitHead[n], known |-> 0, last |-> 0, next |-> 1, source |-> None,
                    state |-> "in_sync", connections |-> {p \in Nodes : <<n, p>> \in Dials},
                    conn |-> [p \in Peers(n) |-> Closed]]
<1>1. node = [n \in Nodes |-> s(n)]
  BY DEF Init
<1>2. ASSUME NEW n \in Nodes PROVE Good(n, s(n))
  <2>1. {p \in Nodes : <<n, p>> \in Dials} \subseteq Peers(n)
    BY DEF Peers
  <2>2. [p \in Peers(n) |-> Closed] \in [Peers(n) -> Conn]
    BY ClosedTyped
  <2>3. InitHead[n] \in Lag + 1 .. MaxHead
    BY BlockAssumption
  <2> QED
    BY <2>1, <2>2, <2>3 DEF Good, NodeState, Held
<1>3. silent \subseteq Nodes /\ faults \in 0 .. MaxFaults
  BY BlockAssumption DEF Init
<1> HIDE DEF s
<1>4. node = [n \in Nodes |-> node[n]] /\ \A n \in Nodes : node[n] = s(n)
  BY <1>1
<1> QED
  BY <1>2, <1>3, <1>4 DEF IInv

\* Connect preserves the invariant.
LEMMA ConnectStep ==
    ASSUME IInv, NEW n \in Nodes, NEW p \in Peers(n), Connect(n, p)
    PROVE  IInv'
<1> DEFINE a0 == [node[n] EXCEPT !.conn[p].phase = "connecting"]
           a  == [a0 EXCEPT !.conn[p].out = <<>>]
           b0 == [node[p] EXCEPT !.connections = node[p].connections \cup {n}]
           b  == [b0 EXCEPT !.conn[n] = [Closed EXCEPT !.phase = "connecting"]]
<1>0. p \in Nodes /\ p # n /\ n \in Peers(p) /\ Good(n, node[n]) /\ Good(p, node[p])
  BY PeersAreOthers DEF IInv
<1>1. node' = [node EXCEPT ![n] = send_handshake(a, p), ![p] = b]
  BY <1>0 DEF Connect
<1>2. Good(n, send_handshake(a, p))
  <2>1. Same(n, node[n], a0)
    BY <1>0, SetConnFields
  <2> HIDE DEF a0
  <2>2. Good(n, a0) /\ <<>> \in Seq(Sendable)
    BY <2>1 DEF Same
  <2>3. Same(n, a0, a)
    BY <2>2, SetConnFields
  <2> HIDE DEF a
  <2>4. Good(n, a)
    BY <2>3 DEF Same
  <2> QED
    BY <2>4, SendHandshake DEF Same
<1>3. Good(p, b)
  <2>1. Good(p, b0)
    BY <1>0 DEF Good, NodeState, Held
  <2>2. [Closed EXCEPT !.phase = "connecting"] \in Conn
    BY ClosedTyped, ConnFields
  <2> HIDE DEF b0
  <2>3. Same(p, b0, b)
    BY <1>0, <2>1, <2>2, SetConn
  <2> QED
    BY <2>3 DEF Same
<1> HIDE DEF a, b
<1> QED
  BY <1>0, <1>1, <1>2, <1>3, UpdateTwo DEF IInv, Connect

\* Receive preserves the invariant: the message read is one that was sent.
LEMMA ReceiveStep ==
    ASSUME IInv, NEW n \in Nodes, NEW p \in Peers(n), Receive(n, p)
    PROVE  IInv'
<1> DEFINE q == node[p].conn[n].out
           a == [node[p] EXCEPT !.conn[n].out = Tail(q)]
           h == handle_message(node[n], p, Head(q))
           b == unread(h, silent)
<1>0. p \in Nodes /\ p # n /\ n \in Peers(p) /\ Good(n, node[n]) /\ Good(p, node[p])
  BY PeersAreOthers DEF IInv
<1>1. node' = [node EXCEPT ![p] = a, ![n] = b]
  <2>1. node' = [node EXCEPT ![p].conn[n].out = Tail(@),
                             ![n] = unread(handle_message(@, p, Head(node[p].conn[n].out)), silent)]
    BY DEF Receive
  <2> QED
    BY <1>0, <2>1
<1>2. q \in Seq(Sendable) /\ q # <<>>
  <2>1. node[p].conn[n] \in Conn
    BY <1>0, Typed
  <2> QED
    BY <2>1, ConnTyped DEF Receive
<1>3. Head(q) \in Sendable /\ Tail(q) \in Seq(Sendable)
  <2> HIDE DEF q
  <2> QED
    BY <1>2
<1>4. Good(p, a)
  <2> HIDE DEF q
  <2>1. Same(p, node[p], a)
    BY <1>0, <1>3, SetConnFields
  <2> QED
    BY <2>1 DEF Same
<1>5. Good(n, b)
  <2> HIDE DEF q
  <2>1. Good(n, h)
    BY <1>0, <1>3, HandleMessage
  <2> HIDE DEF h
  <2> QED
    BY <2>1, Unread
<1> HIDE DEF a, b
<1> QED
  BY <1>0, <1>1, <1>4, <1>5, UpdateTwo DEF IInv, Receive

\* WriteNext preserves the invariant.
LEMMA WriteNextStep ==
    ASSUME IInv, NEW n \in Nodes, NEW p \in Peers(n), WriteNext(n, p)
    PROVE  IInv'
<1>1. Good(n, node[n])
  BY DEF IInv
<1>2. Good(n, enqueue_sync_block(node[n], p))
  BY <1>1, EnqueueSyncBlock DEF Same
<1>3. node' = [node EXCEPT ![n] = enqueue_sync_block(node[n], p)]
  BY DEF WriteNext
<1> QED
  BY <1>2, <1>3, Update DEF IInv, WriteNext

\* Timeout and LateAnswer preserve the invariant.
LEMMA TimeoutStep ==
    ASSUME IInv, NEW n \in Nodes, NEW p \in Peers(n), sync_timeout(n, p), faults' \in 0 .. MaxFaults
    PROVE  IInv'
<1> DEFINE a == [node[n] EXCEPT !.conn[p].timer = FALSE]
           b == reassign_fetch(a, p)
<1>1. node' = [node EXCEPT ![n] = unread(b, silent)]
  BY DEF sync_timeout
<1>2. Good(n, node[n])
  BY DEF IInv
<1>3. Same(n, node[n], a)
  BY <1>2, SetConnFields
<1> HIDE DEF a
<1>4. Good(n, a)
  BY <1>3 DEF Same
<1>5. Good(n, b)
  BY <1>4, ReassignFetch DEF Same
<1> HIDE DEF b
<1>6. Good(n, unread(b, silent))
  BY <1>5, Unread
<1> QED
  BY <1>1, <1>6, Update DEF IInv, sync_timeout

\* ReadEof preserves the invariant.
LEMMA ReadEofStep ==
    ASSUME IInv, NEW n \in Nodes, NEW p \in Peers(n), ReadEof(n, p)
    PROVE  IInv'
<1> DEFINE a == unread(close(node[n], p), silent \cup {p})
           b == [node[p] EXCEPT !.conn[n].out = <<>>]
<1>0. p \in Nodes /\ p # n /\ n \in Peers(p) /\ Good(n, node[n]) /\ Good(p, node[p])
  BY PeersAreOthers DEF IInv
<1>1. node' = [node EXCEPT ![n] = a, ![p] = b]
  <2>1. node' = [node EXCEPT ![n] = unread(close(@, p), silent \cup {p}), ![p].conn[n].out = <<>>]
    BY DEF ReadEof
  <2> QED
    BY <1>0, <2>1
<1>2. Good(n, a)
  <2>1. Good(n, close(node[n], p))
    BY <1>0, Close DEF Same
  <2> QED
    BY <2>1, Unread
<1>3. Good(p, b)
  <2>1. <<>> \in Seq(Sendable)
    OBVIOUS
  <2>2. Same(p, node[p], b)
    BY <1>0, <2>1, SetConnFields
  <2> QED
    BY <2>2 DEF Same
<1> HIDE DEF a, b
<1> QED
  BY <1>0, <1>1, <1>2, <1>3, UpdateTwo DEF IInv, ReadEof

\* EraseConnection preserves the invariant.
LEMMA EraseConnectionStep ==
    ASSUME IInv, NEW n \in Nodes, NEW p \in Peers(n), EraseConnection(n, p)
    PROVE  IInv'
<1> DEFINE a == [node[n] EXCEPT !.connections = node[n].connections \ {p}]
           b == [a EXCEPT !.conn[p].fork = 0]
<1>1. node' = [node EXCEPT ![n] = b]
  <2>1. node' = [node EXCEPT ![n].connections = @ \ {p}, ![n].conn[p].fork = 0]
    BY DEF EraseConnection
  <2>2. node = [x \in Nodes |-> node[x]]
    BY DEF IInv
  <2> QED
    BY <2>1, <2>2
<1>2. Good(n, a)
  <2>1. Good(n, node[n])
    BY DEF IInv
  <2> QED
    BY <2>1 DEF Good, NodeState, Held
<1> HIDE DEF a
<1>3. Same(n, a, b)
  BY <1>2, SetConnFields
<1> HIDE DEF b
<1>4. Good(n, b)
  BY <1>3 DEF Same
<1> QED
  BY <1>1, <1>4, Update DEF IInv, EraseConnection

\* ConnectionLost preserves the invariant.
LEMMA ConnectionLostStep ==
    ASSUME IInv, NEW n \in Nodes, NEW p \in Peers(n), ConnectionLost(n, p)
    PROVE  IInv'
<1>0. Good(n, node[n])
  BY DEF IInv
<1>1. Good(n, close(node[n], p))
  BY <1>0, Close DEF Same
<1>2. Good(n, unread(close(node[n], p), silent))
  BY <1>1, Unread
<1>3. node' = [node EXCEPT ![n] = unread(close(node[n], p), silent)]
  BY DEF ConnectionLost
<1>4. faults' \in 0 .. MaxFaults
  BY BlockAssumption DEF IInv, ConnectionLost
<1> QED
  BY <1>2, <1>3, <1>4, Update DEF IInv, ConnectionLost

\* FallSilent preserves the invariant.
LEMMA FallSilentStep ==
    ASSUME IInv, NEW p \in Nodes, FallSilent(p)
    PROVE  IInv'
<1>1. node' = [n \in Nodes |-> unread(node[n], {p})]
  BY DEF FallSilent
<1>2. \A n \in Nodes : Good(n, unread(node[n], {p}))
  BY Unread DEF IInv
<1>3. node' = [n \in Nodes |-> node'[n]] /\ \A n \in Nodes : Good(n, node'[n])
  BY <1>1, <1>2
<1>4. faults' \in 0 .. MaxFaults /\ silent' \subseteq Nodes
  BY BlockAssumption DEF IInv, FallSilent
<1> QED
  BY <1>3, <1>4 DEF IInv

\* AcceptProduced preserves the invariant.
LEMMA AcceptProducedStep ==
    ASSUME IInv, NEW n \in Nodes, AcceptProduced(n)
    PROVE  IInv'
<1> DEFINE a == [node[n] EXCEPT !.head = node[n].head + 1]
<1>1. Good(n, a)
  <2>1. Good(n, node[n])
    BY DEF IInv
  <2> QED
    BY <2>1, BlockAssumption DEF Good, NodeState, Held, AcceptProduced
<1>2. node' = [node EXCEPT ![n] = unread(bcast_block(a, None), silent)]
  BY DEF AcceptProduced
<1> HIDE DEF a
<1>3. Good(n, bcast_block(a, None))
  BY <1>1, BcastBlock DEF Same
<1>4. Good(n, unread(bcast_block(a, None), silent))
  BY <1>3, Unread
<1> QED
  BY <1>2, <1>4, Update DEF IInv, AcceptProduced

\* Whatever is sent, lost, late or refused, on any network: every message names blocks of
\* the chain, and every node is in a good state.
THEOREM Invariant == Spec => []IInv
<1>1. Init => IInv
  BY InitGood
<1>2. IInv /\ [Next]_vars => IInv'
  <2> SUFFICES ASSUME IInv, [Next]_vars PROVE IInv'
    OBVIOUS
  <2>1. ASSUME NEW n \in Nodes, NEW p \in Peers(n), Timeout(n, p) PROVE IInv'
    BY <2>1, TimeoutStep DEF Timeout, IInv
  <2>2. ASSUME NEW n \in Nodes, NEW p \in Peers(n), LateAnswer(n, p) PROVE IInv'
    <3>1. faults' \in 0 .. MaxFaults
      BY <2>2, BlockAssumption DEF LateAnswer, IInv
    <3> QED
      BY <2>2, <3>1, TimeoutStep DEF LateAnswer
  <2>3. CASE UNCHANGED vars
    BY <2>3 DEF IInv, vars
  <2> QED
    BY <2>1, <2>2, <2>3, ConnectStep, ReceiveStep, WriteNextStep, ReadEofStep, EraseConnectionStep,
       ConnectionLostStep, FallSilentStep, AcceptProducedStep DEF Next
<1> QED
  BY <1>1, <1>2, PTL DEF Spec

\* A node that is catching up holds every block below the one it expects, for any
\* network, span, lag and number of faults: recv_block of sync_manager counts a block
\* only when the controller has taken it.
THEOREM NoBlockSkipped == Spec => []NothingSkipped
<1>1. IInv => NothingSkipped
  <2> SUFFICES ASSUME IInv, NEW n \in Nodes
               PROVE  /\ node[n].head \in 1 .. MaxHead
                      /\ node[n].known \in Nat /\ node[n].last \in Nat /\ node[n].next \in Nat
                      /\ node[n].source \in Peers(n) \cup {None}
                      /\ node[n].state \in {"lib_catchup", "head_catchup", "in_sync"}
                      /\ node[n].connections \subseteq Peers(n)
                      /\ node[n].conn \in [Peers(n) -> Connection]
                      /\ node[n].state = "lib_catchup" => node[n].head >= node[n].next - 1
    BY DEF IInv, NothingSkipped, TypeOK
  <2>1. Good(n, node[n])
    BY DEF IInv
  <2>2. Conn \subseteq Connection
    <3>1. Seq(Sendable) \subseteq Seq(Message)
      <4>1. Sendable \subseteq Message
        BY DEF Sendable
      <4> QED
        BY <4>1
    <3> QED
      BY <3>1 DEF Conn, Connection
  <2>3. node[n].conn \in [Peers(n) -> Connection]
    BY <2>1, <2>2 DEF Good, NodeState
  <2> QED
    BY <2>1, <2>3, BlockAssumption DEF Good, NodeState, Held
<1> QED
  BY <1>1, Invariant, PTL
==============================================================================
